# Threshold ML-KEM-768: specifications, model checking and proofs

This directory is a verification project for the program in the repository: a
threshold decapsulation service for ML-KEM-768 in which a *dealer* splits a
secret key among *shareholders* and a *coordinator* decapsulates with the help
of any k of them. It holds TLA+ modules translated from the C sources, TLC
configurations that check them on small instances, and proofs that hold for
every value of the constants. Paths below are relative to the repository.

## 1. Inventory

| component | source | state | operations |
|---|---|---|---|
| dealer | `src/dealer.c` | one process: keypair, N shares, loop index; writes `ek.bin`, `z.bin` | start, generate and split, write two files, probe N hosts, post N shares, exit |
| shareholder (x N) | `src/shareholder.c` | `g_share`, `g_x`, `g_party_index`, `g_ready`, in memory only; a body buffer per request | `GET /health`, `POST /store_share`, `POST /partial_decrypt` |
| coordinator | `src/coordinator.c` | ek, z, per trial: ciphertext, collected partials and points; the results file | wait for files, probe k hosts, trials (encapsulate, collect, combine, compare, AES round trip), exit |
| deployment | `docker-compose.yml` | containers, a shared volume, exit codes | gate on the dealer's exit 0, restart of containers, re-run of the dealer, one-off coordinators beside a running one |
| threshold arithmetic | `src/kyber/threshold.c` | none (pure) | `mod_q`, `center_q`, `mod_inverse_q`, split, partial decryption, combine, finish |
| KEM | `src/kyber/kem.c` | none | key generation, encapsulation, the Fujisaki-Okamoto tail of decapsulation |
| IND-CPA PKE, polynomials, NTT, reductions, sampling | `src/kyber/{indcpa,poly,polyvec,ntt,reduce,cbd}.c` | a lazily built twiddle table | encryption, decryption, transforms, (de)serialisation, (de)compression |
| hashing | `src/kyber/shake.c` | none | wrappers around OpenSSL |
| wire format | `src/hexutil.c`, parsers in `shareholder.c`, `coordinator.c` | none | hex and flat JSON |
| toy prototype | `src/main.c`, `toy_crypto.c`, `shamir.c`, `lagrange.c` | none | scalar LWE with Shamir sharing over 97 |
| toy deployment | `shamir-docker/` | as above, without files | the prototype over HTTP |

**Interaction.** The dealer and the coordinator never talk to each other: they
share the two key files and the compose gate (the coordinator container is
started when the dealer has exited 0). Both talk to shareholders by blocking
HTTP requests with a timeout of 5 s. A shareholder serves its requests from one
polling thread, which calls the request handler once per piece of a body, for
several connections in turn. The toy deployment has the same three programs,
without files and without the gate.

**Hard behaviour.** A timeout does not recall a request: a share can be stored
after the dealer gave it up, and after a *later* dealer run stored another one.
`docker compose run coordinator` may start the dealer again (the compose file
says so) while another coordinator is in the middle of its trials, so shares of
two keypairs meet; and the two coordinators write one results file, each from a buffer
and at an offset of its own. Bodies arrive in pieces, of several connections in turn, into
buffers that cut them. Containers die and come back without a share. Each file
write can fail. Every wait has to end by itself, since nobody is signalled.

**What makes each part correct.** The dealer: an acknowledged share is the one
the host holds; no host gets two points of a polynomial; ek and z of one
keypair. A shareholder: a partial is of a whole share and belongs to its x. The
coordinator: any k answers under one keypair recover the key; a failed trial
has a cause; what a run finds in the results file of its own is what it wrote. All waits end. The arithmetic: any k distinct
points recover, k-1 reveal nothing, the inverse exists and is found. Sampling: no bias,
no array left, the key's matrix and its transpose of one seed.
`PROJECT.json` lists the hazards line by line, with the property for each.

## 2. The modules

### The service

* `Wire` - constants of the deployment (hosts, the two host lists, N, T, K), the
  message sets, and what the programs share: which servers listen, the two
  files, the store requests on their way, and the two blocking exchanges. A
  keypair is the number of the dealer run that made it (`epoch`), a share the
  pair of its epoch and its point; a buffer that holds no whole share is `Blank`.
* `Dealer` - `main` of `dealer.c`, one action per step between which something
  else can happen: `DealerStart`/`DealerRefuse` (start; too few hosts, no entropy),
  `DealerOpen` (fopen truncates, or fails), `DealerWrite` (fwrite and the
  unchecked fclose), `DealerProbe` (a round of `wait_healthy`), `DealerPost` and
  `DealerReturn` (the two halves of `http_post`; the return is a 200, or a
  failure at any time), `DealerKill`.
* `Shareholder` - `StoreBegin`/`StoreEnd` (the handler is split where `g_share`
  is being overwritten), `PartialDecrypt`, `Crash`, `Listen`. `late` and `seen`
  are history variables that no action reads.
* `Coordinator` - `CoordStart`, the rounds of `wait_for_file` and `wait_healthy`,
  `CoordOpen`, `CoordEncaps`, `CoordAsk`, `CoordTake`, `CoordSkip`, `CoordFinish`. `Recovers` states
  when `threshold_combine` returns the message - the arithmetic behind it is
  checked in `ThresholdShamir` - and `ThresholdDecaps` is the
  Fujisaki-Okamoto tail, symbolically: the encapsulated key or a key of z.
  A finished trial prints a row to a buffered stream (`CoordFinish`), which is closed after the last (`CoordClose`).
  `cepoch`, `failed`, and the `at`, `ek`, `used` fields are history. Compose runs as many coordinators at a time as it
  is asked to. They only read the key files, and `/partial_decrypt` changes nothing at a
  shareholder, so the results file is all one of them can notice of another:
  `Coordinator` is *any one* of those that run, and the next module has the rest.
* `ResultsFile` - `results.csv`: rows at places, of this coordinator or `Foreign`; what its
  stream has written of the rows printed (`Flush`: some or none of those it holds); and every other coordinator
  (`OtherStart`, `OtherOpen`, `OtherWrite`, `OtherExit`), which truncates the file and writes
  at its own offset, over a row of this one or behind a gap.
* `ThresholdKem` - composes them, adds the compose gate (for the coordinators beside too: `BesideStep`), and states the
  properties.
* `ThresholdKemInv` - the inductive invariants; `ThresholdKemProofs` - their proofs and the refinement's; `MCThresholdKem` - constants.
* `ShareService` - what the deployment promises, without its programs: every
  shareholder is a register that holds the share of at most one keypair and is
  read and written in one step; a trial asks the hosts in order, each at most
  once, and succeeds exactly when k answers are of its keypair. No requests, no
  timeouts, no files, no exits.
* `ServiceRefinement` - the mapping under which `ThresholdKem` implements it
  (`ImplementsService`). A register changes when `StoreBegin` has the body,
  although `g_share` is then still to be overwritten: the server's one thread
  keeps every reader out until `StoreEnd`. A trial's answers are those counted
  in `got`; an answer under way is the 200 in `reply`.
* `RequestBody` - one step down from `Shareholder`, which takes a body whole: the
  calls libmicrohttpd makes to the handler of `shareholder.c`, connection by connection
  (`Connect`, `FirstCall`, `Upload` with a piece of any size, `Health`, `StoreShare`, `PartialDecrypt` or
  `NotFound` once the body is complete, `OnComplete` at any time), the buffer cut at
  `MAX_BODY - 1`, `parse_json_string` and its cut, `parse_json_int`, `hex_decode`, and the order in
  which `/store_share` checks its fields and sets its globals. A body is a
  sequence of symbols; the text in front of a value is one symbol, a digit is one, and a numeric field
  (`party_index`, `x`) is one with its number. A body may lack either (`Missing`); any number will do, 0 included.
  `ShareApi` holds what it shares with `ShareServer`: digits, missing fields and answers.
* `ShareServer` - what a shareholder promises its clients: a request is read whole and answered in one step, by what was
  sent and the share of the last good store. `RequestRefinement` - the mapping under which `RequestBody` implements it
  (`ImplementsServer`): the share held is `g_share` with `g_x`, once `g_ready`.

### The arithmetic

* `FieldArith` - `mod_q`, `center_q` (with C's signed `%`), `mod_inverse_q`.
* `ModInverse` - the loop of `mod_inverse_q`, one action per round.
* `ShamirArith` - the inner loops of `threshold_split_secret` and
  `threshold_combine`; `ThresholdShamir` - split, partial decryption and
  combination of one coefficient. The C code treats the 768 coefficients
  independently, and the partial decryption is linear in the share, so one
  coefficient and one public factor stand for all.
* `Sampling` - `kyber_gen_matrix` with `rej_uniform` (`Squeeze`, one `Group` of three bytes per round,
  `Again` when the bytes run out, `NextCell`, `Abort`), for the key's matrix and
  then for the transpose that encryption expands from the same seed; `rand_mod_q`
  (`Draw`); `cbd_eta2` (`Noise`), a word of 32 bits at a time, in two halves of 16 because TLC's integers are signed. A XOF is one stream per seed and index, of which a
  longer request only reveals more.
* `Reduce`, `Ntt` - Montgomery and Barrett reduction with their int16 casts,
  the table of twiddle factors, and the product of two vectors of three ring
  elements on all 256 coefficients, the way decryption does it: the secret is transformed at key generation (`NttF`),
  written as bytes and read back in [0, q) (`Pack`), the ciphertext's vector is transformed when it arrives (`NttG`). One action
  per round of the table loop (`Table`), per layer of a
  forward transform or its closing `poly_reduce`, for the base
  multiplication (`Multiply`), per layer of the inverse transform (`InvNtt`) and
  for the final scaling (`Scale`). A layer updates disjoint pairs, so the order of
  its butterflies does not matter and it is one step; the
  three elements of a vector are transformed layer by layer together, because
  they do not touch each other. `Multiply` is `polyvec_basemul_acc_montgomery`: three
  products added up as int16 and reduced once.
* `Codec`, `Serialize` - the 12-bit packing of keys, shares and partials, the
  10-bit and 4-bit compressions, the message encoding, group by group as the
  C loops repeat them. Multiplication by a fixed-point reciprocal is evaluated
  in three digits, because TLC's integers are 32 bits wide; the wrap of
  `round_div_q` at 2^32, which does happen (the comment above it says the
  multiply stays within 32 bits, but 54913 * 80635 does not) and which the
  masks make harmless, is modelled.
* `Kem` - one encapsulation and its two decapsulations, `kyber_decaps` with the
  whole key and `threshold_decaps` with some holders' partials, over Kyber's q
  and codecs and a ring of one coefficient. Hashes are symbolic: the coins of a
  message are drawn when it is first hashed and reused afterwards, keys are
  records that contain what was hashed.

### The prototype

* `ToyScheme` - `toy_crypto.c`, `shamir.c` and `lagrange.c`: encryption of one message by
  scalar LWE, the sharing of a secret vector, and its interpolation.
* `ToyExperiment` - `main.c`: `XKeygen`, `XTrial`, `XDone`.
* `ToyDeployment` - `shamir-docker/`: the dealer, shareholders whose container can die or
  come up late, and the coordinator, each with its exits; compose orders the
  starts and nothing else. A coordinator is started with any `USE_HOSTS` and `THRESHOLD` of its environment, neither of which it
  checks: a name may be unknown or come twice, and with k above the compiled `THRESHOLD` the answer that `partials[]` has no
  room for ends what the model says of the run (`ToyOverrun`). As in the service it is any one of those that
  run; its rows are the lines it prints, and what others do to the file is not modelled again.

`MC*` modules only define constants for TLC (`MCHelpers`, `MCRing` and `MCToy` also put side by
side what one run checks). An operator introduced by a comment
"Mutant of X" is a wrong variant of X that shows which property would notice;
no specification uses it.

## 3. What TLC checks

| run | question | bounds |
|---|---|---|
| `one_dealing` | Do crashes, lost, late or refused requests, killed dealers and failed writes ever spoil a trial that got k answers, fail one without a cause, combine a point twice, or give a coalition too many points? Does every step implement the abstract service, and do the dealer and the coordinator always exit? | 3 hosts asked in another order than dealt, 2-of-3, one dealer run, one crash, 2 trials |
| `rekey` | When the dealer runs again beside a coordinator: are acknowledged shares held, partials whole, ek and z of one keypair, failed trials explained, and is it still the abstract service? | 2 hosts, 2 dealer runs, 2 coordinator runs |
| `results` | When coordinators run beside one another and again: what does a run find in the results file of what it wrote, of earlier runs and of the others? | 2 hosts, 2 runs of 2 trials, one coordinator beside, a buffer that may hold everything, a file with or without old rows |
| `request` | However bodies are cut into pieces and connections interleaved: is what a shareholder holds of one request, and every answer the one its own request deserves? Does it implement a server that reads and answers a request in one step (`ImplementsServer`)? | 2 connections, 3 requests out of 12 (good, x = 0, short, overlong, bad digit, no x, no party_index, ciphertexts good, bad and missing, probes), a buffer of 9 that holds a good body with room to spare |
| `helpers` | Is every inverse found, by a loop that shrinks? Do both matrices come from the seed, inside their arrays, and sampling end? Are draws and noise unbiased? | all residues of 3329 and negative arguments; 2 x 2 matrices of 2 coefficients from streams of up to 2 of 4 blocks with candidates on both sides of q; all second bytes; words with every byte in every place, between zeros and ones |
| `shamir_small` | Do k points recover and k-1 reveal nothing? | the field of 7 elements, exhaustively |
| `ring` | Do the transforms compute the inner product over Z_q[X]/(X^256+1), inside int16? Is the packing exact, the compression error bounded, the message robust? | vectors of monomials on either side of the wrap-around, of dense elements at the largest coefficients; every coefficient in every place of its group, extreme neighbours; noise at the limits -832 and 831 and just beyond |
| `kem` | Do honest ciphertexts round-trip, changed ones never give the key, and all choices of holders agree with the whole key? | 3 holders, 2-of-3, all ordered choices of 2 and 3, six ways to change a ciphertext |
| `toy` | Does the prototype return the message plus its noise? In containers, is every row what its partials say, and every trial accounted for, when trials run before, while and after two dealings? | field of 5, vectors of 2, 2-of-3, 2 trials, a late host, a death; a list with a name twice and an unknown one; k = 2 and 3 |
| `claim_distributed`, `claim_healthy`, `claim_toy` | three statements of the code that its behaviour refutes (section 5) | the smallest deployment that shows it |

**Why the bounds are enough.** The service's shareholders never talk to each
other, and its properties relate the dealer's and the coordinator's position to
one or two hosts, or compare two keypairs: two hosts and two keypairs show every
race between them, the third host is what a 2-of-3 deployment can lose. Retry
counts (30, 60, 120) only matter as "some are left" and "none is left", so one or
two stand for them. `MaxEpoch`, `MaxCrash` and `MaxCoordRuns` cap what the
environment may do, as `Beside` (the coordinators beside), `MaxLag` (printed rows the file may lack) and `Leftover` do for the
results file; they are the only bounds on it. Only `results` lets coordinators run beside the modelled one: nothing
else they do is seen by any other property. The safety properties of the
service are proved for every value of all of these (section 4), so the bounds
decide only what TLC can show about liveness. The same goes for the other runs. Two connections are all it takes
to mix two bodies, and a third request to notice a share left by a refused one;
the buffer of 9 cuts the longest body inside its share, which `parse_json_string` then cuts again, and leaves the others whole. In
`helpers` an entry may need one block or two, or find too little in both, and the
edges q - 1 and q are among the candidates. The toy's trials may see no dealing,
part of one, or two. The product of ring elements is
bilinear, so a few monomials and dense operands exercise every twiddle factor; for
every other operand there is the proof. The 3329 coefficients of the codecs in `ring`
and the residues of `helpers` are exhaustive.

**What may happen.** A posted request may be delivered at any later time, or
never (it then stays on its way), and an answer may come before or after the
5 s timeout, which may fire at any moment. Shareholder containers die at any
time, and lose their share; dealers are killed at any point; a file may fail to
open, be cut short with an error, or be cut short unnoticed by the ignored result
of `fclose`. The handler of one shareholder is never entered twice at once
(`MHD_USE_INTERNAL_POLLING_THREAD`, one thread), which `WholePartial` depends on: the
mutant that computes partials during a store breaks it.

**Fairness.** `FairSpec` (run `one_dealing`) assumes weak fairness of the steps a started dealer
and a started coordinator take by themselves (`DealerRun`, `CoordRun`) and
nothing else: both are single threads whose every blocking call has a timeout
(`CURLOPT_TIMEOUT`, bounded retry loops), so the operating system's scheduling
justifies it. Shareholders, the network and restarts get no fairness: the
programs exit even if nobody ever answers. `HelpersSpec` assumes weak fairness of
the sampling steps, a loop in one thread that waits for nobody. Deadlock is not checked, because the
system does stop: all programs exit, or the bounded environment has nothing left.

## 4. What is proved

Eight modules hold proofs. Hosts, lists, parties, thresholds, retry counts, bounds on the environment, requests and buffers, and the
data stay arbitrary within the ASSUMEs of the modules, and so does the modulus of the sharing, of its
inverse, of the draws and of the prototype. What the code fixes is fixed in the
theorems too: q = 3329, 256 coefficients and vectors of three in `NttProofs`, q and the compression
widths in `KemProofs`, whose ring has one coefficient, 32 bits to a word of noise in `HelperProofs`.

| module | about | theorems |
|---|---|---|
| `ThresholdKemProofs` | the service and its refinement | `TypeCorrect`, `AckedShareIsHeld`, `CoalitionsStayBelow`, `PartialsAreWhole`, `FailedTrialsExplained`, `OneDealingRecovers`, `KeyFilesOfOneKeypair`, `PointsAreDistinct`, `ResultsStayAsWritten`, `DeploymentImplementsService` |
| `RequestProofs` | the request handler and its refinement | `BufferFits`, `ShareOfOneRequest`, `AnswersAsSent`, `HandlerImplementsServer` |
| `ArithmeticProofs` | integers modulo Q, polynomials, codecs, without state | `CenterQRange`, `ModInverseCorrect` and the lemmas of the others |
| `ThresholdShamirProofs` | threshold sharing | `CombineAlwaysRecovers`, `BelowThresholdAlwaysHides` |
| `KemProofs` | codecs and KEM | `AlwaysExactOnWire`, `CompressionAlwaysBounded`, `MessageAlwaysSurvives`, `ThresholdAlwaysAgrees`, `RoundTripAlways`, `ChangedAlwaysRejected` |
| `HelperProofs` | the inverse's loop, sampling | `BezoutInvariant`, `RemainderShrinks`, `InverseOfEveryArgument`, `ArraysKept`, `StarvedAlwaysShort`, `MatrixAlwaysFromSeed`, `DrawsAreUniform`, `NoiseAlwaysBinomial` |
| `NttProofs` | the transforms: ranges, and the product they compute | `MontgomeryRange`, `BarrettRange`, `CoefficientsAlwaysFit`, `TableDone`, `LayerSplits`, `ProductSplits`, `InvLayerUndoes`, `ProductAlwaysInRing` |
| `ToyProofs` | the prototype | `ExperimentAlwaysRecovers`, `RowsAlwaysHoldProduct`, `TrialsAlwaysAccounted` |

### The service

`ThresholdKemProofs` proves, for every set of hosts, all host lists, N, T, k, retry counts
and bounds, that the service's specification implies its nine safety properties. They assume what the ASSUMEs of `Wire`,
`Dealer`, `Shareholder` and `Coordinator` say: finite hosts, positive sizes.
Few of the properties are inductive. `ThresholdKemInv` strengthens them in layers,
each proved on top of the previous one:

1. `TInv`: types and where the loop indices can stand. Without
   "failed + collected = i - 1" nothing bounds the failures of a short trial.
2. `DealInv`: what is on its way. A request that nobody has finished and that is
   of the current dealer run has no 200 (`PendingUnanswered`); therefore a share
   acknowledged in time cannot be overwritten except by a request of an earlier
   run, which is what `late` marks. This is the reason for `AckedShareHeld`.
3. `SharesBound` and `SeenOwn`: every share a host holds or ever received is
   the one its place in the list is for, hence at most one point per host and
   polynomial (`PointsInject`) and the coalition bound.
4. `TrialInv`: every reply, collected partial and finished row is made of shares
   so bound, from places further and further down the list, so that k partials
   have k different points; a full row of one keypair recovers.
5. `FilesInv`: which dealer run the two files are of at each place of the
   dealer, which the compose gate turns into `KeyFilesMatch`.

`ResultsAsWritten` is inductive on top of `TInv`, for any set of coordinators beside: two lemmas say what a write at an
offset leaves of a file (`OverwriteProperties`) and what the others leave of this run's rows. It does not say
that the file holds one run's rows: while another coordinator writes, nothing in the code keeps the two
apart, and the property then promises only that this run's rows are in their own places.

`DeploymentImplementsService` proves `ImplementsService`: initial states map to the abstract initial
state, and every action to one of `ShareService` or to a stutter. It uses
`DeploymentAssumption` (no host is named twice, k >= T), without which a full
trial could combine a point twice. A store is abstractly allowed once per host and keypair, so
the proof strengthens the invariant by `SentOnce`: a request on its way is of a share
its host has not seen, and the current dealer run has sent nothing beyond its loop index. `CoordTake`
and `CoordFinish` need `TrialInv`: the partials of k different points of the keypair are what makes
the concrete comparison of keys come out as the abstract `Success`.

`RequestProofs` proves `TypeOK`, `HoldsOneRequest` and `AnsweredAsSent` of `RequestBody`
for any connections, requests and buffer sizes (`LengthAssumption`: the buffer holds every digit of a good
body; `RequestAssumption`: the shape of a request). The invariant `RInv` says of every
connection that what it has buffered is the first n symbols of its own request's body, cut
at `MAX_BODY - 1`, and what has not arrived is the rest: this is what interleaving must not
disturb, and the two properties say nothing of it. The lemmas follow the parsers: where a
field is found in such a prefix (`FieldFound`), how far a run of digits reaches (`RunFound`), and hence what the
fields of a cut body parse to.

`HandlerImplementsServer` proves that `RequestBody` implements `ShareServer` from the same invariant. A request
takes effect at the last call of the handler, where `StoreReads` and `DecryptReads` give what the buffer parses
to in terms of what the client sent; connecting and closing begin and end it, and the first call and every piece of the body are
stutters. Beyond the two invariants this says that a refused store leaves share and x alone, that 409 comes only before the first good store, and that no
request is answered twice.

### The arithmetic

**Induction without the library's theorems.** The library's induction principles take an operator
as a parameter, which the provers cannot instantiate. `ArithmeticProofs` derives first-order ones from the
least element of a set of numbers (`LeastElement`, `Induction`, `LoopInduction`), stated over a
set where the library has a predicate. A loop is a recursive function inside a LET, of which the prover only knows that
it is *some* function with that equation if there is one. So each loop is unfolded in two steps: a
run of it is exhibited (`RunExists`, `LoopExists`, `SumExists`), hence the equation holds of the function itself, and an
induction shows that the two agree (`CombineLoopRuns`, `EvalLoopRuns`, `ProductLoopRuns`).

**The inverse.** `EuclidInv` holds of every round of `mod_inverse_q`: the coefficients
satisfy Bezout's relation, have opposite signs and weigh the two remainders to exactly q
(which bounds them), and the argument is a combination of the remainders, so
that the last remainder divides q and the argument: it is 1 when q is prime.

**Sharing** (`ThresholdShamirProofs`, and the middle of `ArithmeticProofs`). `Polys[n]` are the
functions that are, modulo q, a sum of the first n powers; they are closed under sums, multiples and multiplication by a
linear factor. The loop of `threshold_split_secret` evaluates such a polynomial (`EvalIsPoly`, by Horner's scheme), the
factors of `threshold_combine` are the Lagrange basis (`BasisPoly`, `BasisValues`), a polynomial
of degree below n with n roots vanishes (`RootsDecide`, over a prime modulus), hence what `threshold_combine` returns for any
k >= T different points is the centred value at zero (`CombineIsValueAtZero`), whose constant
coefficient is the secret. For the other direction one point more, the secret's, may be chosen freely (`Interpolation`), and the
polynomial through it has coefficients the dealer could have drawn (`CoefficientsExist`).
Both theorems are for every modulus under the hypothesis `QIsPrime`; `BelowThresholdAlwaysHides` also
assumes that every residue can be drawn, which `rand_mod_q` does (`DrawsAreUniform`).

**Codecs and KEM** (`KemProofs`). `WireInv` ties what was sent to what is received; the rest is arithmetic
about single groups: twelve-bit digits do not mix (`TwelveBits`), the rounded-down
reciprocals and the wrap of `round_div_q` at 2^32 still give the nearest step (`Compress10Error`, `Compress4Error`), and a bit
flips at exactly q/4 (`ToBitDecides`). `KemInv` says at each stage what key, shares, ciphertext and
results are made of. `QIsPrime` is not assumed here but proved of 3329 (`KyberPrime`). The threshold path agrees
because the combination is congruent to `s * u` and both paths then decode the same representative;
the round trip rests on the codec bounds and the bounds of the noise.

**Sampling** (`HelperProofs`). `SamplingInv` bounds every index by what was squeezed. `TryInv` says that what an
entry holds is the beginning of the accepted candidates of its stream's first bytes, and that between two tries the blocks squeezed so
far hold too few: so the abort after the last block throws nothing away. `MatrixInv` extends this to all finished
entries of both matrices. That a longer output only extends a shorter one is how `Xof` models SHAKE.
`DrawInv` and `NoiseInv` reduce the two distributions to counting: 16 second bytes behind each first byte that fits, and
the four bits of each of the eight coefficients of a 32-bit word, where the in-place sums carry neither from
pair to pair nor from one half of the word to the other.

**Transforms** (`NttProofs`): `montgomery_reduce` and `barrett_reduce` return a congruent
value in the range their header promises, and along the whole product no
coefficient leaves int16, for all operands up to 9471 in absolute value: the
invariant `NttInv` bounds the vector after j layers of a forward transform by
the operand's bound plus 3328 j (9471 + 7 * 3328 is 32767, so no larger operand
would do), after a Barrett reduction by 1664, the sum of the three products by 19968 before
it is reduced, and throughout the inverse transform
by 3328. The key read back from its bytes is in [0, q) instead of centred, which the bound on the three products
allows for. It rests on the table's entries being centred, which is part of it.

`ProductAlwaysInRing` proves that the product is the one of the ring, for every pair of operands in that
range. Everything is stated up to congruence modulo q (`Cong`), with the transform over the
integers as the reference: `Split(w, n, a)` takes `a` modulo the polynomials X^2n - u^2 of its blocks to
`a` modulo X^n - u and X^n + u, where the u are the entries of a table `w` of roots, for the code
169 times its `zetas` (169 undoes the Montgomery factor 2^16). The steps of the argument:

1. *The table.* `kyber_ntt_init` leaves powers of 17 in bit-reversed order, and 17^128 is -1 modulo q: each entry is
   the square of the entry of the next layer it stands for, the neighbour is its opposite (`Roots`), and the table
   read backwards holds the opposites of the inverses (`InverseRoots`), which is why `invntt` needs no table of its own
   (`TableDone`).
2. *Forward.* A layer of `ntt` is `Split` up to congruence, wherever its lazy additions stay in int16
   (`LayerSplits`, which takes that from `NttInv`).
3. *Base.* `Split` maps products in its blocks to products in the blocks of half the size
   (`ProductSplits`). After seven layers these are the products modulo X^2 - z of `basemul`, so the sum of base
   multiplications is the image of the inner product, divided by 2^16.
4. *Back.* A layer of `invntt` undoes the one of `ntt` with the same len but for a factor 2
   (`InvLayerUndoes`); seven of them leave 128, which the last multiplication by f = 1441 cancels
   together with the Montgomery factors: 169 * 128 * 169 * 1441 is 1 modulo q.
5. *The definition.* `RingProduct` sums its 256 terms in running sums of 16; that it is the sum `Split` starts from is
   `RingProductIsSum`.

`TransformInv` says at each place of the program which of these the vector is the image of, and is inductive on top of
`NttInv`. None of it depends on the operands the run uses.

### The prototype

`ToyProofs` shows that an inner product of vectors of shares is the value of a polynomial whose
value at zero is, modulo q, the product with the secret (`ProductsArePoly`, by induction over the dimension), that its `mod_inverse` and interpolation
are those of `threshold.c` but for the centring (`SameInterpolation`), and hence what a trial recovers from an encryption under
*any* vector (`TrialRecovers`). Under the secret itself the products cancel and the noise decides
(`NoiseDecides`, which needs the noise to stay below the modulus); under zeros the product of the dealt
secret remains. `DeployInv` carries this through the containers: every request and every host has
the share of its place in the list, of some dealing (`HeldInv`); the answers of a trial come from different places of the list, already passed, and belong to the host
named there (`AskedInv`), which is the same host twice if the list names it twice; dealings are only added, so rows stay true. `AccountInv`
counts trials, for every list and every k. `RowHoldsProduct` speaks of rows of `Threshold` different points of one dealing; nothing is claimed of
a row that mixes two dealings or holds a point twice. Where the modulus must be prime the hypothesis is `QIsPrime`, and `PrototypePrime` proves it of 97.

### Only model-checked

* Liveness: that dealer and coordinator exit (`DealerExits`, `CoordExits`) and sampling ends (`SamplingEnds`). Fairness and ENABLED are out of the prover's reach.

## 5. Where the code and its words differ

* `dealer.c` prints "All shares distributed" and exits 0 whatever the store
  requests returned (`claim_distributed`).
* The health probe is a HEAD request and the server's health route compares the
  method with GET, so a healthy shareholder is probed 30 times, for half a
  minute, and reported "never healthy"; the coordinator's probe has the same
  mismatch (`claim_healthy`). The service works all the same, which `one_dealing` shows.
* The toy coordinator encrypts under a vector of zeros while the partials
  subtract the product with the dealt secret, so its trials succeed by chance
  only; a comment says that the logic mirrors `main.c` (`claim_toy`; `ToyExperiment` shows that `main.c` itself recovers).

Some smaller things show in the models without a run of their own. A
comment in `mod_inverse_q` says that its argument is never zero, but a host named twice
in `USE_HOSTS` makes it zero: that hosts are distinct is an assumption here
(`HostsDistinct`) and nothing in the code checks it. Two coordinators that run at the same time mix their rows
in one results file. A `share_hex` that is too long is accepted for
its first bytes, because `parse_json_string` cuts it before `hex_decode` compares lengths.
The toy's noise never takes the value +B its comment includes; no property depends on it.

## 6. What is not modelled

* The coordinator's parsing of an answer: `CoordTake` takes a well-formed answer whole.
  What it relies on, that a shareholder answers with the x it was dealt and a partial of a whole share, is
  `WholePartial`. Its `atoi` of x is not modelled with its overflow, which needs an x that no
  shareholder of the deployment sends.
* The module dimension 3 and ring degree 256 at the level of the KEM. With one
  coefficient decryption never fails; the real parameters leave a negligible
  probability that no model of this kind can express. `MessageSurvives` gives the
  exact noise bound on which that probability rests. For the same reason `Sampling`
  and `Kem` are not composed: `Kem` takes any public factor, `Sampling` shows where it comes from.
* `poly_tomont` and `poly_sub` on their own, and key generation's product in the transformed domain.
* OpenSSL (hash functions, AES-GCM, random bytes), curl and libmicrohttpd, which are
  libraries: symbolic, or modelled from how the code uses them.
* The toy deployment's request handler below the level of a whole body (its
  accumulation is the one `RequestBody` models), what its coordinators do to a results file they share, and what becomes of
  a run that wrote behind `partials[]`.
* Tests, dumps and Python scripts.
* k below the threshold: `Recovers` covers it, the properties assume k >= T.

## 7. Plan

Done, in this order because the service's behaviour under failure is what no
test of the repository reaches: `Wire`, `Dealer`, `Shareholder`, `Coordinator`, `ResultsFile`,
`ThresholdKem` and their proofs; `FieldArith`, `ModInverse`, `ThresholdShamir`; `Reduce`,
`Ntt`, `Codec`, `Serialize`, `Kem`; the abstract service, its refinement and that proof;
`RequestBody`, `ShareServer` and the proof of one implementing the other; `Sampling`; the prototype and its deployment; proofs for the inverse,
the sharing, the codecs, the KEM, the sampling, the prototype and the transforms.

What could follow:

1. The coordinator's parser of an answer, beside `RequestBody`.
2. In `Ntt`, `poly_tomont` and the vector-by-matrix product of key generation; the proof's `Split` carries over.
