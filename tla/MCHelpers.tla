------------------------------ MODULE MCHelpers ------------------------------
(* The helper algorithms one after the other: the inverse of every residue *)
(* of Kyber's field, and of negative denominators as threshold_combine has *)
(* them; two small matrices from a XOF with four different blocks; draws;  *)
(* noise from words with every byte in every place between zeros and ones. *)
EXTENDS ModInverse, Sampling

AllResidues == -40..3328

(* Two groups of three bytes: four candidates, some at the edge of q.      *)
TwoGroups(v, w) ==
  LET bytes(c, d) == <<c % 256, c \div 256 + 16 * (d % 16), d \div 16>>
  IN  bytes(v[1], v[2]) \o bytes(w[1], w[2])

MCBlocks == {TwoGroups(<<3328, 1>>, <<2, 3>>),
             TwoGroups(<<3329, 4>>, <<3328, 5>>),
             TwoGroups(<<4095, 3329>>, <<3330, 6>>),
             TwoGroups(<<3329, 4095>>, <<4095, 3329>>)}
MCLowBytes == {0, 1, 2, 128, 254, 255}
MCWords == {[i \in 1..4 |-> IF i = place THEN b ELSE rest] :
              place \in 1..4, b \in Byte, rest \in {0, 255}}

AtRest == pc = "off" /\ SamplingIdle

HelpersInit == (Init /\ AtRest) \/ (a = 0 /\ s = EuclidInit(a) /\ SamplingInit)

HelpersNext == (Round /\ UNCHANGED samplingVars) \/ (SamplingNext /\ UNCHANGED vars)

HelpersSpec ==
  /\ HelpersInit /\ [][HelpersNext]_<<vars, samplingVars>>
  /\ WF_samplingVars(SamplingNext /\ UNCHANGED vars)
=============================================================================
