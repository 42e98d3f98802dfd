---------------------------- MODULE ShareService ----------------------------
(***************************************************************************)
(* What the deployment promises, without its programs: every shareholder   *)
(* is a register that holds the share of at most one keypair and that is   *)
(* written and read in one step.  A trial asks the hosts of a list in      *)
(* order, each at most once, and succeeds exactly when Quorum of them      *)
(* answered and every answer was of the keypair the trial encapsulated to. *)
(* ThresholdKem, where a store takes two steps, requests cross and         *)
(* programs die, is shown to implement this (ServiceRefinement).           *)
(***************************************************************************)
EXTENDS Integers, Sequences

CONSTANTS
  Hosts,    \* the registers
  Order,    \* the sequence of hosts a trial asks
  Quorum,   \* how many answers a trial needs
  Keypairs  \* the keypairs there can be, numbered from 1

VARIABLES
  dealt,    \* how many keypairs were dealt
  placed,   \* placed[h]: the keypairs a share of which reached h
  holds,    \* holds[h]: the keypair of the share h holds, 0 for none
  key,      \* the keypair the trials are about, 0 for none
  asked,    \* how many hosts this trial is through with
  answer,   \* the answer of the next host: {} or a singleton
  answers,  \* the keypairs of the answers this trial counted
  results   \* one record per finished trial

serviceVars == <<dealt, placed, holds, key, asked, answer, answers, results>>

Init ==
  /\ dealt = 0
  /\ placed = [h \in Hosts |-> {}]
  /\ holds = [h \in Hosts |-> 0]
  /\ key = 0
  /\ asked = 0 /\ answer = {} /\ answers = << >>
  /\ results = << >>

(* A new keypair.                                                          *)
Deal ==
  /\ dealt + 1 \in Keypairs
  /\ dealt' = dealt + 1
  /\ UNCHANGED <<placed, holds, key, asked, answer, answers, results>>

(* The share of a keypair that was dealt reaches its host, once.           *)
Place(h, e) ==
  /\ e \in 1..dealt /\ e \notin placed[h]
  /\ placed' = [placed EXCEPT ![h] = @ \cup {e}]
  /\ holds' = [holds EXCEPT ![h] = e]
  /\ UNCHANGED <<dealt, key, asked, answer, answers, results>>

(* A host forgets its share.                                               *)
Lose(h) ==
  /\ holds' = [holds EXCEPT ![h] = 0]
  /\ UNCHANGED <<dealt, placed, key, asked, answer, answers, results>>

Collecting == asked < Len(Order) /\ Len(answers) < Quorum

(* Between trials another keypair may become the one they are about, and   *)
(* the results may be started over.                                        *)
Choose(e) ==
  /\ asked = 0 /\ answer = {}
  /\ e \in 0..dealt
  /\ key' = e
  /\ UNCHANGED <<dealt, placed, holds, asked, answer, answers, results>>

Restart ==
  /\ asked = 0 /\ answer = {}
  /\ results' = << >>
  /\ UNCHANGED <<dealt, placed, holds, key, asked, answer, answers>>

(* The next host of the list answers with what it holds at this moment.    *)
Answer ==
  /\ Collecting /\ answer = {}
  /\ holds[Order[asked + 1]] # 0
  /\ answer' = {holds[Order[asked + 1]]}
  /\ UNCHANGED <<dealt, placed, holds, key, asked, answers, results>>

(* Its answer is counted, or it is passed over, and the next one's turn.   *)
Count ==
  /\ Collecting
  /\ \E e \in answer : answers' = Append(answers, e)
  /\ asked' = asked + 1 /\ answer' = {}
  /\ UNCHANGED <<dealt, placed, holds, key, results>>

Pass ==
  /\ Collecting
  /\ asked' = asked + 1 /\ answer' = {}
  /\ UNCHANGED <<dealt, placed, holds, key, answers, results>>

Success == Len(answers) = Quorum /\ \A i \in 1..Quorum : answers[i] = key

(* Quorum reached, or every host was asked: the trial is over.             *)
Finish ==
  /\ ~Collecting /\ key # 0
  /\ results' = Append(results, [kem |-> Success, aes |-> Success])
  /\ asked' = 0 /\ answers' = << >>
  /\ UNCHANGED <<dealt, placed, holds, key, answer>>

Next ==
  \/ Deal
  \/ \E h \in Hosts : Lose(h) \/ \E e \in Keypairs : Place(h, e)
  \/ Restart \/ \E e \in Keypairs \cup {0} : Choose(e)
  \/ Answer \/ Count \/ Pass \/ Finish

Spec == Init /\ [][Next]_serviceVars
=============================================================================
