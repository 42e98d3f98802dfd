----------------------------- MODULE ResultsFile -----------------------------
(***************************************************************************)
(* results.csv in the bind-mounted data directory, and the coordinators    *)
(* that `docker compose run --rm coordinator` starts beside the one that   *)
(* Coordinator models.  Those share nothing else with it that it can       *)
(* change: they read ek.bin and z.bin, and /partial_decrypt leaves a       *)
(* shareholder as it was.  So Coordinator is any one of the coordinators   *)
(* that run at a time, and this module is what all the others do to it.    *)
(*                                                                         *)
(* The file is the sequence of places its rows go to; the header, and that *)
(* rows differ in length, are left out.                                    *)
(***************************************************************************)
EXTENDS Integers, Sequences

CONSTANTS
  NTrials,  \* N_TRIALS; a coordinator beside writes no more rows (bound)
  Beside,   \* bound: the coordinators that are started beside this one
  MaxLag,   \* bound: printed rows the file may lack, because the stream
            \* still buffers them or their write failed
  Leftover  \* what earlier deployments may have left in the file

(* Rows are told apart by the run of this coordinator that wrote them; 0   *)
(* stands for a row of any other one, and for bytes nobody wrote.          *)
Foreign == 0

ASSUME ResultsAssumption ==
  /\ NTrials \in Nat
  /\ MaxLag \in Nat
  /\ Leftover \subseteq Seq({Foreign})

VARIABLES
  results,   \* results[i]: the run whose row stands at place i
  flushed,   \* rows of this run its stream has written to the file
  others,    \* others[b]: how far coordinator b has come
  disturbed  \* history: another one opened or wrote the file since this
             \* run opened it

resultsVars == <<results, flushed, others, disturbed>>

(* at: the rows it has written, which is where it writes next.             *)
Other == [pc : {"off", "waiting", "open", "ended"}, at : 0..NTrials]

ResultsInit ==
  /\ results \in Leftover /\ flushed = 0
  /\ others = [b \in Beside |-> [pc |-> "off", at |-> 0]]
  /\ disturbed = FALSE

ResultsTypeOK ==
  /\ results \in Seq(Nat)
  /\ flushed \in Nat
  /\ others \in [Beside -> Other]
  /\ disturbed \in BOOLEAN

(* Writing rows first..last at a stream's own offset: what is there is     *)
(* overwritten, and a gap before them is filled with zero bytes.           *)
Overwrite(file, first, last, who) ==
  [i \in 1..(IF last > Len(file) THEN last ELSE Len(file)) |->
     IF i \in first..last THEN who
     ELSE IF i <= Len(file) THEN file[i] ELSE Foreign]

(* This run's fopen(outfile, "w").                                         *)
Truncate == results' = << >> /\ flushed' = 0 /\ disturbed' = FALSE /\ UNCHANGED others

(* The stream of this run, to which n rows were printed, writes some of    *)
(* those it holds, or none.                                                *)
Flush(run, n) ==
  /\ flushed' \in {m \in flushed..n : n - m <= MaxLag}
  /\ results' = IF flushed' = flushed THEN results
                ELSE Overwrite(results, flushed + 1, flushed', run)
  /\ UNCHANGED <<others, disturbed>>

Goes(b, from, to) == others[b].pc = from /\ others' = [others EXCEPT ![b].pc = to]

(* Another coordinator is started, and waits for the files and the hosts.  *)
OtherStart(b) == Goes(b, "off", "waiting") /\ UNCHANGED <<results, flushed, disturbed>>

(* Its fopen(outfile, "w").                                                *)
OtherOpen(b) ==
  /\ Goes(b, "waiting", "open")
  /\ results' = << >> /\ disturbed' = TRUE
  /\ UNCHANGED flushed

(* Its stream writes the next row.                                         *)
OtherWrite(b) ==
  /\ others[b].pc = "open" /\ others[b].at < NTrials
  /\ others' = [others EXCEPT ![b].at = @ + 1]
  /\ results' = Overwrite(results, others[b].at + 1, others[b].at + 1, Foreign)
  /\ disturbed' = TRUE
  /\ UNCHANGED flushed

(* It ends, having opened the file or not.                                 *)
OtherExit(b) ==
  /\ Goes(b, "waiting", "ended") \/ Goes(b, "open", "ended")
  /\ UNCHANGED <<results, flushed, disturbed>>

OtherRun(b) == OtherOpen(b) \/ OtherWrite(b) \/ OtherExit(b)
=============================================================================
