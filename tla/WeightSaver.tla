----------------------------- MODULE WeightSaver -----------------------------
(***************************************************************************)
(* How what the host pool has learned survives restarts (proxy.rs          *)
(* ProxyState::new and spawn_weight_saver, index.rs save_mw and load_mw).  *)
(* Weights are the number of observations that shaped them; the decay of   *)
(* stale ones towards a fresh pool is left out.  Transfers fold in          *)
(* observations at any moment, while a snapshot is being written too; main *)
(* waits for the listeners alone, so the process may end in any state.     *)
(***************************************************************************)
EXTENDS Naturals

CONSTANTS
    MaxObservations,  \* bound: observations of one life
    MaxRestarts,      \* bound: ends of the process
    MaxFailures       \* bound: reads and writes of the index that fail

VARIABLES
    weights,   \* the pool: the observations that shaped its weights
    seen,      \* observations of this life
    saved,     \* saved_at_obs
    saver,     \* where the task is, the weights of its snapshot, is it to stop
    shutdown,  \* was shutdown signalled
    stored,    \* the weights in the index, 0 when none were saved
    blank,     \* for the properties: did this life start without what was stored
    lost,      \* for the properties: has a snapshot failed to be written since one was
    restarts, failures

wvars == <<weights, seen, saved, saver, shutdown, stored, blank, lost, restarts, failures>>

Waiting == [at |-> "wait", weights |-> 0, stop |-> FALSE]

(* HostPool::record_success and record_failure *)
Observe ==
    /\ seen < MaxObservations
    /\ weights' = weights + 1 /\ seen' = seen + 1
    /\ UNCHANGED <<saved, saver, shutdown, stored, blank, lost, restarts, failures>>

Signal ==
    /\ ~shutdown /\ restarts < MaxRestarts
    /\ shutdown' = TRUE
    /\ UNCHANGED <<weights, seen, saved, saver, stored, blank, lost, restarts, failures>>

(* A minute passed, or shutdown: a snapshot, when there is news. *)
Wake ==
    /\ saver.at = "wait"
    /\ \E stop \in {FALSE, shutdown} :
         \/ /\ seen # saved
            /\ saved' = seen
            /\ saver' = [at |-> "save", weights |-> weights, stop |-> stop]
         \/ /\ seen = saved /\ stop
            /\ saver' = [Waiting EXCEPT !.at = "ended"]
            /\ UNCHANGED saved
    /\ UNCHANGED <<weights, seen, shutdown, stored, blank, lost, restarts, failures>>

After(s) == [Waiting EXCEPT !.at = IF s.stop THEN "ended" ELSE "wait"]

(* Mutant of Written: what counts as saved is read again afterwards.       *)
WrittenMarks ==
    /\ saver.at = "save"
    /\ stored' = saver.weights
    /\ lost' = FALSE
    /\ saver' = After(saver)
    /\ saved' = seen
    /\ UNCHANGED <<weights, seen, shutdown, blank, restarts, failures>>

(* save_mw *)
Written ==
    /\ saver.at = "save"
    /\ stored' = saver.weights
    /\ lost' = FALSE
    /\ saver' = After(saver)
    /\ UNCHANGED <<weights, seen, saved, shutdown, blank, restarts, failures>>

(* It fails: logged, and not tried again before there is other news. *)
NotWritten ==
    /\ saver.at = "save"
    /\ failures < MaxFailures /\ failures' = failures + 1
    /\ lost' = TRUE
    /\ saver' = After(saver)
    /\ UNCHANGED <<weights, seen, saved, shutdown, stored, blank, restarts>>

(* The pool is built, then load_mw's weights restored into it, or not.     *)
Start(known) ==
    /\ weights' = known
    /\ blank' = (known # stored)
    /\ seen' = 0 /\ saved' = 0 /\ saver' = Waiting /\ shutdown' = FALSE
    /\ lost' = FALSE
    /\ UNCHANGED stored

(* The process ends, by a signal or a crash, and starts again. *)
Restart ==
    /\ restarts < MaxRestarts /\ restarts' = restarts + 1
    /\ \/ Start(stored) /\ UNCHANGED failures
       \/ failures < MaxFailures /\ failures' = failures + 1 /\ Start(0)

Init ==
    /\ weights = 0 /\ seen = 0 /\ saved = 0 /\ saver = Waiting
    /\ shutdown = FALSE /\ stored = 0 /\ blank = FALSE /\ lost = FALSE
    /\ restarts = 0 /\ failures = 0

Next == Observe \/ Signal \/ Wake \/ Written \/ NotWritten \/ Restart
=============================================================================
