----------------------------- MODULE Statecheck -----------------------------
(***************************************************************************)
(* pkg/executor/statecheck: an executor that does not run a task again     *)
(* when the state file in the task's output directory still matches.       *)
(*                                                                         *)
(* The file system outlives a build.  Between builds the user edits        *)
(* sources, changes what the tasks ask for, and touches or removes what    *)
(* was built; a build may die at any point.  Within a build the tasks run  *)
(* concurrently, a followup after its parent.                              *)
(*                                                                         *)
(* The wrapped executors are the repository's plugins seen from here: what *)
(* a task makes is determined by what it asks for and by the contents of   *)
(* its input.  Checksums are taken to be free of collisions.               *)
(***************************************************************************)
EXTENDS Naturals, FiniteSets

CONSTANTS
  Tasks,       \* the tasks of a build
  Ids,         \* task.ID values: output directories, with a state.json each
  Id,          \* the ID of each task
  Parent,      \* the task each task is a followup of, or NoTask
  NoTask,
  Sources,     \* source files
  Versions,    \* contents of source files
  Asks,        \* what each task may ask for: [executor, args, input]
  Structured,  \* executors whose followups have structs as arguments
  NoFile, Partial, Foreign,  \* contents: missing, half written, not bonk's
  NoState, Torn,             \* state.json: missing, not decodable
  NoResult,
  MaxBuilds,   \* bound: builds that are started
  MaxEdits     \* bound: changes the user makes to files

Ask == UNION {Asks[t] : t \in Tasks}

ASSUME StatecheckAssumption ==
  /\ NoTask \notin Tasks
  /\ Id \in [Tasks -> Ids]
  /\ Parent \in [Tasks -> Tasks \cup {NoTask}]
  /\ Sources \cap Ids = {}
  /\ \A t \in Tasks : \A a \in Asks[t] :
       /\ a = [executor |-> a.executor, args |-> a.args, input |-> a.input]
       /\ a.input \in Sources \cup Ids
  /\ MaxBuilds \in Nat /\ MaxEdits \in Nat

VARIABLES
  source,    \* contents of each source file
  out,       \* contents of the outputs of each ID
  st,        \* state.json of each ID
  building,  \* is a build running?
  ask,       \* what each task asks for in this build
  pc,        \* how far each task's Execute has come
  rec,       \* the state each task has read
  read,      \* the contents each task's executor has read
  got,       \* the result each task has delivered
  ended,     \* how the last attempt at each ID ended (for properties only)
  builds, edits

files == <<source, out, st>>
locals == <<ask, pc, rec, read, got>>
bounds == <<builds, edits>>
vars == <<files, building, locals, ended, bounds>>

-----------------------------------------------------------------------------
(* Contents.                                                               *)

Make(a, c) == [by |-> a, from |-> c]

Contents[n \in Nat] ==
  IF n = 0 THEN Versions \cup {NoFile, Partial, Foreign}
           ELSE Contents[n - 1] \cup [by : Ask, from : Contents[n - 1]]

Content == Contents[Cardinality(Ids)]

(* The input of a task: a source file, or what another task made, which    *)
(* lies below the source root as well (.bonk/<ID>/...).                    *)
Input(t) == IF ask[t].input \in Sources THEN source[ask[t].input]
                                        ELSE out[ask[t].input]

Init ==
  /\ source \in [Sources -> Versions]
  /\ out = [i \in Ids |-> NoFile]
  /\ st = [i \in Ids |-> NoState]
  /\ building = FALSE
  /\ ask \in [Tasks -> Ask] /\ \A t \in Tasks : ask[t] \in Asks[t]
  /\ pc = [t \in Tasks |-> "idle"]
  /\ rec = [t \in Tasks |-> NoState]
  /\ read = [t \in Tasks |-> NoFile]
  /\ got = [t \in Tasks |-> NoResult]
  /\ ended = [i \in Ids |-> "never"]
  /\ builds = 0 /\ edits = 0

-----------------------------------------------------------------------------
(* DetectStateMismatches.                                                  *)

Startable(t) ==
  /\ pc[t] = "idle"
  /\ Parent[t] # NoTask => pc[Parent[t]] \in {"skipped", "done"}

(* Open and decode state.json.                                             *)
Look(t) ==
  /\ building
  /\ Startable(t)
  /\ rec' = [rec EXCEPT ![t] = st[Id[t]]]
  /\ pc' = [pc EXCEPT ![t] = "looked"]
  /\ UNCHANGED <<files, building, ask, read, got, ended, bounds>>

(* The followups of a recorded result, as they are after encoding/json:    *)
(* what was a struct is now a map, and hashes differently.                 *)
Decoded(r) == IF r.executor \in Structured THEN [map |-> r.result] ELSE r.result

(* Mistakes: the outputs' checksum is not compared; the hasher is not      *)
(* reset, so that the outputs' checksum goes on from the inputs' one.      *)
MatchesButOutputs(t, r) ==
  /\ r.executor = ask[t].executor /\ r.args = ask[t].args /\ r.input = ask[t].input
  /\ r.in = Input(t)

MatchesUnreset(t, r) ==
  /\ r.executor = ask[t].executor /\ r.args = ask[t].args /\ r.input = ask[t].input
  /\ r.in = Input(t)
  /\ r.out = [after |-> Input(t), hashed |-> out[Id[t]]]

Matches(t, r) ==
  /\ r.executor = ask[t].executor
  /\ r.args = ask[t].args
  /\ r.input = ask[t].input
  /\ r.in = Input(t)
  /\ r.out = out[Id[t]]
  /\ r.followups = Decoded(r)

UpToDate(t) == rec[t] \notin {NoState, Torn} /\ Matches(t, rec[t])

(* No mismatches: the recorded result is the result.                       *)
Skip(t) ==
  /\ pc[t] = "looked"
  /\ UpToDate(t)
  /\ got' = [got EXCEPT ![t] = rec[t].result]
  /\ pc' = [pc EXCEPT ![t] = "skipped"]
  /\ UNCHANGED <<files, building, ask, rec, read, ended, bounds>>

Mismatch(t) ==
  /\ pc[t] = "looked"
  /\ ~UpToDate(t)
  /\ pc' = [pc EXCEPT ![t] = "executing"]
  /\ UNCHANGED <<files, building, ask, rec, read, got, ended, bounds>>

-----------------------------------------------------------------------------
(* The wrapped executor: read the input, write the outputs.                *)

ExecutorReads(t) ==
  /\ pc[t] = "executing"
  /\ Input(t) # NoFile
  /\ read' = [read EXCEPT ![t] = Input(t)]
  /\ pc' = [pc EXCEPT ![t] = "read"]
  /\ UNCHANGED <<files, building, ask, rec, got, ended, bounds>>

ExecutorWrites(t) ==
  /\ pc[t] = "read"
  /\ out' = [out EXCEPT ![Id[t]] = Partial]
  /\ pc' = [pc EXCEPT ![t] = "writing"]
  /\ UNCHANGED <<source, st, building, ask, rec, read, got, ended, bounds>>

ExecutorReturns(t) ==
  /\ pc[t] = "writing"
  /\ out' = [out EXCEPT ![Id[t]] = Make(ask[t], read[t])]
  /\ got' = [got EXCEPT ![t] = Make(ask[t], read[t])]
  /\ pc' = [pc EXCEPT ![t] = "executed"]
  /\ UNCHANGED <<source, st, building, ask, rec, read, ended, bounds>>

(* Mistake: an executor's error does not keep the state from being saved.  *)
IgnoreFailure(t) ==
  /\ pc[t] \in {"executing", "read", "writing"}
  /\ got' = [got EXCEPT ![t] = Make(ask[t], read[t])]
  /\ pc' = [pc EXCEPT ![t] = "executed"]
  /\ UNCHANGED <<files, building, ask, rec, read, ended, bounds>>

(* The error is returned; nothing is saved.                                *)
ExecutorFails(t) ==
  /\ pc[t] \in {"executing", "read", "writing"}
  /\ pc' = [pc EXCEPT ![t] = "failed"]
  /\ ended' = [ended EXCEPT ![Id[t]] = "failed"]
  /\ UNCHANGED <<files, building, ask, rec, read, got, bounds>>

-----------------------------------------------------------------------------
(* SaveState.                                                              *)

(* Create truncates the file.                                              *)
Truncate(t) ==
  /\ pc[t] = "executed"
  /\ st' = [st EXCEPT ![Id[t]] = Torn]
  /\ pc' = [pc EXCEPT ![t] = "saving"]
  /\ UNCHANGED <<source, out, building, ask, rec, read, got, ended, bounds>>

(* What is recorded: what was asked for, and checksums of the files as     *)
(* they are now.                                                           *)
State(t) ==
  [executor |-> ask[t].executor, args |-> ask[t].args, input |-> ask[t].input,
   in |-> Input(t), out |-> out[Id[t]], result |-> got[t], followups |-> got[t]]

Encode(t) ==
  /\ pc[t] = "saving"
  /\ st' = [st EXCEPT ![Id[t]] = State(t)]
  /\ pc' = [pc EXCEPT ![t] = "done"]
  /\ ended' = [ended EXCEPT ![Id[t]] = "succeeded"]
  /\ UNCHANGED <<source, out, building, ask, rec, read, got, bounds>>

(* The directory or file cannot be created, or hashing or writing fails:   *)
(* the task fails although its executor succeeded.                         *)
SaveFails(t) ==
  /\ pc[t] \in {"executed", "saving"}
  /\ pc' = [pc EXCEPT ![t] = "failed"]
  /\ ended' = [ended EXCEPT ![Id[t]] = "failed"]
  /\ UNCHANGED <<files, building, ask, rec, read, got, bounds>>

-----------------------------------------------------------------------------
(* Builds and the user.                                                    *)

StartBuild ==
  /\ ~building
  /\ builds < MaxBuilds
  /\ ask' \in [Tasks -> Ask] /\ \A t \in Tasks : ask'[t] \in Asks[t]
  /\ pc' = [t \in Tasks |-> "idle"]
  /\ rec' = [t \in Tasks |-> NoState]
  /\ read' = [t \in Tasks |-> NoFile]
  /\ got' = [t \in Tasks |-> NoResult]
  /\ building' = TRUE
  /\ builds' = builds + 1
  /\ UNCHANGED <<files, ended, edits>>

Over(t) == pc[t] \in {"skipped", "done", "failed"}

EndBuild ==
  /\ building
  /\ \A t \in Tasks : Over(t) \/ (pc[t] = "idle" /\ ~Startable(t))
  /\ building' = FALSE
  /\ UNCHANGED <<files, locals, ended, bounds>>

(* The process dies: what was being attempted is left as it is.            *)
Die ==
  /\ building
  /\ building' = FALSE
  /\ ended' = [i \in Ids |->
       IF \E t \in Tasks : Id[t] = i /\ pc[t] \notin {"idle", "looked"} /\ ~Over(t)
       THEN "failed" ELSE ended[i]]
  /\ UNCHANGED <<files, locals, bounds>>

UserChanges ==
  /\ ~building
  /\ builds \in 1..MaxBuilds - 1
  /\ edits < MaxEdits
  /\ edits' = edits + 1

EditSource(f) ==
  /\ UserChanges
  /\ \E v \in Versions \ {source[f]} : source' = [source EXCEPT ![f] = v]
  /\ UNCHANGED <<out, st, building, locals, ended, builds>>

(* Outputs are changed or removed; state.json is not.                      *)
EditOutputs(i) ==
  /\ UserChanges
  /\ \E c \in {NoFile, Foreign} \ {out[i]} : out' = [out EXCEPT ![i] = c]
  /\ UNCHANGED <<source, st, building, locals, ended, builds>>

RemoveDirectory(i) ==
  /\ UserChanges
  /\ st[i] # NoState
  /\ out' = [out EXCEPT ![i] = NoFile]
  /\ st' = [st EXCEPT ![i] = NoState]
  /\ UNCHANGED <<source, building, locals, ended, builds>>

User ==
  \/ \E f \in Sources : EditSource(f)
  \/ \E i \in Ids : EditOutputs(i) \/ RemoveDirectory(i)

Execute(t) ==
  \/ Look(t) \/ Skip(t) \/ Mismatch(t)
  \/ ExecutorReads(t) \/ ExecutorWrites(t) \/ ExecutorReturns(t) \/ ExecutorFails(t)
  \/ Truncate(t) \/ Encode(t) \/ SaveFails(t)

Next ==
  \/ \E t \in Tasks : building /\ Execute(t)
  \/ StartBuild \/ EndBuild \/ Die
  \/ User

Spec == Init /\ [][Next]_vars

-----------------------------------------------------------------------------
(* Properties.                                                             *)

Record ==
  [executor : {a.executor : a \in Ask}, args : {a.args : a \in Ask},
   input : {a.input : a \in Ask}, in : Content, out : Content \ Versions,
   result : [by : Ask, from : Content], followups : [by : Ask, from : Content]]

TypeOK ==
  /\ source \in [Sources -> Versions]
  /\ out \in [Ids -> Content \ Versions]
  /\ st \in [Ids -> Record \cup {NoState, Torn}]
  /\ building \in BOOLEAN
  /\ ask \in [Tasks -> Ask]
  /\ pc \in [Tasks -> {"idle", "looked", "executing", "read", "writing", "executed",
                       "saving", "skipped", "done", "failed"}]
  /\ rec \in [Tasks -> Record \cup {NoState, Torn}]
  /\ read \in [Tasks -> Content]
  /\ got \in [Tasks -> [by : Ask, from : Content] \cup {NoResult}]
  /\ ended \in [Ids -> {"never", "succeeded", "failed"}]
  /\ builds \in 0..MaxBuilds /\ edits \in 0..MaxEdits

(* What a task would make if it were executed now.                         *)
Clean(t) == Make(ask[t], Input(t))

(* A build in which tasks are skipped leaves what a build from nothing     *)
(* would: each task that succeeded, executed or not, has the outputs and   *)
(* the result that executing it on the present inputs gives.               *)
SameAsCleanBuild ==
  building => \A t \in Tasks : pc[t] \in {"skipped", "done"} =>
    out[Id[t]] = Clean(t) /\ got[t] = Clean(t)

(* A state file that can be decoded tells the truth about one execution:   *)
(* its checksums and its result are those of the task it records, executed *)
(* on the inputs it records, whatever crashed, failed or was edited since. *)
TruthfulRecords ==
  \A i \in Ids : st[i] \notin {NoState, Torn} =>
    LET r == st[i]
        made == Make([executor |-> r.executor, args |-> r.args, input |-> r.input], r.in)
    IN r.out = made /\ r.result = made

(* A task is not executed again when its last attempt succeeded and        *)
(* nothing has changed since: its outputs and state file are in place, and *)
(* are what executing it would give.  The exception is a task whose        *)
(* followups have structs as arguments, which runs in every build.         *)
NeverAgain ==
  [][\A t \in Tasks : Mismatch(t) =>
       ~(/\ ended[Id[t]] = "succeeded"
         /\ ask[t].executor \notin Structured
         /\ st[Id[t]] # NoState
         /\ out[Id[t]] = Clean(t))]_vars

(* "avoids re-running tasks if they are already up to date"                *)
(* (statecheck.go): a task that is skipped is up to date at that moment.   *)
SkippedIsUpToDate ==
  [][\A t \in Tasks : Skip(t) => out[Id[t]] = Clean(t)]_vars
=============================================================================
