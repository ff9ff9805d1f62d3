----------------------------- MODULE FileSaving -----------------------------
(***************************************************************************)
(* How nobox saves what outlives it: the configuration (save_source of     *)
(* crates/nobox-config/src/document.rs) and the session (SessionSnapshot   *)
(* of crates/nobox-runtime/src/session.rs).  A saver writes a temporary    *)
(* file beside the file, makes its contents durable and renames it; the    *)
(* name of the temporary file holds the number of the saving process.      *)
(*                                                                         *)
(* Any step may fail, any process may be killed between two steps, and the *)
(* power may fail.  Then the names in a directory are as they were after   *)
(* some change since the directory was last written to the disk, and a     *)
(* file whose contents were not made durable may have any.  The numbers of *)
(* processes that have ended are given to others.                          *)
(***************************************************************************)
EXTENDS Naturals, Sequences, FiniteSets

CONSTANTS
    Files,            \* each in a directory of its own
    SyncsDirectory,   \* those whose savers make the new name durable too
    Pids,
    MaxSaves,         \* bound: saves
    MaxDeaths,        \* bound: processes that are killed
    MaxFailures,      \* bound: failures of input and output
    MaxLosses         \* bound: losses of power

ASSUME FilesAssumption == SyncsDirectory \subseteq Files
ASSUME BoundsAssumption == {MaxSaves, MaxDeaths, MaxFailures, MaxLosses} \subseteq Nat

VARIABLES
    disk,             \* for each file: past, kept, temps, lingering; see below
    process,          \* what each process is doing
    acknowledged,     \* for each file, the documents whose savers were told of success
    saves, deaths, failures, losses

fileVars == <<disk, process, acknowledged, saves, deaths, failures, losses>>

counters == <<deaths, failures, losses>>

\* The documents, in the order in which their saves begin; 0 is what was there before.
Documents == 0..MaxSaves

Torn == MaxSaves + 1

Contents(document, durable) == [document |-> document, durable |-> durable]

(* ---- The state ---- *)
\* past and kept: what the name of the file has stood for, oldest first, and how many of
\* these are on the disk for certain; temps: the processes a temporary file is named
\* after; lingering: those after which one may be named when power is lost.
NewDisk ==
    [past |-> <<Contents(0, TRUE)>>, kept |-> 1, temps |-> {}, lingering |-> {}]

NoProcess == [alive |-> FALSE]

\* A process that is saving nothing; blocked counts its saves of each file that found a
\* temporary file in their way.
Idle(blocked) == [alive |-> TRUE, at |-> "idle", blocked |-> blocked]

\* A process at a step of saving a document; its temporary file is durable or not yet.
Saving(p, at, file, contents) ==
    [alive |-> TRUE, at |-> at, file |-> file, contents |-> contents,
     blocked |-> process[p].blocked]

At(p, at) == process[p].alive /\ process[p].at = at

Goes(p, at) == process' = [process EXCEPT ![p].at = at]

FileInit ==
    /\ disk = [f \in Files |-> NewDisk]
    /\ process = [p \in Pids |-> NoProcess]
    /\ acknowledged = [f \in Files |-> {}]
    /\ saves = 0 /\ deaths = 0 /\ failures = 0 /\ losses = 0

(* ---- Saving ---- *)
Start(p) ==
    /\ ~ process[p].alive
    /\ process' = [process EXCEPT ![p] = Idle([f \in Files |-> 0])]
    /\ UNCHANGED <<disk, acknowledged, saves, counters>>

WithTemporary(d, p) == [d EXCEPT !.temps = @ \cup {p}, !.lingering = @ \cup {p}]

\* The temporary file must not be there already (create_new, temporary_path).
Create(p, f) ==
    /\ At(p, "idle") /\ saves < MaxSaves
    /\ saves' = saves + 1
    /\ LET new == Contents(saves', FALSE) IN
       IF p \in disk[f].temps
       THEN /\ process' = [process EXCEPT ![p] =
                             [Saving(p, "failed", f, new) EXCEPT !.blocked[f] = @ + 1]]
            /\ UNCHANGED disk
       ELSE /\ process' = [process EXCEPT ![p] = Saving(p, "created", f, new)]
            /\ disk' = [disk EXCEPT ![f] = WithTemporary(@, p)]
    /\ UNCHANGED <<acknowledged, counters>>

\* write_all and sync_all
Sync(p) ==
    /\ At(p, "created")
    /\ process' = [process EXCEPT ![p].at = "synced", ![p].contents.durable = TRUE]
    /\ UNCHANGED <<disk, acknowledged, saves, counters>>

Named(d, p) ==
    [d EXCEPT !.past = Append(@, process[p].contents), !.temps = @ \ {p}]

Rename(p) ==
    /\ At(p, "synced")
    /\ disk' = [disk EXCEPT ![process[p].file] = Named(@, p)]
    /\ Goes(p, "renamed")
    /\ UNCHANGED <<acknowledged, saves, counters>>

Settled(d) == [d EXCEPT !.kept = Len(d.past), !.lingering = d.temps]

\* A mutant: the directory is opened, and not made durable.
SyncDirectoryNot(p) ==
    /\ At(p, "renamed") /\ process[p].file \in SyncsDirectory
    /\ Goes(p, "settled")
    /\ UNCHANGED <<disk, acknowledged, saves, counters>>

\* sync_directory
SyncDirectory(p) ==
    /\ At(p, "renamed") /\ process[p].file \in SyncsDirectory
    /\ disk' = [disk EXCEPT ![process[p].file] = Settled(@)]
    /\ Goes(p, "settled")
    /\ UNCHANGED <<acknowledged, saves, counters>>

\* The caller is told of success.
Succeed(p) ==
    /\ \/ At(p, "settled")
       \/ At(p, "renamed") /\ process[p].file \notin SyncsDirectory
    /\ acknowledged' =
          [acknowledged EXCEPT ![process[p].file] = @ \cup {process[p].contents.document}]
    /\ process' = [process EXCEPT ![p] = Idle(@.blocked)]
    /\ UNCHANGED <<disk, saves, counters>>

\* A step fails.
Fail(p) ==
    /\ failures < MaxFailures /\ failures' = failures + 1
    /\ \/ At(p, "created") \/ At(p, "synced")
       \/ At(p, "renamed") /\ process[p].file \in SyncsDirectory
    /\ Goes(p, "failed")
    /\ UNCHANGED <<disk, acknowledged, saves, deaths, losses>>

\* A mutant: a temporary file somebody else has left is not touched.
CleanUpOwn(p) ==
    /\ At(p, "failed")
    /\ disk' = [disk EXCEPT ![process[p].file].temps =
                  IF process[p].blocked[process[p].file] > 0 THEN @ ELSE @ \ {p}]
    /\ UNCHANGED failures
    /\ process' = [process EXCEPT ![p] = Idle(@.blocked)]
    /\ UNCHANGED <<acknowledged, saves, deaths, losses>>

\* After any error the temporary file is removed, whoever made it, unless that fails too,
\* and the caller is told of the error.
CleanUp(p) ==
    /\ At(p, "failed")
    /\ \/ /\ disk' = [disk EXCEPT ![process[p].file].temps = @ \ {p}]
          /\ UNCHANGED failures
       \/ /\ failures < MaxFailures /\ failures' = failures + 1
          /\ UNCHANGED disk
    /\ process' = [process EXCEPT ![p] = Idle(@.blocked)]
    /\ UNCHANGED <<acknowledged, saves, deaths, losses>>

(* ---- What may happen at any time ---- *)
Exit(p) ==
    /\ At(p, "idle")
    /\ process' = [process EXCEPT ![p] = NoProcess]
    /\ UNCHANGED <<disk, acknowledged, saves, counters>>

Die(p) ==
    /\ process[p].alive /\ process[p].at /= "idle"
    /\ deaths < MaxDeaths /\ deaths' = deaths + 1
    /\ process' = [process EXCEPT ![p] = NoProcess]
    /\ UNCHANGED <<disk, acknowledged, saves, failures, losses>>

\* The kernel writes the directory to the disk in its own time.
Flush(f) ==
    /\ disk' = [disk EXCEPT ![f] = Settled(@)]
    /\ disk' /= disk
    /\ UNCHANGED <<process, acknowledged, saves, counters>>

Survives(contents) ==
    IF contents.durable THEN contents ELSE Contents(Torn, TRUE)

\* A disk after the power was lost, with one of the names it may have had.
After(d, n, temps) ==
    [past |-> [i \in 1..n |-> Survives(d.past[i])], kept |-> n, temps |-> temps,
     lingering |-> temps]

LosePower ==
    /\ losses < MaxLosses /\ losses' = losses + 1
    /\ \E n \in [Files -> 1..MaxSaves + 1], temps \in [Files -> SUBSET Pids] :
          /\ \A f \in Files : /\ n[f] \in disk[f].kept..Len(disk[f].past)
                              /\ temps[f] \subseteq disk[f].lingering
          /\ disk' = [f \in Files |-> After(disk[f], n[f], temps[f])]
    /\ process' = [p \in Pids |-> NoProcess]
    /\ UNCHANGED <<acknowledged, saves, deaths, failures>>

FileNext ==
    \/ \E p \in Pids :
          \/ Start(p) \/ Sync(p) \/ Rename(p) \/ SyncDirectory(p) \/ Succeed(p)
          \/ Fail(p) \/ CleanUp(p) \/ Exit(p) \/ Die(p)
          \/ \E f \in Files : Create(p, f)
    \/ \E f \in Files : Flush(f)
    \/ LosePower

FileSpec == FileInit /\ [][FileNext]_fileVars

(* ---- Properties ---- *)
DocumentsOf(past) == [i \in DOMAIN past |-> past[i].document]

\* The promise of AtomicFiles: a reader never finds half a document, in whatever order
\* savers and losses of power follow each other; and where the directory is made durable,
\* what was reported as saved is never lost but to a later save (save_source, save).
Promise ==
    INSTANCE AtomicFiles WITH
        Durable <- SyncsDirectory,
        past <- [f \in Files |-> DocumentsOf(disk[f].past)],
        kept <- [f \in Files |-> disk[f].kept]

ReplacedAtomically == Promise!Spec

\* A temporary file left by a process that had the same number is in the way of one save
\* of a file only: the next one succeeds, unless input and output fail as well
\* (save_source, temporary_path).
LeftoverBlocksOnce ==
    \A p \in Pids : process[p].alive =>
        \A f \in Files : process[p].blocked[f] <= 1 + failures

=============================================================================
