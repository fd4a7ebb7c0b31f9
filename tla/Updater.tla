------------------------------ MODULE Updater ------------------------------
(***************************************************************************)
(* The self-updater (internal/updater, cmd/bucks/update.go): check, ask,   *)
(* check again, download the zip and the checksums, verify, then swap the  *)
(* executable; on Windows in two renames.  Releases are published, pulled  *)
(* and republished meanwhile, two updaters may run at once, and each may   *)
(* be killed between any two steps.  A build stands for its zip, its       *)
(* checksum and its binary: checksums tell any two builds apart.           *)
(***************************************************************************)
EXTENDS Integers, Sequences

CONSTANTS
    Procs,
    MaxTag,         \* release tags are the numbers 1..MaxTag
    MaxBuilds,      \* bound: builds ever published
    MaxRuns         \* bound: updater runs

VARIABLES
    windows,        \* the platform's way to swap
    tagOf,          \* build -> its tag; build 1 is installed by hand
    zip, sums,      \* external: tag -> the build its zip holds, SHA256SUMS lists
    latest,         \* external: the tag releases/latest answers
    exe, old, tmp,  \* the executable, its .old, each updater's temporary
    pc, version,    \* updater -> its step, the version it runs
    shown,          \* updater -> the tag the owner agreed to
    target,         \* updater -> the tag it installs
    got,            \* updater -> the build its downloaded zip holds
    runs,
    installs,       \* history: [agreed, build] of each swap
    overlapped,     \* history: two updaters ran at once
    killed          \* history: one was killed with the executable moved aside

vars == <<windows, tagOf, zip, sums, latest, exe, old, tmp, pc, version, shown,
          target, got, runs, installs, overlapped, killed>>
release == <<tagOf, zip, sums, latest>>
files == <<exe, old, tmp>>
run == <<version, shown, runs, overlapped, killed>>

None == 0               \* no file, no asset
Junk == MaxBuilds + 1   \* a truncated or damaged download
Tags == 1..MaxTag

(* newer: a dev build (version 0) takes any tag. *)
Newer(current, tag) == current = 0 \/ tag > current

Init == /\ windows \in BOOLEAN
        /\ tagOf = <<1>> /\ latest = 1
        /\ zip = [t \in Tags |-> None] /\ sums = [t \in Tags |-> None]
        /\ exe = 1 /\ old = None /\ tmp = [p \in Procs |-> None]
        /\ pc = [p \in Procs |-> "off"] /\ version = [p \in Procs |-> 0]
        /\ shown = [p \in Procs |-> 0] /\ target = [p \in Procs |-> 0]
        /\ got = [p \in Procs |-> None]
        /\ runs = 0 /\ installs = {} /\ overlapped = FALSE /\ killed = FALSE

At(p, label) == pc[p] = label
Goto(p, label) == pc' = [pc EXCEPT ![p] = label]

(* External: a build is uploaded under a tag, its checksum after it; the   *)
(* latest release moves, also backward.                                    *)
UploadZip(t) == /\ Len(tagOf) < MaxBuilds
                /\ tagOf' = Append(tagOf, t)
                /\ zip' = [zip EXCEPT ![t] = Len(tagOf')]
                /\ UNCHANGED <<sums, latest>>
UploadSums(t) == /\ zip[t] # None
                 /\ sums' = [sums EXCEPT ![t] = zip[t]]
                 /\ UNCHANGED <<tagOf, zip, latest>>
MoveLatest(t) == /\ zip[t] # None
                 /\ latest' = t
                 /\ UNCHANGED <<tagOf, zip, sums>>
Publish == /\ \E t \in Tags : UploadZip(t) \/ UploadSums(t) \/ MoveLatest(t)
           /\ UNCHANGED <<windows, files, pc, run, target, got, installs>>

(* runUpdate: CheckLatest, and the owner's yes (or --yes) to what it shows. *)
Start(p, forced, dev) ==
    /\ At(p, "off") /\ exe # None /\ runs < MaxRuns
    /\ version' = [version EXCEPT ![p] = IF dev THEN 0 ELSE tagOf[exe]]
    /\ Newer(version'[p], latest) \/ forced
    /\ shown' = [shown EXCEPT ![p] = latest]
    /\ runs' = runs + 1
    /\ overlapped' = (overlapped \/ \E q \in Procs \ {p} : ~At(q, "off"))
    /\ Goto(p, "agreed")
    /\ UNCHANGED <<windows, release, files, target, got, installs, killed>>

(* Update: the release again, which must be the one agreed to.  updater.go:290 *)
(* skips the comparison for an empty ExpectedTag; the program's only call     *)
(* (cmd/bucks/update.go:103) always passes the tag it showed.                 *)
SameRelease(p) == latest = shown[p]
Recheck(p) ==
    /\ At(p, "agreed")
    /\ target' = [target EXCEPT ![p] = latest]
    /\ Goto(p, IF SameRelease(p) /\ zip[latest] # None /\ sums[latest] # None
               THEN "download" ELSE "off")
    /\ UNCHANGED <<windows, release, files, run, got, installs>>

DownloadZip(p) ==
    /\ At(p, "download")
    /\ \E b \in {zip[target[p]], Junk} : got' = [got EXCEPT ![p] = b]
    /\ Goto(p, "verify")
    /\ UNCHANGED <<windows, release, files, run, target, installs>>

(* The checksums come second: they may be those of a later upload. *)
Verified(p) == got[p] = sums[target[p]]
DownloadSums(p) ==
    /\ At(p, "verify")
    /\ Goto(p, IF Verified(p) THEN "write" ELSE "off")
    /\ UNCHANGED <<windows, release, files, run, target, got, installs>>

(* Replace: the temporary in the same directory first. *)
WriteTemp(p) ==
    /\ At(p, "write")
    /\ tmp' = [tmp EXCEPT ![p] = got[p]]
    /\ Goto(p, IF windows THEN "clear" ELSE "move")
    /\ UNCHANGED <<windows, release, exe, old, run, target, got, installs>>

(* Windows: a stale .old is removed best-effort, before and after. *)
ClearOld(p) ==
    /\ At(p, "clear") \/ At(p, "cleared")
    /\ old' \in {None, old}
    /\ Goto(p, IF At(p, "clear") THEN "aside" ELSE "off")
    /\ UNCHANGED <<windows, release, exe, tmp, run, target, got, installs>>

MoveAside(p) ==
    /\ At(p, "aside") /\ exe # None
    /\ old' = exe /\ exe' = None
    /\ Goto(p, "move")
    /\ UNCHANGED <<windows, release, tmp, run, target, got, installs>>

MoveIn(p) ==
    /\ At(p, "move")
    /\ exe' = tmp[p]
    /\ tmp' = [tmp EXCEPT ![p] = None]
    /\ installs' = installs \cup {[agreed |-> shown[p], build |-> tmp[p]]}
    /\ Goto(p, IF windows THEN "cleared" ELSE "off")
    /\ UNCHANGED <<windows, release, old, run, target, got>>

(* A download or a rename fails; a failed move into place on Windows tries *)
(* to put the old executable back.                                         *)
BugRestores(p) == FALSE                         \* mutant: the old one stays aside
Restores(p) == windows /\ At(p, "move") /\ old # None
Fail(p) ==
    /\ ~At(p, "off")
    /\ IF Restores(p) THEN exe' = old /\ old' = None ELSE UNCHANGED <<exe, old>>
    /\ tmp' = [tmp EXCEPT ![p] = None]
    /\ Goto(p, "off")
    /\ UNCHANGED <<windows, release, run, target, got, installs>>

(* Killed, or the restoring rename fails too: nothing is cleaned up. *)
Killed(p) ==
    /\ ~At(p, "off")
    /\ killed' = (killed \/ (windows /\ At(p, "move")))
    /\ Goto(p, "off")
    /\ UNCHANGED <<windows, release, files, version, shown, runs, overlapped, target, got, installs>>

Next == \/ Publish
        \/ \E p \in Procs :
             \/ \E forced, dev \in BOOLEAN : Start(p, forced, dev)
             \/ Recheck(p) \/ DownloadZip(p) \/ DownloadSums(p) \/ WriteTemp(p)
             \/ ClearOld(p) \/ MoveAside(p) \/ MoveIn(p)
             \/ Fail(p) \/ Killed(p)

Spec == Init /\ [][Next]_vars

-----------------------------------------------------------------------------
(***************************************************************************)
(* What is installed is a build published whole under the very tag the     *)
(* owner agreed to, however the release changes during the update.  A      *)
(* failed update leaves an executable; only an updater killed between the  *)
(* two renames of Windows does not, and then the old one is still aside.   *)
(* Two updaters at once, on Windows, may lose both.                        *)
(***************************************************************************)
BinarySurvives ==
    /\ \A i \in installs : i.build \in DOMAIN tagOf /\ tagOf[i.build] = i.agreed
    /\ exe \in {None, 1} \cup {i.build : i \in installs}
    /\ exe = None /\ ~overlapped =>
           windows /\ old # None /\ (killed \/ \E p \in Procs : At(p, "move"))
    /\ exe = None => windows
=============================================================================
