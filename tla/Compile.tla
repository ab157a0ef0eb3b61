------------------------------- MODULE Compile -------------------------------
(***************************************************************************)
(* "hex-events compile": a policy of a bundle is checked and copied, with  *)
(* a manifest in comments at its head, into the directory the daemon       *)
(* loads its policies from.  The same file is rewritten or removed by the  *)
(* daemon when the policy reaches max_fires, and the source is edited by   *)
(* whoever develops the bundle.  Nobody holds a lock.                      *)
(*                                                                         *)
(* One source and its compiled file.  A compile reads the source several   *)
(* times: once for each validator, to compare its hash with the manifest,  *)
(* to hash it for the new manifest, and to copy it.  The compiler and the  *)
(* daemon write to the same temporary path, so that files have to be told  *)
(* apart from their names here.                                            *)
(***************************************************************************)
EXTENDS Naturals, Sequences, FiniteSets

CONSTANTS
    Compilers,           \* processes that run cmd_compile
    Daemon,              \* the daemon
    Versions,            \* contents of the source
    SchemaErrors, ProducerErrors, DeadcodeErrors, \* the versions in which a validator finds one
    First,               \* what the source is at first
    MaxEdits,            \* bound: edits of the source
    MaxCompiles,         \* bound: runs of cmd_compile
    MaxLimits            \* bound: times the policy reaches max_fires

Rejected == [schema |-> SchemaErrors, producer |-> ProducerErrors, deadcode |-> DeadcodeErrors]
Broken == SchemaErrors \cup ProducerErrors \cup DeadcodeErrors

\* What was checked, if the validators did not all read the same version.
Mixed == "mixed"

ASSUME CompileAssumption ==
    /\ Broken \subseteq Versions /\ First \in Versions /\ Mixed \notin Versions
    /\ Daemon \notin Compilers
    /\ MaxEdits \in Nat /\ MaxCompiles \in Nat /\ MaxLimits \in Nat

Writers == Compilers \cup {Daemon}
None == 0

\* A compiled file: the version whose hash its manifest shows (NoHash: no
\* manifest), the version it contains, enabled, and whether it is all there.
NoHash == "no hash"
Content == [hash : Versions \cup {NoHash}, body : Versions,
            enabled : BOOLEAN, whole : BOOLEAN]
Empty == [whole |-> FALSE]

VARIABLES
    source,              \* the version of the source
    files,               \* the files ever created, with their contents
    out, tmp,            \* the file at out_path, and at out_path + ".tmp"
    pc,                  \* where each writer is
    checked, hashed,     \* the version a compiler has checked so far, and hashed last
    buffer,              \* what a writer is about to write
    fd,                  \* the file a writer has open, or has just closed
    loaded,              \* the daemon has the policy loaded
    edits, compiles, limits,  \* counters for the bounds
    overtaken,           \* history: a compile copied another version than it checked or hashed
    collided             \* history: a temporary file was opened that was in use

disk == <<files, out, tmp>>
bounds == <<edits, compiles, limits>>
history == <<overtaken, collided>>
vars == <<source, disk, pc, checked, hashed, buffer, fd, loaded, bounds, history>>

TypeOK ==
    /\ source \in Versions
    /\ files \in Seq(Content \cup {Empty})
    /\ out \in 0 .. Len(files) /\ tmp \in 0 .. Len(files)
    /\ out = tmp => out = None
    /\ pc \in [Writers -> {"idle", "schema", "producer", "deadcode", "compare", "header",
                           "hash", "copy", "limit", "open", "write", "rename"}]
    /\ checked \in [Compilers -> Versions \cup {Mixed}] /\ hashed \in [Compilers -> Versions]
    /\ buffer \in [Writers -> Content] /\ fd \in [Writers -> 0 .. Len(files)]
    /\ loaded \in BOOLEAN /\ overtaken \in BOOLEAN /\ collided \in BOOLEAN
    /\ edits \in Nat /\ compiles \in Nat /\ limits \in Nat

Compiled(hash, body) == [hash |-> hash, body |-> body, enabled |-> TRUE, whole |-> TRUE]

Init ==
    /\ source = First
    /\ files = <<>> /\ out = None /\ tmp = None
    /\ pc = [w \in Writers |-> "idle"]
    /\ checked = [c \in Compilers |-> First] /\ hashed = [c \in Compilers |-> First]
    /\ buffer = [w \in Writers |-> Compiled(First, First)]
    /\ fd = [w \in Writers |-> None]
    /\ loaded = FALSE
    /\ edits = 0 /\ compiles = 0 /\ limits = 0
    /\ overtaken = FALSE /\ collided = FALSE

Goto(w, label) == pc' = [pc EXCEPT ![w] = label]

-----------------------------------------------------------------------------
(* The source, and the daemon's view of the compiled file                  *)

\* An edit, or the return to an earlier version.
Edit(v) ==
    /\ edits < MaxEdits /\ v # source
    /\ source' = v /\ edits' = edits + 1
    /\ UNCHANGED <<disk, pc, checked, hashed, buffer, fd, loaded, compiles, limits, history>>

\* The hot reload: a file that is not there, not whole or not enabled is not
\* loaded.
Loadable == out # None /\ files[out].whole /\ files[out].enabled
Reload ==
    /\ pc[Daemon] = "idle" /\ loaded # Loadable
    /\ loaded' = Loadable
    /\ UNCHANGED <<source, disk, pc, checked, hashed, buffer, fd, bounds, history>>

-----------------------------------------------------------------------------
(* cmd_compile                                                             *)

Begin(c) ==
    /\ pc[c] = "idle" /\ compiles < MaxCompiles
    /\ compiles' = compiles + 1
    /\ Goto(c, "schema")
    /\ UNCHANGED <<source, disk, checked, hashed, buffer, fd, loaded, edits, limits, history>>

\* One validator reads the source.
Read(c, validator) ==
    /\ pc[c] = validator
    /\ checked' = [checked EXCEPT
           ![c] = IF validator = "schema" \/ @ = source THEN source ELSE Mixed]
    /\ UNCHANGED <<source, disk, hashed, buffer, fd, loaded, bounds, history>>

\* Mutant of Validate: errors are reported and the compile goes on.
ValidateOnly(c, validator, next) == Read(c, validator) /\ Goto(c, next)

\* An error ends the compile: "No output written."  (The validators that are
\* left would still read the source, to no effect.)
Validate(c, validator, next) ==
    /\ Read(c, validator)
    /\ Goto(c, IF source \in Rejected[validator] THEN "idle" ELSE next)

\* _run_check_strict: the validators one after the other.
Check(c) ==
    \/ Validate(c, "schema", "producer")
    \/ Validate(c, "producer", "deadcode")
    \/ Validate(c, "deadcode", "compare")

\* _is_already_compiled: no compiled file, or the hash of the source.
Compare(c) ==
    /\ pc[c] = "compare"
    /\ IF out = None THEN Goto(c, "hash") /\ UNCHANGED hashed
       ELSE Goto(c, "header") /\ hashed' = [hashed EXCEPT ![c] = source]
    /\ UNCHANGED <<source, disk, checked, buffer, fd, loaded, bounds, history>>

\* ... looked for in the manifest.  A file that has gone in between counts as
\* out of date; so does one without a manifest.
UpToDate(c) ==
    out # None /\ files[out] # Empty /\ files[out].hash = hashed[c]

ReadHeader(c) ==
    /\ pc[c] = "header"
    /\ Goto(c, IF UpToDate(c) THEN "idle" ELSE "hash")
    /\ UNCHANGED <<source, disk, checked, hashed, buffer, fd, loaded, bounds, history>>

\* _build_compiled_content hashes the source for the manifest ...
HashSource(c) ==
    /\ pc[c] = "hash"
    /\ hashed' = [hashed EXCEPT ![c] = source]
    /\ Goto(c, "copy")
    /\ UNCHANGED <<source, disk, checked, buffer, fd, loaded, bounds, history>>

\* ... and reads it again for the copy.
CopySource(c) ==
    /\ pc[c] = "copy"
    /\ buffer' = [buffer EXCEPT ![c] = Compiled(hashed[c], source)]
    /\ overtaken' = (overtaken \/ source # hashed[c] \/ source # checked[c])
    /\ Goto(c, "open")
    /\ UNCHANGED <<source, disk, checked, hashed, fd, loaded, bounds, collided>>

-----------------------------------------------------------------------------
(* Replacing the file, by a compiler or by the daemon                      *)

\* Mutant of OpenTmp: the file is written in place.
OpenOut(w) ==
    /\ pc[w] = "open"
    /\ IF out = None
       THEN /\ files' = Append(files, Empty) /\ out' = Len(files) + 1
       ELSE /\ files' = [files EXCEPT ![out] = Empty] /\ UNCHANGED out
    /\ fd' = [fd EXCEPT ![w] = out']
    /\ Goto(w, "write")
    /\ UNCHANGED <<source, tmp, checked, hashed, buffer, loaded, bounds, history>>

\* open(tmp_path, "w") truncates the file of another writer.
OpenTmp(w) ==
    /\ pc[w] = "open"
    /\ IF tmp = None
       THEN /\ files' = Append(files, Empty) /\ tmp' = Len(files) + 1
       ELSE /\ files' = [files EXCEPT ![tmp] = Empty] /\ UNCHANGED tmp
    /\ collided' = (collided \/ tmp # None)
    /\ fd' = [fd EXCEPT ![w] = tmp']
    /\ Goto(w, "write")
    /\ UNCHANGED <<source, out, checked, hashed, buffer, loaded, bounds, overtaken>>

\* Whoever writes second overwrites the beginning of what is there; if that
\* was longer, its end is left.
WriteTmp(w) ==
    /\ pc[w] = "write"
    /\ \E whole \in IF files[fd[w]] \in {Empty, buffer[w]} THEN {TRUE} ELSE BOOLEAN :
           files' = [files EXCEPT ![fd[w]] = [buffer[w] EXCEPT !.whole = whole]]
    /\ Goto(w, "rename")
    /\ UNCHANGED <<source, out, tmp, checked, hashed, buffer, fd, loaded, bounds, history>>

\* Mutant of Rename: the temporary file is linked to the new name and stays.
Link(w) ==
    /\ pc[w] = "rename"
    /\ IF tmp = None THEN UNCHANGED out ELSE out' = tmp
    /\ fd' = [fd EXCEPT ![w] = None]
    /\ Goto(w, "idle")
    /\ UNCHANGED <<source, files, tmp, checked, hashed, buffer, loaded, bounds, history>>

\* os.replace and os.rename take the file that is at the path now, whoever
\* wrote it; if there is none they raise: the compile ends with a traceback,
\* the daemon abandons the event.
Rename(w) ==
    /\ pc[w] = "rename"
    /\ IF tmp = None THEN UNCHANGED <<out, tmp>> ELSE out' = tmp /\ tmp' = None
    /\ fd' = [fd EXCEPT ![w] = None]
    /\ Goto(w, "idle")
    /\ UNCHANGED <<source, files, checked, hashed, buffer, loaded, bounds, history>>

-----------------------------------------------------------------------------
(* The daemon, when the policy reaches max_fires (_handle_policy_limits)   *)

\* The policy that fires is the one loaded; its file may be another by now.
ReachLimit ==
    /\ pc[Daemon] = "idle" /\ loaded /\ limits < MaxLimits
    /\ limits' = limits + 1
    /\ Goto(Daemon, IF out = None THEN "idle" ELSE "limit")
    /\ UNCHANGED <<source, disk, checked, hashed, buffer, fd, loaded, edits, compiles, history>>

\* after_limit is "delete" or "disable", as the loaded version says.
Delete ==
    /\ pc[Daemon] = "limit"
    /\ out' = None
    /\ Goto(Daemon, "idle")
    /\ UNCHANGED <<source, files, tmp, checked, hashed, buffer, fd, loaded, bounds, history>>

Parses == out # None /\ files[out].whole

\* _disable_policy_file: load, set enabled, dump.  The comments are lost.
ReadPolicy ==
    /\ pc[Daemon] = "limit" /\ Parses
    /\ buffer' = [buffer EXCEPT ![Daemon] =
                      [files[out] EXCEPT !.hash = NoHash, !.enabled = FALSE]]
    /\ Goto(Daemon, "open")
    /\ UNCHANGED <<source, disk, checked, hashed, fd, loaded, bounds, history>>

\* An empty or garbled file raises.
ReadPolicyFails ==
    /\ pc[Daemon] = "limit" /\ ~Parses
    /\ Goto(Daemon, "idle")
    /\ UNCHANGED <<source, disk, checked, hashed, buffer, fd, loaded, bounds, history>>

Compiler(c) ==
    \/ Begin(c) \/ Check(c) \/ Compare(c) \/ ReadHeader(c) \/ HashSource(c) \/ CopySource(c)

Next ==
    \/ \E v \in Versions : Edit(v)
    \/ Reload
    \/ \E c \in Compilers : Compiler(c)
    \/ \E w \in Writers : OpenTmp(w) \/ WriteTmp(w) \/ Rename(w)
    \/ ReachLimit \/ Delete \/ ReadPolicy \/ ReadPolicyFails

Spec == Init /\ [][Next]_vars

-----------------------------------------------------------------------------
(* Properties                                                              *)

\* The compiled file appears and changes as a whole: what the daemon finds at
\* its path is never empty or garbled, unless a temporary file was opened while
\* another writer was using it.
WholeUnlessCollided == out # None => collided \/ files[out].whole

\* What the daemon loads has passed the checks, and a manifest tells the truth
\* about what follows it (so a compile that says "no changes" is right),
\* unless the source was edited in the middle of a compile, or a collision.
CheckedUnlessOvertaken ==
    Loadable =>
        \/ overtaken \/ collided
        \/ /\ files[out].body \notin Broken
           /\ files[out].hash \in {NoHash, files[out].body}
=============================================================================
