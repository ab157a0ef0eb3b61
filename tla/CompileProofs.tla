---------------------------- MODULE CompileProofs ----------------------------
(***************************************************************************)
(* Theorems about Compile, for any number of compilers, versions, edits    *)
(* and runs: without a collision on the temporary path the compiled file   *)
(* is always whole; and if no source is edited in the middle of a compile  *)
(* either, what the daemon loads has passed the checks and is described    *)
(* truthfully by its manifest.                                             *)
(*                                                                         *)
(* Neither property is inductive: what is at the compiled path was written *)
(* at the temporary one, and was in somebody's buffer before.  The         *)
(* strengthening follows a text from the check to the rename.              *)
(***************************************************************************)
EXTENDS Compile, TLAPS

\* Between open and rename a writer has a file.
Busy(w) == pc[w] \in {"write", "rename"}
FileInv == \A w \in Writers : Busy(w) => fd[w] \in 1 .. Len(files)

\* As long as nobody opened a temporary file in use, whoever is writing has
\* it alone: it is his own until he renames it, and he has written all of it.
OwnInv ==
    ~collided =>
        /\ \A w \in Writers : Busy(w) => fd[w] = tmp
        /\ \A v, w \in Writers : Busy(v) /\ Busy(w) => v = w
        /\ \A w \in Writers : pc[w] = "write" => files[tmp] = Empty
        /\ \A w \in Writers : pc[w] = "rename" => files[tmp] = buffer[w]
        /\ out # None => files[out] \in Content /\ files[out].whole

\* What is in a buffer is the whole of a text, wherever it came from.
BufferInv == \A w \in Writers : buffer[w].whole

\* A text that may be loaded, or one that is not going to be.
Honest(text) ==
    text.enabled => text.body \notin Broken /\ text.hash \in {NoHash, text.body}

\* The version a compiler has read so far has no error that the validators it
\* has called look for.
ReadInv ==
    \A c \in Compilers :
        /\ pc[c] = "producer" => checked[c] \notin SchemaErrors
        /\ pc[c] = "deadcode" => checked[c] \notin SchemaErrors \cup ProducerErrors
        /\ pc[c] \in {"compare", "header", "hash", "copy"} => checked[c] \notin Broken

\* What is about to replace the compiled file is honest, as is what is there.
CheckInv ==
    /\ ReadInv
    /\ ~overtaken /\ ~collided =>
           /\ \A w \in Writers : pc[w] = "open" \/ Busy(w) => Honest(buffer[w])
           /\ out # None => Honest(files[out])

IndInv == TypeOK /\ FileInv /\ OwnInv /\ BufferInv /\ CheckInv

-----------------------------------------------------------------------------
\* A policy compiled from a version is the whole of it.
LEMMA CompiledType ==
  ASSUME NEW hash \in Versions, NEW body \in Versions
  PROVE  /\ Compiled(hash, body) \in Content
         /\ Compiled(hash, body).whole /\ Compiled(hash, body).enabled
         /\ Compiled(hash, body).hash = hash /\ Compiled(hash, body).body = body
  BY DEF Compiled, Content

\* The initial state satisfies the inductive invariant.
LEMMA InitInv == Init => IndInv
<1>1. Compiled(First, First) \in Content /\ Compiled(First, First).whole
  BY CompiledType, CompileAssumption
<1>2. ASSUME Init
      PROVE  TypeOK /\ FileInv /\ BufferInv
  <2>1. files \in Seq(Content \cup {Empty}) /\ Len(files) = 0
    BY <1>2 DEF Init
  <2>2. None \in 0 .. Len(files)
    BY <2>1 DEF None
  <2>3. TypeOK
    BY <1>1, <1>2, <2>1, <2>2, CompileAssumption DEF Init, TypeOK
  <2>4. FileInv /\ BufferInv
    BY <1>1, <1>2 DEF Init, FileInv, BufferInv, Busy
  <2> QED
    BY <2>3, <2>4
<1>3. Init => OwnInv /\ CheckInv
  BY DEF Init, OwnInv, CheckInv, ReadInv, Busy, Writers
<1> QED
  BY <1>2, <1>3 DEF IndInv

-----------------------------------------------------------------------------
\* The steps that leave the files and what is to be written alone: the writer
\* that moves is neither on its way from open to rename, nor gets there.
Quiet ==
    \/ \E v \in Versions : Edit(v)
    \/ Reload \/ ReachLimit \/ ReadPolicyFails
    \/ \E c \in Compilers : Begin(c) \/ Check(c) \/ Compare(c) \/ ReadHeader(c) \/ HashSource(c)

Replacing(w) == pc[w] \in {"open", "write", "rename"}

\* Whatever it finds, a validator has read the source, and the compile goes on or ends.
LEMMA ValidatorReads ==
  ASSUME TypeOK, NEW c \in Compilers, NEW validator, NEW next \in {"producer", "deadcode", "compare"},
         Validate(c, validator, next)
  PROVE  TypeOK'
<1>1. checked' \in [Compilers -> Versions \cup {Mixed}]
  BY DEF Validate, Read, TypeOK
<1>2. pc' \in [Writers -> {"idle", "schema", "producer", "deadcode", "compare", "header",
                           "hash", "copy", "limit", "open", "write", "rename"}]
  BY DEF Validate, Goto, TypeOK, Writers
<1>3. UNCHANGED <<source, disk, hashed, buffer, fd, loaded, bounds, history>>
  BY DEF Validate, Read
<1> QED
  BY <1>1, <1>2, <1>3 DEF TypeOK, disk, bounds, history

LEMMA QuietType ==
  ASSUME TypeOK, Quiet
  PROVE  TypeOK'
<1>1. ASSUME NEW c \in Compilers, Check(c)
      PROVE  TypeOK'
  BY <1>1, ValidatorReads DEF Check
<1> USE DEF TypeOK, Goto, disk, history, bounds, Writers
<1>2. ASSUME NEW v \in Versions, Edit(v)
      PROVE  TypeOK'
  BY <1>2 DEF Edit
<1>3. CASE Reload
  BY <1>3 DEF Reload, Loadable
<1>4. CASE ReachLimit \/ ReadPolicyFails
  BY <1>4 DEF ReachLimit, ReadPolicyFails
<1>5. ASSUME NEW c \in Compilers, Begin(c) \/ ReadHeader(c)
      PROVE  TypeOK'
  <2>1. CASE Begin(c)
    BY <2>1 DEF Begin
  <2>2. CASE ReadHeader(c)
    BY <2>2 DEF ReadHeader
  <2> QED
    BY <1>5, <2>1, <2>2
<1>6. ASSUME NEW c \in Compilers, HashSource(c)
      PROVE  TypeOK'
  BY <1>6 DEF HashSource
<1>7. ASSUME NEW c \in Compilers, Compare(c)
      PROVE  TypeOK'
  BY <1>7 DEF Compare
<1> QED
  BY <1>1, <1>2, <1>3, <1>4, <1>5, <1>6, <1>7 DEF Quiet

LEMMA QuietKeeps ==
  ASSUME TypeOK, Quiet
  PROVE  /\ UNCHANGED <<files, out, tmp, buffer, fd, overtaken, collided>>
         /\ \A w \in Writers : /\ Replacing(w)' <=> Replacing(w)
                               /\ Replacing(w) => pc'[w] = pc[w]
<1>1. UNCHANGED <<files, out, tmp, buffer, fd, overtaken, collided>>
  BY DEF Quiet, Edit, Reload, ReachLimit, ReadPolicyFails, Begin, Check, Validate, Read, Compare,
         ReadHeader, HashSource, disk, history
<1>2. \/ UNCHANGED pc
      \/ \E w \in Writers : /\ ~Replacing(w)
                            /\ \E label \in {"idle", "schema", "producer", "deadcode", "compare",
                                             "header", "hash", "copy", "limit"} : Goto(w, label)
  BY DEF Quiet, Edit, Reload, ReachLimit, ReadPolicyFails, Begin, Check, Validate, Read, Compare,
         ReadHeader, HashSource, Replacing, Writers
<1>3. ASSUME NEW w \in Writers, ~Replacing(w), 
             NEW label \in {"idle", "schema", "producer", "deadcode", "compare", "header", "hash",
                            "copy", "limit"},
             Goto(w, label)
      PROVE  \A v \in Writers : /\ Replacing(v)' <=> Replacing(v)
                                /\ Replacing(v) => pc'[v] = pc[v]
  BY <1>3 DEF Goto, Replacing, TypeOK
<1> QED
  BY <1>1, <1>2, <1>3 DEF Replacing

\* A validator that finds an error in what it reads ends the compile, and
\* validators that read different versions leave Mixed behind.
LEMMA CheckReads ==
  ASSUME TypeOK, ReadInv, NEW d \in Compilers, Check(d)
  PROVE  ReadInv'
<1> USE DEF Rejected, Broken
<1>1. /\ source \in Versions /\ Mixed \notin Broken /\ d \in Writers
      /\ \A c \in Compilers : c # d => pc'[c] = pc[c] /\ checked'[c] = checked[c]
  BY CompileAssumption DEF TypeOK, Check, Validate, Read, Goto, Writers
<1>2. CASE Validate(d, "schema", "producer")
  BY <1>1, <1>2 DEF TypeOK, ReadInv, Validate, Read, Goto
<1>3. CASE Validate(d, "producer", "deadcode")
  <2>1. /\ pc[d] = "producer" /\ checked[d] \notin SchemaErrors
        /\ checked'[d] = Mixed \/ (checked'[d] = source /\ source = checked[d])
        /\ pc'[d] = IF source \in ProducerErrors THEN "idle" ELSE "deadcode"
    BY <1>1, <1>3 DEF TypeOK, ReadInv, Validate, Read, Goto
  <2> QED
    BY <1>1, <2>1 DEF ReadInv
<1>4. CASE Validate(d, "deadcode", "compare")
  <2>1. /\ pc[d] = "deadcode" /\ checked[d] \notin SchemaErrors \cup ProducerErrors
        /\ checked'[d] = Mixed \/ (checked'[d] = source /\ source = checked[d])
        /\ pc'[d] = IF source \in DeadcodeErrors THEN "idle" ELSE "compare"
    BY <1>1, <1>4 DEF TypeOK, ReadInv, Validate, Read, Goto
  <2> QED
    BY <1>1, <2>1 DEF ReadInv
<1> QED
  BY <1>2, <1>3, <1>4 DEF Check

LEMMA QuietChecks ==
  ASSUME TypeOK, ReadInv, Quiet
  PROVE  ReadInv'
<1>1. ASSUME NEW d \in Compilers, Compare(d) \/ ReadHeader(d) \/ HashSource(d) \/ Begin(d)
      PROVE  ReadInv'
  BY <1>1 DEF Compare, ReadHeader, HashSource, Begin, Goto, TypeOK, Writers, ReadInv
<1>2. CASE ReachLimit \/ ReadPolicyFails \/ Reload \/ \E v \in Versions : Edit(v)
  BY <1>2, CompileAssumption
  DEF ReachLimit, ReadPolicyFails, Reload, Edit, Goto, TypeOK, Writers, ReadInv
<1> QED
  BY <1>1, <1>2, CheckReads DEF Quiet

LEMMA QuietInv ==
  ASSUME IndInv, Quiet
  PROVE  IndInv'
<1>1. /\ UNCHANGED <<files, out, tmp, buffer, fd, overtaken, collided>>
      /\ \A w \in Writers : /\ Replacing(w)' <=> Replacing(w)
                            /\ Replacing(w) => pc'[w] = pc[w]
  BY QuietKeeps DEF IndInv
<1>2. \A w \in Writers : /\ Busy(w)' <=> Busy(w)
                         /\ pc'[w] = "write" <=> pc[w] = "write"
                         /\ pc'[w] = "rename" <=> pc[w] = "rename"
                         /\ pc'[w] = "open" <=> pc[w] = "open"
  BY <1>1 DEF Replacing, Busy
<1>3. FileInv' /\ OwnInv' /\ BufferInv'
  BY <1>1, <1>2 DEF IndInv, FileInv, OwnInv, BufferInv
<1>4. CheckInv'
  <2>1. ReadInv'
    BY QuietChecks DEF IndInv, CheckInv
  <2> QED
    BY <1>1, <1>2, <2>1 DEF IndInv, CheckInv, Honest
<1> QED
  BY <1>3, <1>4, QuietType DEF IndInv

-----------------------------------------------------------------------------
\* A writer has its text.
LEMMA CopySourceInv ==
  ASSUME IndInv, NEW c \in Compilers, CopySource(c)
  PROVE  IndInv'
<1> DEFINE text == Compiled(hashed[c], source)
<1>1. /\ pc[c] = "copy" /\ pc' = [pc EXCEPT ![c] = "open"]
      /\ buffer' = [buffer EXCEPT ![c] = text]
      /\ overtaken' = (overtaken \/ source # hashed[c] \/ source # checked[c])
      /\ UNCHANGED <<source, files, out, tmp, checked, hashed, fd, loaded, bounds, collided>>
      /\ c \in Writers
  BY DEF CopySource, Goto, disk, Writers
<1>2. /\ text \in Content /\ text.whole
      /\ text.hash = hashed[c] /\ text.body = source
  BY CompiledType DEF IndInv, TypeOK
<1> HIDE DEF text
<1>3. TypeOK'
  BY <1>1, <1>2 DEF IndInv, TypeOK, bounds
<1>4. FileInv' /\ BufferInv'
  BY <1>1, <1>2 DEF IndInv, TypeOK, FileInv, BufferInv, Busy
<1>5. OwnInv'
  BY <1>1 DEF IndInv, TypeOK, OwnInv, Busy
<1>6. CheckInv'
  <2>1. ~overtaken' => Honest(text)
    BY <1>1, <1>2 DEF IndInv, CheckInv, ReadInv, Honest
  <2>2. ~overtaken' => ~overtaken
    BY <1>1
  <2> QED
    BY <1>1, <2>1, <2>2 DEF IndInv, TypeOK, CheckInv, ReadInv, Busy, Honest, Writers
<1> QED
  BY <1>3, <1>4, <1>5, <1>6 DEF IndInv

\* What the daemon writes back is not enabled.
LEMMA ReadPolicyInv ==
  ASSUME IndInv, ReadPolicy
  PROVE  IndInv'
<1> DEFINE text == [files[out] EXCEPT !.hash = NoHash, !.enabled = FALSE]
<1>1. /\ pc[Daemon] = "limit" /\ pc' = [pc EXCEPT ![Daemon] = "open"]
      /\ out # None /\ files[out].whole
      /\ buffer' = [buffer EXCEPT ![Daemon] = text]
      /\ UNCHANGED <<source, files, out, tmp, checked, hashed, fd, loaded, bounds,
                     overtaken, collided>>
      /\ Daemon \in Writers
  BY DEF ReadPolicy, Parses, Goto, disk, history, Writers
<1>2. text \in Content /\ text.whole /\ ~text.enabled
  <2>1. out \in 1 .. Len(files)
    BY <1>1 DEF IndInv, TypeOK, None
  <2>2. files[out] \in Content
    BY <1>1, <2>1 DEF IndInv, TypeOK, Empty
  <2> QED
    BY <1>1, <2>2 DEF Content
<1> HIDE DEF text
<1>3. TypeOK'
  BY <1>1, <1>2 DEF IndInv, TypeOK, bounds
<1>4. FileInv' /\ BufferInv'
  BY <1>1, <1>2 DEF IndInv, TypeOK, FileInv, BufferInv, Busy
<1>5. OwnInv'
  BY <1>1 DEF IndInv, TypeOK, OwnInv, Busy
<1>6. CheckInv'
  BY <1>1, <1>2, CompileAssumption DEF IndInv, TypeOK, CheckInv, ReadInv, Busy, Honest, Writers
<1> QED
  BY <1>3, <1>4, <1>5, <1>6 DEF IndInv

\* The compiled file goes.
LEMMA DeleteInv ==
  ASSUME IndInv, Delete
  PROVE  IndInv'
<1>1. /\ pc[Daemon] = "limit" /\ pc' = [pc EXCEPT ![Daemon] = "idle"] /\ out' = None
      /\ UNCHANGED <<source, files, tmp, checked, hashed, buffer, fd, loaded, bounds,
                     overtaken, collided>>
      /\ Daemon \in Writers
  BY DEF Delete, Goto, history, Writers
<1>2. TypeOK'
  BY <1>1 DEF IndInv, TypeOK, bounds, None
<1>3. FileInv' /\ BufferInv' /\ OwnInv'
  BY <1>1 DEF IndInv, TypeOK, FileInv, BufferInv, OwnInv, Busy
<1>4. CheckInv'
  BY <1>1, CompileAssumption DEF IndInv, TypeOK, CheckInv, ReadInv, Busy, Honest, Writers
<1> QED
  BY <1>2, <1>3, <1>4 DEF IndInv
-----------------------------------------------------------------------------
\* A writer opens the temporary file: a new one, or one that is in use.
LEMMA OpenTmpInv ==
  ASSUME IndInv, NEW w \in Writers, OpenTmp(w)
  PROVE  IndInv'
<1>1. /\ pc[w] = "open" /\ pc' = [pc EXCEPT ![w] = "write"]
      /\ fd' = [fd EXCEPT ![w] = tmp']
      /\ collided' = (collided \/ tmp # None)
      /\ UNCHANGED <<source, out, checked, hashed, buffer, loaded, bounds, overtaken>>
  BY DEF OpenTmp, Goto
<1>2. CASE tmp = None
  <2>1. files' = Append(files, Empty) /\ tmp' = Len(files) + 1
    BY <1>2 DEF OpenTmp
  <2>2. /\ Len(files) \in Nat /\ Len(files') = Len(files) + 1
        /\ files' \in Seq(Content \cup {Empty})
        /\ \A i \in 1 .. Len(files) : files'[i] = files[i]
        /\ files'[Len(files) + 1] = Empty
    BY <2>1 DEF IndInv, TypeOK
  <2>3. TypeOK'
    <3>1. tmp' \in 0 .. Len(files') /\ out' \in 0 .. Len(files') /\ (out' = tmp' => out' = None)
      BY <1>1, <2>1, <2>2 DEF IndInv, TypeOK
    <3>2. fd' \in [Writers -> 0 .. Len(files')]
      <4>1. fd \in [Writers -> 0 .. Len(files)] /\ tmp' \in 0 .. Len(files')
        BY <3>1 DEF IndInv, TypeOK
      <4> QED
        BY <1>1, <2>2, <4>1
    <3> QED
      BY <1>1, <2>2, <3>1, <3>2 DEF IndInv, TypeOK, bounds
  <2>4. FileInv'
    <3>1. \A v \in Writers : Busy(v) => fd[v] \in 1 .. Len(files)
      BY DEF IndInv, FileInv
    <3> QED
      BY <1>1, <2>1, <2>2, <3>1 DEF IndInv, TypeOK, FileInv, Busy
  <2>5. BufferInv'
    BY <1>1 DEF IndInv, BufferInv
  <2>6. ASSUME ~collided'
        PROVE  /\ \A v \in Writers : ~Busy(v)
               /\ \A v \in Writers : Busy(v)' <=> v = w
               /\ out # None => files[out] \in Content /\ files[out].whole
    <3>1. ~collided
      BY <1>1, <2>6
    <3>2. \A v \in Writers : ~Busy(v)
      BY <1>2, <3>1 DEF IndInv, OwnInv, FileInv, None
    <3> QED
      BY <1>1, <3>1, <3>2 DEF IndInv, OwnInv, Busy, TypeOK
  <2>7. out # None => out \in 1 .. Len(files)
    BY DEF IndInv, TypeOK, None
  <2>8. OwnInv'
    <3> SUFFICES ASSUME ~collided'
                 PROVE  /\ \A v \in Writers : Busy(v)' => fd'[v] = tmp'
                        /\ \A u, v \in Writers : Busy(u)' /\ Busy(v)' => u = v
                        /\ \A v \in Writers : pc'[v] = "write" => files'[tmp'] = Empty
                        /\ \A v \in Writers : pc'[v] = "rename" => files'[tmp'] = buffer'[v]
                        /\ out' # None => files'[out'] \in Content /\ files'[out'].whole
      BY DEF OwnInv
    <3>1. fd'[w] = tmp' /\ pc'[w] = "write"
      BY <1>1 DEF IndInv, TypeOK
    <3>2. out' # None => files'[out'] \in Content /\ files'[out'].whole
      BY <1>1, <2>2, <2>6, <2>7
    <3> QED
      BY <2>1, <2>2, <2>6, <3>1, <3>2 DEF Busy
  <2>9. CheckInv'
    <3>1. ReadInv'
      BY <1>1 DEF IndInv, TypeOK, CheckInv, ReadInv
    <3>2. ASSUME ~overtaken', ~collided', NEW v \in Writers, pc'[v] = "open" \/ Busy(v)'
          PROVE  Honest(buffer'[v])
      <4>1. pc[v] = "open" \/ Busy(v)
        BY <1>1, <3>2 DEF IndInv, TypeOK, Busy
      <4> QED
        BY <1>1, <3>2, <4>1 DEF IndInv, CheckInv
    <3>3. ASSUME ~overtaken', ~collided', out' # None
          PROVE  Honest(files'[out'])
      BY <1>1, <2>2, <2>7, <3>3 DEF IndInv, CheckInv
    <3> QED
      BY <3>1, <3>2, <3>3 DEF CheckInv, Honest
  <2> QED
    BY <2>3, <2>4, <2>5, <2>8, <2>9 DEF IndInv
<1>3. CASE tmp # None
  <2>1. files' = [files EXCEPT ![tmp] = Empty] /\ tmp' = tmp /\ collided'
    BY <1>1, <1>3 DEF OpenTmp
  <2>2. Len(files') = Len(files) /\ files' \in Seq(Content \cup {Empty})
    <3>1. files \in Seq(Content \cup {Empty}) /\ tmp \in 1 .. Len(files)
      BY <1>3 DEF IndInv, TypeOK, None
    <3> QED
      BY <2>1, <3>1
  <2>3. TypeOK'
    BY <1>1, <2>1, <2>2 DEF IndInv, TypeOK, bounds
  <2>4. FileInv'
    <3>1. tmp \in 1 .. Len(files)
      BY <1>3 DEF IndInv, TypeOK, None
    <3> QED
      BY <1>1, <2>1, <2>2, <3>1 DEF IndInv, TypeOK, FileInv, Busy
  <2>5. BufferInv' /\ OwnInv'
    BY <1>1, <2>1 DEF IndInv, BufferInv, OwnInv
  <2>6. CheckInv'
    BY <1>1, <2>1 DEF IndInv, TypeOK, CheckInv, ReadInv
  <2> QED
    BY <2>3, <2>4, <2>5, <2>6 DEF IndInv
<1> QED
  BY <1>2, <1>3

\* He writes his text into the file that he has open, which is nobody else's
\* unless there was a collision, and never the one at the compiled path then.
LEMMA WriteTmpInv ==
  ASSUME IndInv, NEW w \in Writers, WriteTmp(w)
  PROVE  IndInv'
<1> PICK whole \in IF files[fd[w]] \in {Empty, buffer[w]} THEN {TRUE} ELSE BOOLEAN :
        files' = [files EXCEPT ![fd[w]] = [buffer[w] EXCEPT !.whole = whole]]
  BY DEF WriteTmp
<1> DEFINE text == [buffer[w] EXCEPT !.whole = whole]
<1>1. /\ pc[w] = "write" /\ pc' = [pc EXCEPT ![w] = "rename"]
      /\ files' = [files EXCEPT ![fd[w]] = text]
      /\ UNCHANGED <<source, out, tmp, checked, hashed, buffer, fd, loaded, bounds,
                     overtaken, collided>>
  BY DEF WriteTmp, Goto, history
<1>2. /\ buffer[w] \in Content /\ buffer[w].whole
      /\ whole \in BOOLEAN /\ text \in Content
      /\ whole = TRUE => text = buffer[w]
  BY DEF IndInv, TypeOK, BufferInv, Content
<1>3. Busy(w) /\ fd[w] \in 1 .. Len(files)
  BY <1>1 DEF IndInv, FileInv, Busy
<1>4. /\ files' \in Seq(Content \cup {Empty}) /\ Len(files') = Len(files)
      /\ files'[fd[w]] = text
      /\ \A i \in 1 .. Len(files) : i # fd[w] => files'[i] = files[i]
  BY <1>1, <1>2, <1>3 DEF IndInv, TypeOK
<1>5. ASSUME ~collided
      PROVE  /\ fd[w] = tmp /\ text = buffer[w]
             /\ out # None => out \in 1 .. Len(files) /\ files'[out] = files[out]
  <2>1. fd[w] = tmp /\ files[tmp] = Empty
    BY <1>1, <1>3, <1>5 DEF IndInv, OwnInv
  <2>2. text = buffer[w]
    BY <1>2, <2>1
  <2>3. out # None => out \in 1 .. Len(files) /\ out # tmp
    BY DEF IndInv, TypeOK, None
  <2> QED
    BY <1>4, <2>1, <2>2, <2>3
<1> HIDE DEF text
<1>6. TypeOK'
  BY <1>1, <1>4 DEF IndInv, TypeOK, bounds
<1>7. FileInv' /\ BufferInv'
  BY <1>1, <1>4 DEF IndInv, TypeOK, FileInv, BufferInv, Busy
<1>8. \A v \in Writers : Busy(v)' <=> Busy(v)
  BY <1>1 DEF IndInv, TypeOK, Busy
<1>9. OwnInv'
  <2> SUFFICES ASSUME ~collided
               PROVE  /\ \A v \in Writers : Busy(v)' => fd'[v] = tmp'
                      /\ \A u, v \in Writers : Busy(u)' /\ Busy(v)' => u = v
                      /\ \A v \in Writers : pc'[v] = "write" => files'[tmp'] = Empty
                      /\ \A v \in Writers : pc'[v] = "rename" => files'[tmp'] = buffer'[v]
                      /\ out' # None => files'[out'] \in Content /\ files'[out'].whole
    BY <1>1 DEF OwnInv
  <2>1. /\ \A v \in Writers : Busy(v) => fd[v] = tmp
        /\ \A u, v \in Writers : Busy(u) /\ Busy(v) => u = v
        /\ out # None => files[out] \in Content /\ files[out].whole
    BY DEF IndInv, OwnInv
  <2>2. \A v \in Writers : Busy(v)' => v = w
    BY <1>3, <1>8, <2>1
  <2>3. pc'[w] = "rename" /\ files'[tmp'] = buffer'[w]
    BY <1>1, <1>4, <1>5 DEF IndInv, TypeOK
  <2>4. \A v \in Writers : pc'[v] = "write" \/ pc'[v] = "rename" => v = w
    BY <2>2 DEF Busy
  <2> QED
    BY <1>1, <1>5, <1>8, <2>1, <2>3, <2>4
<1>10. CheckInv'
  <2>1. ReadInv'
    BY <1>1 DEF IndInv, TypeOK, CheckInv, ReadInv
  <2>2. ASSUME ~overtaken', ~collided', NEW v \in Writers, pc'[v] = "open" \/ Busy(v)'
        PROVE  Honest(buffer'[v])
    <3>1. pc[v] = "open" \/ Busy(v)
      BY <1>1, <1>8, <2>2 DEF IndInv, TypeOK
    <3> QED
      BY <1>1, <2>2, <3>1 DEF IndInv, CheckInv
  <2>3. ASSUME ~overtaken', ~collided', out' # None
        PROVE  Honest(files'[out'])
    BY <1>1, <1>5, <2>3 DEF IndInv, CheckInv
  <2> QED
    BY <2>1, <2>2, <2>3 DEF CheckInv, Honest
<1> QED
  BY <1>6, <1>7, <1>9, <1>10 DEF IndInv

\* What is at the temporary path, his own text if there was no collision,
\* becomes the compiled file.
LEMMA RenameInv ==
  ASSUME IndInv, NEW w \in Writers, Rename(w)
  PROVE  IndInv'
<1>1. /\ pc[w] = "rename" /\ pc' = [pc EXCEPT ![w] = "idle"]
      /\ fd' = [fd EXCEPT ![w] = None]
      /\ UNCHANGED <<source, files, checked, hashed, buffer, loaded, bounds,
                     overtaken, collided>>
      /\ \/ tmp = None /\ out' = out /\ tmp' = tmp
         \/ tmp # None /\ out' = tmp /\ tmp' = None
  BY DEF Rename, Goto, history
<1>2. \A v \in Writers : Busy(v)' <=> v # w /\ Busy(v)
  BY <1>1 DEF IndInv, TypeOK, Busy
<1>3. TypeOK'
  <2>1. None \in 0 .. Len(files)
    BY DEF IndInv, TypeOK, None
  <2> QED
    BY <1>1, <2>1 DEF IndInv, TypeOK, bounds
<1>4. FileInv' /\ BufferInv'
  BY <1>1, <1>2 DEF IndInv, TypeOK, FileInv, BufferInv
<1>5. ASSUME ~collided
      PROVE  /\ \A v \in Writers : ~Busy(v)'
             /\ fd[w] = tmp /\ tmp # None /\ out' = tmp
             /\ files[tmp] = buffer[w]
             /\ files[tmp] \in Content /\ files[tmp].whole
  <2>1. Busy(w)
    BY <1>1 DEF Busy
  <2>2. /\ fd[w] = tmp /\ files[tmp] = buffer[w]
        /\ \A v \in Writers : Busy(v) => v = w
    BY <1>1, <1>5, <2>1 DEF IndInv, OwnInv
  <2>3. tmp # None
    BY <2>1, <2>2 DEF IndInv, FileInv, None
  <2>4. buffer[w] \in Content /\ buffer[w].whole
    BY DEF IndInv, TypeOK, BufferInv
  <2> QED
    BY <1>1, <1>2, <2>2, <2>3, <2>4
<1>6. OwnInv'
  BY <1>1, <1>5 DEF OwnInv, Busy
<1>7. CheckInv'
  <2>1. ReadInv'
    BY <1>1 DEF IndInv, TypeOK, CheckInv, ReadInv
  <2>2. ASSUME ~overtaken', ~collided', NEW v \in Writers, pc'[v] = "open" \/ Busy(v)'
        PROVE  Honest(buffer'[v])
    <3>1. pc[v] = "open" \/ Busy(v)
      BY <1>1, <1>2, <2>2 DEF IndInv, TypeOK
    <3> QED
      BY <1>1, <2>2, <3>1 DEF IndInv, CheckInv
  <2>3. ASSUME ~overtaken', ~collided'
        PROVE  Honest(files'[out'])
    <3>1. Honest(buffer[w])
      BY <1>1, <2>3 DEF IndInv, CheckInv, Busy
    <3> QED
      BY <1>1, <1>5, <2>3, <3>1
  <2> QED
    BY <2>1, <2>2, <2>3 DEF CheckInv, Honest
<1> QED
  BY <1>3, <1>4, <1>6, <1>7 DEF IndInv

-----------------------------------------------------------------------------
\* Every step preserves the inductive invariant.
LEMMA NextInv ==
  ASSUME IndInv, [Next]_vars
  PROVE  IndInv'
<1>1. CASE Quiet
  BY <1>1, QuietInv
<1>2. ASSUME NEW c \in Compilers, CopySource(c)
      PROVE  IndInv'
  BY <1>2, CopySourceInv
<1>3. ASSUME NEW w \in Writers, OpenTmp(w) \/ WriteTmp(w) \/ Rename(w)
      PROVE  IndInv'
  BY <1>3, OpenTmpInv, WriteTmpInv, RenameInv
<1>4. CASE Delete \/ ReadPolicy
  BY <1>4, DeleteInv, ReadPolicyInv
<1>5. CASE UNCHANGED vars
  BY <1>5 DEF vars, disk, bounds, history, IndInv, TypeOK, FileInv, OwnInv, BufferInv,
              CheckInv, ReadInv, Busy, Honest
<1> QED
  BY <1>1, <1>2, <1>3, <1>4, <1>5 DEF Next, Compiler, Quiet

LEMMA Invariance == Spec => []IndInv
<1>1. IndInv /\ [Next]_vars => IndInv'
  BY NextInv
<1> QED
  BY InitInv, <1>1, PTL DEF Spec

\* Every variable of cmd_compile and of the daemon's rewriting of a policy
\* keeps its type, and one file is never at both paths.
THEOREM TypeCorrectness == Spec => []TypeOK
<1>1. IndInv => TypeOK
  BY DEF IndInv
<1> QED
  BY Invariance, <1>1, PTL

\* Without a collision on the temporary path the daemon never finds an empty
\* or a garbled policy: write to the temporary file, rename.
THEOREM FileIsWhole == Spec => []WholeUnlessCollided
<1>1. IndInv => WholeUnlessCollided
  BY DEF IndInv, OwnInv, WholeUnlessCollided
<1> QED
  BY Invariance, <1>1, PTL

\* Without a collision, and if no compile was overtaken by an edit, what the
\* daemon loads has passed the checks of cmd_compile and its manifest shows
\* the hash of what follows it.
THEOREM LoadedIsChecked == Spec => []CheckedUnlessOvertaken
<1>1. IndInv => CheckedUnlessOvertaken
  BY DEF IndInv, CheckInv, Honest, Loadable, CheckedUnlessOvertaken
<1> QED
  BY Invariance, <1>1, PTL
=============================================================================
