-------------------------- MODULE MediaStore_proofs --------------------------
(***************************************************************************)
(* Theorems about MediaStore: what was answered 201 can be read, through   *)
(* failures, concurrent uploads of the same bytes and crashes, for every   *)
(* set of contents, any number of uploads and reads, and any cap.          *)
(***************************************************************************)
EXTENDS MediaStore, TLAPS

PutPcs == Working \union {"idle", "201", "413", "415", "500", "lost"}
GetPcs == {"idle", "meta", "open", "200", "304", "404", "500", "short", "lost"}

Puts == [pc : PutPcs, sent : Contents \union {None}, hashed : Contents \union {None},
         left : BOOLEAN]
Gets == [pc : GetPcs, of : Contents \union {None}, known : BOOLEAN, calm : BOOLEAN,
         failed : BOOLEAN]

(* The parts of TypeOK. *)
DiskType ==
  /\ object \in [Contents -> {"none", "partial", "full"}]
  /\ meta \in [Contents -> {"none", "empty", "full"}]
  /\ temps \subseteq Uploads
  /\ stored \subseteq Contents /\ cut \subseteq Contents
  /\ crashes \in 0..MaxCrashes

PutType == upload \in [Uploads -> Puts]
GetType == read \in [Reads -> Gets]

(* What Put knows at each of its steps: the hash is that of all that was   *)
(* sent, and a Put that is over has a temp file only if Remove failed.     *)
PutInv ==
  \A u \in Uploads :
    /\ upload[u].pc = "copy" => upload[u].sent \in Contents
    /\ upload[u].pc \in {"meta", "write", "rename", "201"} =>
         /\ upload[u].hashed = upload[u].sent /\ upload[u].hashed \in Contents
         /\ Size[upload[u].sent] <= MaxBytes
    /\ u \in temps => \/ upload[u].pc \in Working \union {"lost"}
                      \/ upload[u].pc \in {"413", "500"} /\ upload[u].left

(* A content whose metadata was written once. *)
Written(c) ==
  c \in stored \/ \E u \in Uploads : upload[u].pc \in {"write", "rename"} /\ upload[u].hashed = c

(* The two files of a content.  Metadata that was written is there; it is  *)
(* empty only while an upload rewrites it, or after one was cut short.     *)
DiskInv ==
  \A c \in Contents :
    /\ object[c] # "partial"
    /\ c \in stored => object[c] = "full"
    /\ Written(c) => meta[c] = "full" \/ (meta[c] = "empty" /\ (Rewriting(c) \/ c \in cut))

(* A read that has not looked at the metadata, and is calm, will find them *)
(* whole.                                                                  *)
GetInv ==
  \A r \in Reads :
    /\ read[r].pc \in {"meta", "open"} => read[r].of \in Contents
    /\ read[r].known => read[r].of \in stored
    /\ read[r].pc = "meta" /\ read[r].calm => ~Rewriting(read[r].of) /\ read[r].of \notin cut

IInv == DiskType /\ PutType /\ GetType /\ PutInv /\ DiskInv /\ GetInv /\ ReadsSeeStored

(* The invariant gives what the run checks. *)
LEMMA InvImplies == IInv => MediaInv /\ StoredStaysReadable /\ ReadsSeeStored
<1> SUFFICES ASSUME IInv PROVE MediaInv /\ StoredStaysReadable
  BY DEF IInv
<1> USE MediaAssumption DEF IInv
<1>1. \A u \in Uploads :
        upload[u].pc \in {"meta", "write", "rename", "201"} => upload[u].hashed # None
  BY DEF PutInv
<1>2. TypeOK
  BY <1>1 DEF TypeOK, DiskType, PutType, GetType, Puts, Gets, PutPcs, GetPcs
<1>3. StoredAsSent /\ TempsRemoved
  BY DEF StoredAsSent, TempsRemoved, PutInv, DiskType
<1>4. StoredStaysReadable
  BY DEF StoredStaysReadable, DiskInv, Written, DiskType
<1> QED
  BY <1>2, <1>3, <1>4 DEF MediaInv

(* The directory is empty and nothing is under way. *)
LEMMA InvInit == Init => IInv
<1> SUFFICES ASSUME Init PROVE IInv
  OBVIOUS
<1> USE MediaAssumption DEF Init
<1>1. NoUpload \in Puts /\ NoRead \in Gets
  BY DEF NoUpload, NoRead, Puts, Gets, PutPcs, GetPcs
<1>2. DiskType /\ PutType /\ GetType
  BY <1>1 DEF DiskType, PutType, GetType
<1>3. \A u \in Uploads : upload[u].pc = "idle"
  BY DEF NoUpload
<1>4. \A r \in Reads : read[r].pc = "idle" /\ ~read[r].known
  BY DEF NoRead
<1>5. PutInv /\ DiskInv
  BY <1>3 DEF PutInv, DiskInv, Written
<1>6. GetInv /\ ReadsSeeStored
  BY <1>4 DEF GetInv, ReadsSeeStored
<1> QED
  BY <1>2, <1>5, <1>6 DEF IInv

(* A step that sets where an upload is leaves the rest of it alone. *)
LEMMA SetPutPc ==
  ASSUME PutType, NEW u \in Uploads, NEW s \in PutPcs, upload' = [upload EXCEPT ![u].pc = s]
  PROVE  /\ PutType'
         /\ upload'[u].pc = s /\ upload'[u].sent = upload[u].sent
         /\ upload'[u].hashed = upload[u].hashed
         /\ \A v \in Uploads : v # u => upload'[v] = upload[v]
BY DEF PutType, Puts

(* The end of an upload: the temp file is gone, or is remembered as left.  *)
LEMMA SetReturn ==
  ASSUME PutType, NEW u \in Uploads, NEW s \in PutPcs, Return(u, s)
  PROVE  /\ PutType'
         /\ upload'[u].pc = s /\ upload'[u].sent = upload[u].sent
         /\ upload'[u].hashed = upload[u].hashed
         /\ \A v \in Uploads : v # u => upload'[v] = upload[v]
         /\ temps' \subseteq temps /\ (u \in temps' => upload'[u].left /\ s # "201")
<1>1. PICK removed \in BOOLEAN :
        /\ s = "201" => removed
        /\ upload' = [upload EXCEPT ![u].pc = s, ![u].left = ~removed]
        /\ temps' = IF removed THEN temps \ {u} ELSE temps
  BY DEF Return
<1>2. /\ PutType'
      /\ upload'[u].pc = s /\ upload'[u].sent = upload[u].sent
      /\ upload'[u].hashed = upload[u].hashed /\ upload'[u].left = ~removed
      /\ \A v \in Uploads : v # u => upload'[v] = upload[v]
  BY <1>1 DEF PutType, Puts
<1> QED
  BY <1>1, <1>2

(* The same of a read. *)
LEMMA SetGetPc ==
  ASSUME GetType, NEW r \in Reads, NEW s \in GetPcs, NEW bad \in BOOLEAN,
         read' = [read EXCEPT ![r].failed = bad, ![r].pc = s]
  PROVE  /\ GetType'
         /\ read'[r].pc = s /\ read'[r].of = read[r].of /\ read'[r].failed = bad
         /\ read'[r].known = read[r].known /\ read'[r].calm = read[r].calm
         /\ \A q \in Reads : q # r => read'[q] = read[q]
BY DEF GetType, Gets

(* Put ends, with whatever status but 201: its temp file goes unless       *)
(* Remove fails, and nothing else changes.                                 *)
LEMMA InvReturn ==
  ASSUME IInv, NEW u \in Uploads, upload[u].pc \in {"copy", "meta", "rename"},
         NEW s \in {"413", "500"}, Return(u, s),
         UNCHANGED <<object, meta, read, pastVars>>
  PROVE  IInv'
<1> USE DEF pastVars
<1>1. s \in PutPcs
  BY DEF PutPcs
<1>2. /\ PutType'
      /\ upload'[u].pc = s /\ upload'[u].sent = upload[u].sent
      /\ upload'[u].hashed = upload[u].hashed
      /\ \A v \in Uploads : v # u => upload'[v] = upload[v]
  BY <1>1, SetReturn DEF IInv
<1>3. temps' \subseteq temps /\ (u \in temps' => upload'[u].left)
  BY <1>1, SetReturn DEF IInv
<1>4. DiskType'
  BY <1>3 DEF IInv, DiskType
<1>5. GetType'
  BY DEF IInv, GetType
<1>6. PutInv'
  BY <1>2, <1>3 DEF IInv, PutInv
<1>7. \A c : Rewriting(c)' <=> Rewriting(c)
  BY <1>2 DEF Rewriting
<1>8. \A c : Written(c)' => Written(c)
  BY <1>2 DEF Written
<1>9. DiskInv'
  BY <1>7, <1>8 DEF IInv, DiskInv
<1>10. GetInv'
  BY <1>7 DEF IInv, GetInv
<1>11. ReadsSeeStored'
  BY DEF IInv, ReadsSeeStored
<1> QED
  BY <1>2, <1>4, <1>5, <1>6, <1>9, <1>10, <1>11 DEF IInv

(* The start of an upload. *)
LEMMA InvStart ==
  ASSUME IInv, NEW u \in Uploads, NEW c \in Contents, NEW ok \in BOOLEAN, PutStart(u, c, ok)
  PROVE  IInv'
<1> USE DEF pastVars
<1>1. /\ upload[u].pc = "idle" /\ UNCHANGED <<object, meta, read, stored, cut, crashes>>
      /\ temps' \subseteq temps \union {u}
  BY DEF PutStart
<1>2. /\ upload[u].pc = "idle"
      /\ \E s \in {"copy", "415", "500"} :
           /\ upload' = [upload EXCEPT ![u] = [pc |-> s, sent |-> c, hashed |-> None, left |-> FALSE]]
           /\ s # "copy" => temps' = temps
  BY DEF PutStart, NoUpload
<1>3. PICK s \in {"copy", "415", "500"} :
         /\ upload' = [upload EXCEPT ![u] = [pc |-> s, sent |-> c, hashed |-> None, left |-> FALSE]]
         /\ s # "copy" => temps' = temps
  BY <1>2
<1>4. [pc |-> s, sent |-> c, hashed |-> None, left |-> FALSE] \in Puts
  BY DEF Puts, PutPcs, Working
<1>5. /\ PutType'
      /\ upload'[u].pc = s /\ upload'[u].sent = c
      /\ \A v \in Uploads : v # u => upload'[v] = upload[v]
  BY <1>3, <1>4 DEF IInv, PutType
<1>6. DiskType'
  BY <1>1 DEF IInv, DiskType
<1>7. GetType'
  BY <1>1 DEF IInv, GetType
<1>8. u \notin temps
  BY <1>1 DEF IInv, PutInv, Working
<1>9. PutInv'
  BY <1>1, <1>3, <1>5, <1>8 DEF IInv, PutInv, Working
<1>10. \A x : Rewriting(x)' <=> Rewriting(x)
  BY <1>1, <1>5 DEF Rewriting
<1>11. \A x : Written(x)' => Written(x)
  BY <1>1, <1>5 DEF Written
<1>12. DiskInv'
  BY <1>1, <1>10, <1>11 DEF IInv, DiskInv
<1>13. GetInv'
  BY <1>1, <1>10 DEF IInv, GetInv
<1>14. ReadsSeeStored'
  BY <1>1 DEF IInv, ReadsSeeStored
<1> QED
  BY <1>5, <1>6, <1>7, <1>9, <1>12, <1>13, <1>14 DEF IInv

(* What is within the cap goes through LimitReader as it is: the limit is  *)
(* one byte above, so a body at the cap is not taken for a longer one.     *)
LEMMA CopyWithinCap ==
  ASSUME NEW c \in Contents, ~Over(c) PROVE Copied(c) = c /\ Size[c] <= MaxBytes
BY MediaAssumption DEF Over, Copied, Limit

(* The copy to the temp file. *)
LEMMA InvCopy ==
  ASSUME IInv, NEW u \in Uploads, NEW ok \in BOOLEAN, PutCopy(u, ok) PROVE IInv'
<1> DEFINE c == upload[u].sent
<1>1. upload[u].pc = "copy" /\ c \in Contents /\ UNCHANGED <<object, meta, read, pastVars>>
  BY DEF PutCopy, IInv, PutInv
<1>2. CASE ok /\ ~Over(c)
  <2>1. upload' = [upload EXCEPT ![u].pc = "meta", ![u].hashed = Copied(c)] /\ temps' = temps
    BY <1>2 DEF PutCopy
  <2>2. Copied(c) = c /\ Size[c] <= MaxBytes
    BY <1>1, <1>2, CopyWithinCap
  <2> HIDE DEF c
  <2>3. upload' = [upload EXCEPT ![u].pc = "meta", ![u].hashed = c]
    BY <2>1, <2>2
  <2>4. /\ PutType'
        /\ upload'[u].pc = "meta" /\ upload'[u].sent = upload[u].sent /\ upload'[u].hashed = c
        /\ \A v \in Uploads : v # u => upload'[v] = upload[v]
    BY <1>1, <2>3 DEF IInv, PutType, Puts, PutPcs, Working
  <2>5. DiskType' /\ GetType'
    BY <1>1, <2>1 DEF IInv, DiskType, GetType, pastVars
  <2>6. PutInv'
    BY <1>1, <2>1, <2>2, <2>4 DEF IInv, PutInv, c, Working
  <2>7. \A x : Rewriting(x)' <=> Rewriting(x)
    BY <1>1, <2>4 DEF Rewriting
  <2>8. \A x : Written(x)' => Written(x)
    BY <1>1, <2>4 DEF Written, pastVars
  <2>9. DiskInv'
    BY <1>1, <2>7, <2>8 DEF IInv, DiskInv, pastVars
  <2>10. GetInv'
    BY <1>1, <2>7 DEF IInv, GetInv, pastVars
  <2>11. ReadsSeeStored'
    BY <1>1 DEF IInv, ReadsSeeStored
  <2> QED
    BY <2>4, <2>5, <2>6, <2>9, <2>10, <2>11 DEF IInv
<1>3. CASE ~(ok /\ ~Over(c))
  <2>1. \E s \in {"413", "500"} : Return(u, s)
    BY <1>3 DEF PutCopy
  <2> QED
    BY <1>1, <2>1, InvReturn
<1> QED
  BY <1>2, <1>3

(* The metadata file is opened and so emptied: every read of the content   *)
(* that is under way may now meet the rewrite.                             *)
LEMMA InvTruncate ==
  ASSUME IInv, NEW u \in Uploads, NEW ok \in BOOLEAN, PutTruncate(u, ok) PROVE IInv'
<1> DEFINE c == upload[u].hashed
<1>1. upload[u].pc = "meta" /\ c \in Contents /\ UNCHANGED <<object, stored, cut, crashes>>
  BY DEF PutTruncate, IInv, PutInv, pastVars
<1>2. CASE ok
  <2>1. /\ meta' = [meta EXCEPT ![c] = "empty"] /\ temps' = temps
        /\ upload' = [upload EXCEPT ![u].pc = "write"]
        /\ read' = [r \in Reads |-> IF read[r].of = c THEN [read[r] EXCEPT !.calm = FALSE]
                                    ELSE read[r]]
    BY <1>2 DEF PutTruncate
  <2>2. /\ PutType'
        /\ upload'[u].pc = "write" /\ upload'[u].sent = upload[u].sent
        /\ upload'[u].hashed = upload[u].hashed
        /\ \A v \in Uploads : v # u => upload'[v] = upload[v]
    BY <2>1, SetPutPc DEF IInv, PutPcs, Working
  <2> HIDE DEF c
  <2>3. /\ GetType'
        /\ \A r \in Reads : /\ read'[r].pc = read[r].pc /\ read'[r].of = read[r].of
                            /\ read'[r].known = read[r].known /\ read'[r].failed = read[r].failed
                            /\ read'[r].calm => read[r].calm /\ read[r].of # c
    BY <2>1 DEF IInv, GetType, Gets
  <2>4. /\ DiskType' /\ meta'[c] = "empty"
        /\ \A x \in Contents : x # c => meta'[x] = meta[x]
    BY <1>1, <2>1 DEF IInv, DiskType
  <2>5. PutInv'
    BY <1>1, <2>1, <2>2 DEF IInv, PutInv, Working
  <2>6. \A x : Rewriting(x)' <=> (Rewriting(x) \/ x = c)
    BY <1>1, <2>2 DEF Rewriting, c
  <2>7. \A x : Written(x)' => (Written(x) \/ x = c)
    BY <1>1, <2>2 DEF Written, c
  <2>8. DiskInv'
    BY <1>1, <2>4, <2>6, <2>7 DEF IInv, DiskInv
  <2>9. GetInv'
    BY <1>1, <2>3, <2>6 DEF IInv, GetInv
  <2>10. ReadsSeeStored'
    BY <2>3 DEF IInv, ReadsSeeStored
  <2> QED
    BY <2>2, <2>3, <2>4, <2>5, <2>8, <2>9, <2>10 DEF IInv
<1>3. CASE ~ok
  <2>1. Return(u, "500") /\ UNCHANGED <<object, meta, read, pastVars>>
    BY <1>1, <1>3 DEF PutTruncate, pastVars
  <2> QED
    BY <1>1, <2>1, InvReturn
<1> QED
  BY <1>2, <1>3

(* The metadata are written, or the write fails and is remembered as cut   *)
(* short, unless another upload has written them since.                    *)
LEMMA InvWrite ==
  ASSUME IInv, NEW u \in Uploads, NEW ok \in BOOLEAN, PutWrite(u, ok) PROVE IInv'
<1> DEFINE c == upload[u].hashed
<1>1. upload[u].pc = "write" /\ c \in Contents /\ UNCHANGED <<object, read, stored, crashes>>
  BY DEF PutWrite, IInv, PutInv
<1>2. Rewriting(c) /\ Written(c)
  BY <1>1 DEF Rewriting, Written
<1>3. CASE ok
  <2>1. /\ meta' = [meta EXCEPT ![c] = "full"] /\ temps' = temps /\ cut' = cut \ {c}
        /\ upload' = [upload EXCEPT ![u].pc = "rename"]
    BY <1>3 DEF PutWrite
  <2>2. /\ PutType'
        /\ upload'[u].pc = "rename" /\ upload'[u].sent = upload[u].sent
        /\ upload'[u].hashed = upload[u].hashed
        /\ \A v \in Uploads : v # u => upload'[v] = upload[v]
    BY <2>1, SetPutPc DEF IInv, PutPcs, Working
  <2> HIDE DEF c
  <2>3. /\ DiskType' /\ meta'[c] = "full"
        /\ \A x \in Contents : x # c => meta'[x] = meta[x]
    BY <1>1, <2>1 DEF IInv, DiskType
  <2>4. GetType'
    BY <1>1 DEF IInv, GetType
  <2>5. PutInv'
    BY <1>1, <2>1, <2>2 DEF IInv, PutInv, Working
  <2>6. \A x : /\ Rewriting(x)' => Rewriting(x)
               /\ x # c => (Rewriting(x) => Rewriting(x)')
    BY <1>1, <2>2 DEF Rewriting, c
  <2>7. \A x : Written(x)' => Written(x)
    BY <1>1, <2>2 DEF Written, c
  <2>8. DiskInv'
    BY <1>1, <2>1, <2>3, <2>6, <2>7 DEF IInv, DiskInv
  <2>9. GetInv'
    BY <1>1, <2>1, <2>6 DEF IInv, GetInv
  <2>10. ReadsSeeStored'
    BY <1>1 DEF IInv, ReadsSeeStored
  <2> QED
    BY <2>2, <2>3, <2>4, <2>5, <2>8, <2>9, <2>10 DEF IInv
<1>4. CASE ~ok
  <2>1. /\ Return(u, "500") /\ meta' = meta
        /\ cut' = cut \union (IF meta[c] = "empty" THEN {c} ELSE {})
    BY <1>4 DEF PutWrite
  <2>2. /\ PutType'
        /\ upload'[u].pc = "500" /\ upload'[u].sent = upload[u].sent
        /\ upload'[u].hashed = upload[u].hashed
        /\ \A v \in Uploads : v # u => upload'[v] = upload[v]
    BY <2>1, SetReturn DEF IInv, PutPcs
  <2> HIDE DEF c
  <2>3. temps' \subseteq temps /\ (u \in temps' => upload'[u].left)
    BY <2>1, SetReturn DEF IInv, PutPcs
  <2>d. DiskType'
    BY <1>1, <2>1, <2>3 DEF IInv, DiskType
  <2>4. GetType'
    BY <1>1 DEF IInv, GetType
  <2>5. PutInv'
    BY <1>1, <2>2, <2>3 DEF IInv, PutInv, Working
  <2>6. \A x : /\ Rewriting(x)' => Rewriting(x)
               /\ x # c => (Rewriting(x) => Rewriting(x)')
    BY <1>1, <2>2 DEF Rewriting, c
  <2>7. \A x : Written(x)' => Written(x)
    BY <1>1, <2>2 DEF Written, c
  <2>8. DiskInv'
    BY <1>1, <1>2, <2>1, <2>6, <2>7 DEF IInv, DiskInv
  <2>9. GetInv'
    BY <1>1, <1>2, <2>1, <2>6 DEF IInv, GetInv
  <2>10. ReadsSeeStored'
    BY <1>1 DEF IInv, ReadsSeeStored
  <2> QED
    BY <2>2, <2>d, <2>4, <2>5, <2>8, <2>9, <2>10 DEF IInv
<1> QED
  BY <1>3, <1>4

(* The object appears, whole, under a name that has its metadata.          *)
LEMMA InvRename ==
  ASSUME IInv, NEW u \in Uploads, NEW ok \in BOOLEAN, PutRename(u, ok) PROVE IInv'
<1> DEFINE c == upload[u].hashed
<1>1. upload[u].pc = "rename" /\ c \in Contents /\ UNCHANGED <<meta, read, cut, crashes>>
  BY DEF PutRename, IInv, PutInv
<1>2. CASE ok
  <2>1. /\ object' = [object EXCEPT ![c] = "full"] /\ stored' = stored \union {c}
        /\ Return(u, "201")
    BY <1>2 DEF PutRename
  <2>2. /\ PutType'
        /\ upload'[u].pc = "201" /\ upload'[u].sent = upload[u].sent
        /\ upload'[u].hashed = upload[u].hashed
        /\ \A v \in Uploads : v # u => upload'[v] = upload[v]
    BY <2>1, SetReturn DEF IInv, PutPcs
  <2>t. temps' \subseteq temps /\ u \notin temps'
    BY <2>1, SetReturn DEF IInv, PutPcs
  <2>w. Written(c)
    BY <1>1 DEF Written
  <2> HIDE DEF c
  <2>3. /\ DiskType' /\ object'[c] = "full"
        /\ \A x \in Contents : x # c => object'[x] = object[x]
    BY <1>1, <2>1, <2>t DEF IInv, DiskType
  <2>4. GetType'
    BY <1>1 DEF IInv, GetType
  <2>5. PutInv'
    BY <1>1, <2>2, <2>t DEF IInv, PutInv
  <2>6. \A x : Rewriting(x)' <=> Rewriting(x)
    BY <1>1, <2>2 DEF Rewriting
  <2>7. \A x : Written(x)' => Written(x)
    BY <1>1, <2>1, <2>2, <2>w DEF Written
  <2>8. DiskInv'
    BY <1>1, <2>1, <2>3, <2>6, <2>7 DEF IInv, DiskInv
  <2>9. GetInv'
    BY <1>1, <2>1, <2>6 DEF IInv, GetInv
  <2>10. ReadsSeeStored'
    BY <1>1 DEF IInv, ReadsSeeStored
  <2> QED
    BY <2>2, <2>3, <2>4, <2>5, <2>8, <2>9, <2>10 DEF IInv
<1>3. CASE ~ok
  <2>1. Return(u, "500") /\ UNCHANGED <<object, meta, read, pastVars>>
    BY <1>1, <1>3 DEF PutRename, pastVars
  <2> QED
    BY <1>1, <2>1, InvReturn
<1> QED
  BY <1>2, <1>3

(* A step of a read touches nothing but the read. *)
LEMMA InvGet ==
  ASSUME IInv, NEW r \in Reads, Get(r) PROVE IInv'
<1>1. UNCHANGED <<object, meta, temps, upload, stored, cut, crashes>>
  BY DEF Get, GetStart, GetMeta, GetOpen, diskVars, pastVars
<1>2. DiskType' /\ PutType'
  BY <1>1 DEF IInv, DiskType, PutType
<1>3. PutInv'
  BY <1>1 DEF IInv, PutInv
<1>4. \A x : (Rewriting(x)' <=> Rewriting(x)) /\ (Written(x)' <=> Written(x))
  BY <1>1 DEF Rewriting, Written
<1>5. DiskInv'
  BY <1>1, <1>4 DEF IInv, DiskInv
<1>6. GetType' /\ GetInv' /\ ReadsSeeStored'
  <2>1. CASE \E c \in Contents, conditional \in BOOLEAN : GetStart(r, c, conditional)
    <3>1. PICK c \in Contents, conditional \in BOOLEAN : GetStart(r, c, conditional)
      BY <2>1
    <3> DEFINE new == [pc |-> IF conditional THEN "304" ELSE "meta", of |-> c,
                       known |-> c \in stored, calm |-> ~Rewriting(c) /\ c \notin cut,
                       failed |-> FALSE]
    <3>2. read' = [read EXCEPT ![r] = new]
      BY <3>1 DEF GetStart
    <3>3. new \in Gets
      BY DEF Gets, GetPcs, Rewriting
    <3>4. /\ new.pc \in {"304", "meta"} /\ new.of = c /\ (new.known => c \in stored)
          /\ new.calm => ~Rewriting(c) /\ c \notin cut
      OBVIOUS
    <3> HIDE DEF new
    <3>5. GetType' /\ read'[r] = new /\ \A q \in Reads : q # r => read'[q] = read[q]
      BY <3>2, <3>3 DEF IInv, GetType
    <3>6. GetInv'
      BY <1>1, <1>4, <3>4, <3>5 DEF IInv, GetInv
    <3>7. ReadsSeeStored'
      BY <3>4, <3>5 DEF IInv, ReadsSeeStored
    <3> QED
      BY <3>5, <3>6, <3>7
  <2>2. ASSUME NEW ok \in BOOLEAN, GetMeta(r, ok) PROVE GetType' /\ GetInv' /\ ReadsSeeStored'
    <3> DEFINE c == read[r].of
    <3>1. read[r].pc = "meta" /\ c \in Contents
      BY <2>2 DEF GetMeta, IInv, GetInv
    <3>2. meta[c] \in {"none", "empty", "full"}
      BY <3>1 DEF IInv, DiskType
    <3>3. PICK s \in {"404", "500", "open"} :
             /\ read' = [read EXCEPT ![r].failed = ~ok, ![r].pc = s]
             /\ (s = "404" => meta[c] = "none") /\ (s = "500" /\ ok => meta[c] = "empty")
      BY <2>2, <3>2 DEF GetMeta
    <3>4. /\ GetType'
          /\ read'[r].pc = s /\ read'[r].of = read[r].of /\ read'[r].failed = ~ok
          /\ read'[r].known = read[r].known /\ read'[r].calm = read[r].calm
          /\ \A q \in Reads : q # r => read'[q] = read[q]
      <4>1. s \in GetPcs /\ (~ok) \in BOOLEAN /\ GetType
        BY DEF GetPcs, IInv
      <4> QED
        BY <3>3, <4>1, SetGetPc
    <3>5. GetInv'
      BY <1>1, <1>4, <3>1, <3>4 DEF IInv, GetInv
    <3>6. /\ read[r].known => meta[c] # "none"
          /\ read[r].known /\ read[r].calm => meta[c] # "empty"
      BY <3>1 DEF IInv, GetInv, DiskInv, Written
    <3>7. ReadsSeeStored'
      BY <3>3, <3>4, <3>6 DEF IInv, ReadsSeeStored
    <3> QED
      BY <3>4, <3>5, <3>7
  <2>3. ASSUME NEW ok \in BOOLEAN, GetOpen(r, ok) PROVE GetType' /\ GetInv' /\ ReadsSeeStored'
    <3> DEFINE c == read[r].of
    <3>1. read[r].pc = "open" /\ c \in Contents
      BY <2>3 DEF GetOpen, IInv, GetInv
    <3>2. object[c] \in {"none", "full"}
      BY <3>1 DEF IInv, DiskType, DiskInv
    <3>3. PICK s \in {"404", "200", "500"} :
             /\ read' = [read EXCEPT ![r].failed = ~ok, ![r].pc = s]
             /\ (s = "404" => object[c] = "none") /\ (s = "500" => ~ok)
      BY <2>3, <3>2 DEF GetOpen
    <3>4. /\ GetType'
          /\ read'[r].pc = s /\ read'[r].of = read[r].of /\ read'[r].failed = ~ok
          /\ read'[r].known = read[r].known /\ read'[r].calm = read[r].calm
          /\ \A q \in Reads : q # r => read'[q] = read[q]
      <4>1. s \in GetPcs /\ (~ok) \in BOOLEAN /\ GetType
        BY DEF GetPcs, IInv
      <4> QED
        BY <3>3, <4>1, SetGetPc
    <3>5. GetInv'
      BY <1>1, <1>4, <3>1, <3>4 DEF IInv, GetInv
    <3>6. read[r].known => object[c] # "none"
      BY <3>1 DEF IInv, GetInv, DiskInv
    <3>7. ReadsSeeStored'
      BY <3>3, <3>4, <3>6 DEF IInv, ReadsSeeStored
    <3> QED
      BY <3>4, <3>5, <3>7
  <2> QED
    BY <2>1, <2>2, <2>3 DEF Get
<1> QED
  BY <1>2, <1>3, <1>5, <1>6 DEF IInv

(* The process is killed: a rewrite that was under way is cut short.       *)
LEMMA InvCrash == ASSUME IInv, Crash PROVE IInv'
<1>1. /\ UNCHANGED <<object, meta, temps, stored>> /\ crashes < MaxCrashes /\ crashes' = crashes + 1
      /\ cut' = cut \union {c \in Contents : Rewriting(c) /\ meta[c] = "empty"}
  BY DEF Crash, diskVars
<1>2. upload' = [u \in Uploads |-> IF upload[u].pc \in Working
                                   THEN [upload[u] EXCEPT !.pc = "lost"] ELSE upload[u]]
  BY DEF Crash, Working
<1>3. read' = [r \in Reads |-> IF read[r].pc \in {"meta", "open"}
                               THEN [read[r] EXCEPT !.pc = "lost"] ELSE read[r]]
  BY DEF Crash
<1>4. DiskType'
  BY <1>1, MediaAssumption DEF IInv, DiskType
<1>5. /\ PutType'
      /\ \A u \in Uploads : /\ upload'[u].sent = upload[u].sent
                            /\ upload'[u].hashed = upload[u].hashed
                            /\ upload'[u].left = upload[u].left
                            /\ upload[u].pc \in Working => upload'[u].pc = "lost"
                            /\ upload[u].pc \notin Working => upload'[u].pc = upload[u].pc
  BY <1>2 DEF IInv, PutType, Puts, PutPcs
<1>6. /\ GetType'
      /\ \A r \in Reads : /\ read'[r].of = read[r].of /\ read'[r].known = read[r].known
                          /\ read'[r].calm = read[r].calm /\ read'[r].failed = read[r].failed
                          /\ read'[r].pc = "lost" \/ read'[r].pc = read[r].pc
                          /\ read'[r].pc \notin {"meta", "open"}
  BY <1>3 DEF IInv, GetType, Gets, GetPcs
<1>7. PutInv'
  BY <1>1, <1>5 DEF IInv, PutInv, Working
<1>8. \A x : Written(x)' => Written(x)
  BY <1>1, <1>5 DEF Written, Working
<1>9. DiskInv'
  BY <1>1, <1>8 DEF IInv, DiskInv
<1>10. GetInv'
  BY <1>1, <1>6 DEF IInv, GetInv
<1>11. ReadsSeeStored'
  BY <1>6 DEF IInv, ReadsSeeStored
<1> QED
  BY <1>4, <1>5, <1>6, <1>7, <1>9, <1>10, <1>11 DEF IInv

(* The invariant holds all the time. *)
LEMMA InvAlways == Spec => []IInv
<1>1. IInv /\ [Next]_vars => IInv'
  <2> SUFFICES ASSUME IInv, [Next]_vars PROVE IInv'
    OBVIOUS
  <2>1. ASSUME NEW u \in Uploads, Put(u) PROVE IInv'
    BY <2>1, InvStart, InvCopy, InvTruncate, InvWrite, InvRename DEF Put
  <2>2. CASE UNCHANGED vars
    <3>1. DiskType' /\ PutType' /\ GetType'
      BY <2>2 DEF IInv, DiskType, PutType, GetType, vars
    <3>2. PutInv' /\ GetInv'
      BY <2>2 DEF IInv, PutInv, GetInv, Rewriting, vars
    <3>3. DiskInv'
      BY <2>2 DEF IInv, DiskInv, Written, Rewriting, vars
    <3>4. ReadsSeeStored'
      BY <2>2 DEF IInv, ReadsSeeStored, vars
    <3> QED
      BY <3>1, <3>2, <3>3, <3>4 DEF IInv
  <2> QED
    BY <2>1, <2>2, InvGet, InvCrash DEF Next
<1> QED
  BY InvInit, <1>1, PTL DEF Spec

(* Uploads are well formed, a 201 is only given for the bytes that were    *)
(* sent, all of them and within the cap, and only a crash or a Remove that *)
(* fails leaves a temp file behind.                                        *)
THEOREM UploadsAreSound == Spec => []MediaInv
BY InvAlways, InvImplies, PTL

(* What was once answered 201 stays readable through failures of the file  *)
(* system, concurrent uploads of the same bytes and crashes.               *)
THEOREM ObjectsAreKept == Spec => []StoredStaysReadable
BY InvAlways, InvImplies, PTL

(* A read that began after the 201 is never told that there is none, never *)
(* gets part of an object, and fails only if it met a rewrite or a file    *)
(* operation of its own failed.                                            *)
THEOREM ReadsAreRight == Spec => []ReadsSeeStored
BY InvAlways, InvImplies, PTL

=============================================================================
