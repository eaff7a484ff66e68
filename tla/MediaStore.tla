----------------------------- MODULE MediaStore -----------------------------
(***************************************************************************)
(* media-service: uploads and reads over a directory in which an object    *)
(* and its metadata are two files.                                         *)
(*                                                                         *)
(* A content stands for its bytes and so for its hash.  Prefix[c] is what  *)
(* is left of c after maxBytes.  The metadata of a content is determined   *)
(* by it, so a metadata file is absent, empty (opened with O_TRUNC, not    *)
(* yet written) or full.                                                   *)
(***************************************************************************)
EXTENDS Naturals, FiniteSets

CONSTANTS
  Contents,
  Images,          \* contents that DetectContentType takes for an allowed type
  Size, Prefix,
  MaxBytes,        \* maxBytes
  Uploads,         \* requests to POST /media, each made once
  Reads,           \* requests to GET /media/:hash, each made once
  None,
  MaxCrashes       \* bound: crashes of the process

ASSUME MediaAssumption ==
  /\ Images \subseteq Contents /\ None \notin Contents
  /\ Size \in [Contents -> Nat] /\ Prefix \in [Contents -> Contents]
  /\ \A c \in Contents : Size[c] > MaxBytes => Size[Prefix[c]] = MaxBytes
  /\ MaxBytes \in Nat /\ MaxCrashes \in Nat

VARIABLES
  object,     \* object[c]: the file named by the hash: none, partial, full
  meta,       \* meta[c]: none, empty, full
  temps,      \* uploads whose temp file is in the directory
  upload,     \* upload[u]: what is sent, what was hashed, where Put is, and
              \* whether its Remove failed
  read,       \* read[r]: what is asked for, where Get is; history: whether the
              \* object was stored before, no rewrite was met, and a file
              \* operation of its own failed
  stored,     \* history: contents that were answered 201
  cut,        \* history: contents whose last rewrite of metadata was cut short
  crashes

diskVars == <<object, meta, temps>>
pastVars == <<stored, cut, crashes>>
vars == <<object, meta, temps, upload, read, stored, cut, crashes>>

NoUpload == [pc |-> "idle", sent |-> None, hashed |-> None, left |-> FALSE]
NoRead   == [pc |-> "idle", of |-> None, known |-> FALSE, calm |-> FALSE, failed |-> FALSE]

Init ==
  /\ object = [c \in Contents |-> "none"] /\ meta = [c \in Contents |-> "none"]
  /\ temps = {}
  /\ upload = [u \in Uploads |-> NoUpload] /\ read = [r \in Reads |-> NoRead]
  /\ stored = {} /\ cut = {} /\ crashes = 0

-----------------------------------------------------------------------------
(* Put.  A failure of the file system may come at every step. *)

(* A Put without the deferred Remove, where only the rename takes the      *)
(* temp file away.                                                         *)
Return_NoRemove(u, status) ==
  /\ upload' = [upload EXCEPT ![u].pc = status]
  /\ temps' = IF status = "201" THEN temps \ {u} ELSE temps

(* The end of Put, with its deferred Remove, whose error is ignored.  After *)
(* a rename there is nothing left to remove.                               *)
Return(u, status) ==
  \E removed \in BOOLEAN :
    /\ status = "201" => removed
    /\ upload' = [upload EXCEPT ![u].pc = status, ![u].left = ~removed]
    /\ temps' = IF removed THEN temps \ {u} ELSE temps

(* Sniffing, and CreateTemp: an error of either is a 500. *)
PutStart(u, c, ok) ==
  /\ upload[u].pc = "idle"
  /\ IF c \in Images /\ ok
     THEN /\ upload' = [upload EXCEPT ![u] = [NoUpload EXCEPT !.pc = "copy", !.sent = c]]
          /\ temps' = temps \union {u}
     ELSE /\ upload' = [upload EXCEPT ![u] = [NoUpload EXCEPT
                          !.pc = IF ok THEN "415" ELSE "500", !.sent = c]]
          /\ UNCHANGED temps
  /\ UNCHANGED <<object, meta, read, pastVars>>

(* A limit at the cap: what is too large is cut to it. *)
Limit_AtCap == MaxBytes

(* One byte more than the cap, so that what is too large is seen to be. *)
Limit == MaxBytes + 1

(* What LimitReader lets through. *)
Copied(c) == IF Size[c] <= Limit THEN c ELSE Prefix[c]
Over(c) == (IF Size[c] <= Limit THEN Size[c] ELSE Limit) > MaxBytes

(* A copy that forgets the hash. *)
PutCopy_NoHash(u, ok) ==
  LET c == upload[u].sent
  IN /\ upload[u].pc = "copy"
     /\ IF ok /\ ~Over(c)
        THEN /\ upload' = [upload EXCEPT ![u].pc = "meta"]
             /\ UNCHANGED temps
        ELSE Return(u, IF ok THEN "413" ELSE "500")
     /\ UNCHANGED <<object, meta, read, pastVars>>

(* A copy straight to the place of the object. *)
PutCopy_InPlace(u, ok) ==
  LET c == upload[u].sent
  IN /\ upload[u].pc = "copy"
     /\ IF ok /\ ~Over(c)
        THEN /\ upload' = [upload EXCEPT ![u].pc = "meta", ![u].hashed = Copied(c)]
             /\ UNCHANGED temps
        ELSE Return(u, IF ok THEN "413" ELSE "500")
     /\ object' = [object EXCEPT ![Copied(c)] = "partial"]
     /\ UNCHANGED <<meta, read, pastVars>>

(* io.Copy to the temp file and the hasher, and the check of the size. *)
PutCopy(u, ok) ==
  LET c == upload[u].sent
  IN /\ upload[u].pc = "copy"
     /\ IF ok /\ ~Over(c)
        THEN /\ upload' = [upload EXCEPT ![u].pc = "meta", ![u].hashed = Copied(c)]
             /\ UNCHANGED temps
        ELSE Return(u, IF ok THEN "413" ELSE "500")
     /\ UNCHANGED <<object, meta, read, pastVars>>

(* os.WriteFile opens with O_TRUNC: what the file said before is gone. *)
PutTruncate(u, ok) ==
  LET c == upload[u].hashed
  IN /\ upload[u].pc = "meta"
     /\ IF ok
        THEN /\ meta' = [meta EXCEPT ![c] = "empty"]
             /\ upload' = [upload EXCEPT ![u].pc = "write"]
             /\ read' = [r \in Reads |-> IF read[r].of = c THEN [read[r] EXCEPT !.calm = FALSE]
                                         ELSE read[r]]
             /\ UNCHANGED temps
        ELSE /\ Return(u, "500")
             /\ UNCHANGED <<meta, read>>
     /\ UNCHANGED <<object, pastVars>>

(* The write that follows fails: the file stays as it is. *)
PutWrite(u, ok) ==
  LET c == upload[u].hashed
  IN /\ upload[u].pc = "write"
     /\ IF ok
        THEN /\ meta' = [meta EXCEPT ![c] = "full"]
             /\ cut' = cut \ {c}
             /\ upload' = [upload EXCEPT ![u].pc = "rename"]
             /\ UNCHANGED temps
        ELSE /\ Return(u, "500")
             /\ cut' = cut \union (IF meta[c] = "empty" THEN {c} ELSE {})
             /\ UNCHANGED meta
     /\ UNCHANGED <<object, read, stored, crashes>>

(* The rename puts the whole object there at once; if it fails, the        *)
(* metadata stays.                                                         *)
PutRename(u, ok) ==
  LET c == upload[u].hashed
  IN /\ upload[u].pc = "rename"
     /\ IF ok
        THEN /\ object' = [object EXCEPT ![c] = "full"]
             /\ stored' = stored \union {c}
        ELSE UNCHANGED <<object, stored>>
     /\ Return(u, IF ok THEN "201" ELSE "500")
     /\ UNCHANGED <<meta, read, cut, crashes>>

-----------------------------------------------------------------------------
(* Get. *)

Rewriting(c) == \E u \in Uploads : upload[u].pc = "write" /\ upload[u].hashed = c

(* A matching If-None-Match is answered at once. *)
GetStart(r, c, conditional) ==
  /\ read[r].pc = "idle"
  /\ read' = [read EXCEPT ![r] =
       [pc |-> IF conditional THEN "304" ELSE "meta", of |-> c,
        known |-> c \in stored, calm |-> ~Rewriting(c) /\ c \notin cut, failed |-> FALSE]]
  /\ UNCHANGED <<diskVars, upload, pastVars>>

(* A metadata file that does not parse, taken for one that is missing. *)
GetMeta_Unparsed(r, ok) ==
  /\ read[r].pc = "meta"
  /\ read' = [read EXCEPT ![r].failed = ~ok,
                          ![r].pc = CASE ~ok -> "500"
                                      [] ok /\ meta[read[r].of] = "full" -> "open"
                                      [] OTHER -> "404"]
  /\ UNCHANGED <<diskVars, upload, pastVars>>

(* readMeta: a missing file is not found, an empty one does not parse, and *)
(* one that cannot be read is an error.                                    *)
GetMeta(r, ok) ==
  /\ read[r].pc = "meta"
  /\ read' = [read EXCEPT ![r].failed = ~ok,
                          ![r].pc = CASE ~ok -> "500"
                                      [] ok /\ meta[read[r].of] = "none"  -> "404"
                                      [] ok /\ meta[read[r].of] = "empty" -> "500"
                                      [] ok /\ meta[read[r].of] = "full"  -> "open"]
  /\ UNCHANGED <<diskVars, upload, pastVars>>

(* Whatever keeps Open from the object is taken for its absence. *)
GetOpen_NotFound(r, ok) ==
  /\ read[r].pc = "open"
  /\ read' = [read EXCEPT ![r].failed = ~ok,
                          ![r].pc = IF ok /\ object[read[r].of] = "full" THEN "200" ELSE "404"]
  /\ UNCHANGED <<diskVars, upload, pastVars>>

(* Open: a missing object is not found, any other error is one.  The       *)
(* opened file keeps its bytes, whatever is renamed over it.               *)
GetOpen(r, ok) ==
  /\ read[r].pc = "open"
  /\ read' = [read EXCEPT ![r].failed = ~ok,
                          ![r].pc = CASE ~ok -> "500"
                                      [] ok /\ object[read[r].of] = "none"    -> "404"
                                      [] ok /\ object[read[r].of] = "partial" -> "short"
                                      [] ok /\ object[read[r].of] = "full"    -> "200"]
  /\ UNCHANGED <<diskVars, upload, pastVars>>

-----------------------------------------------------------------------------
(* The process is killed: the files stay as they are. *)
Crash ==
  /\ crashes < MaxCrashes
  /\ crashes' = crashes + 1
  /\ cut' = cut \union {c \in Contents : Rewriting(c) /\ meta[c] = "empty"}
  /\ upload' = [u \in Uploads |-> IF upload[u].pc \in {"copy", "meta", "write", "rename"}
                                  THEN [upload[u] EXCEPT !.pc = "lost"] ELSE upload[u]]
  /\ read' = [r \in Reads |-> IF read[r].pc \in {"meta", "open"}
                              THEN [read[r] EXCEPT !.pc = "lost"] ELSE read[r]]
  /\ UNCHANGED <<diskVars, stored>>

Put(u) == \E ok \in BOOLEAN : \/ \E c \in Contents : PutStart(u, c, ok)
                              \/ PutCopy(u, ok) \/ PutTruncate(u, ok)
                              \/ PutWrite(u, ok) \/ PutRename(u, ok)

Get(r) == \/ \E c \in Contents, conditional \in BOOLEAN : GetStart(r, c, conditional)
          \/ \E ok \in BOOLEAN : GetMeta(r, ok) \/ GetOpen(r, ok)

Next == (\E u \in Uploads : Put(u)) \/ (\E r \in Reads : Get(r)) \/ Crash

Spec == Init /\ [][Next]_vars

-----------------------------------------------------------------------------
Working == {"copy", "meta", "write", "rename"}

(* Files, uploads and reads are well formed; what is written has a hash.   *)
TypeOK ==
  /\ object \in [Contents -> {"none", "partial", "full"}]
  /\ meta \in [Contents -> {"none", "empty", "full"}]
  /\ temps \subseteq Uploads
  /\ upload \in [Uploads -> [pc : Working \union {"idle", "201", "413", "415", "500", "lost"},
                             sent : Contents \union {None}, hashed : Contents \union {None},
                             left : BOOLEAN]]
  /\ \A u \in Uploads :
       upload[u].pc \in {"meta", "write", "rename", "201"} => upload[u].hashed # None
  /\ read \in [Reads -> [pc : {"idle", "meta", "open", "200", "304", "404", "500",
                               "short", "lost"},
                         of : Contents \union {None}, known : BOOLEAN, calm : BOOLEAN,
                         failed : BOOLEAN]]
  /\ stored \subseteq Contents /\ cut \subseteq Contents
  /\ crashes \in 0..MaxCrashes

(* What was once answered 201 can be read for ever, through failures and   *)
(* uploads of the same bytes, unless its metadata is just being rewritten  *)
(* or a rewrite was cut short; then the next upload repairs it.            *)
StoredStaysReadable ==
  \A c \in stored : /\ object[c] = "full"
                    /\ (Rewriting(c) \/ c \in cut) \/ meta[c] = "full"

(* A read that began after the 201 fails only by a file operation of its   *)
(* own or by a rewrite it met; it never gets a half-written object, and it *)
(* is never told that there is none, also when an operation fails (Put's   *)
(* comment, and the edge cache's trust).                                   *)
ReadsSeeStored ==
  \A r \in Reads :
    /\ read[r].pc # "short"
    /\ read[r].known => read[r].pc # "404"
    /\ (read[r].known /\ read[r].calm /\ ~read[r].failed) => read[r].pc # "500"

(* An upload is answered 201 only for the bytes that were sent, all of     *)
(* them and not one over the cap.                                          *)
StoredAsSent ==
  \A u \in Uploads : upload[u].pc = "201" =>
    upload[u].hashed = upload[u].sent /\ Size[upload[u].sent] <= MaxBytes

(* A temp file goes with its upload, however that ends: only a crash, or a *)
(* Remove that fails, leaves one behind.                                   *)
TempsRemoved ==
  \A u \in temps : upload[u].pc \in Working \union {"lost"} \/ upload[u].left

(* Uploads are well formed, stored as they were sent, and clean up.        *)
MediaInv == TypeOK /\ StoredAsSent /\ TempsRemoved

=============================================================================
