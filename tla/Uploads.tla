------------------------------- MODULE Uploads ------------------------------
(***************************************************************************)
(* The files of one task and their objects in the storage: uploading       *)
(* several contents in one request, replacing and deleting a file.         *)
(*                                                                         *)
(* No transaction spans the database and the storage.  A handler stores    *)
(* the objects first, under keys nobody else knows, then writes the rows,  *)
(* and removes the objects that no row of its own names, or that its row   *)
(* named when it began.  A content stands for its sha256, which is unique  *)
(* in the task, deleted rows included.  A row is known by the key that it  *)
(* was inserted with.                                                      *)
(*                                                                         *)
(* A transaction reads (Begin...) and then writes (Commit...) the columns  *)
(* that it changed.  With SerialStore transactions do not overlap.  What   *)
(* happens to the parsing of a file is in FileParse.                       *)
(***************************************************************************)
EXTENDS Integers, Sequences

CONSTANTS
  Contents,     \* contents that are uploaded
  MaxUpload,    \* bound on the contents of one request
  MaxKeys,      \* bound on the storage keys there ever are
  Threads,      \* API threads
  MaxFaults,    \* bound on storage errors and crashes
  SerialStore,  \* whether transactions are serializable
  None          \* no request, no object

VARIABLES
  files,    \* files[i]: the task_file row inserted with key i, or None
  objects,  \* objects[k]: the content stored under key k, or None
  keys,     \* storage keys given out so far
  work,     \* work[t]: the request that t is serving
  faults    \* storage errors and crashes so far

vars == <<files, objects, keys, work, faults>>

Keys == 1..MaxKeys

\* "parsed" stands for every status of a file that is neither new nor deleted.
File == [content : Contents, key : Keys, status : {"uploaded", "parsed", "deleted"}]

TypeOK ==
  /\ files \in [Keys -> File \cup {None}]
  /\ objects \in [Keys -> Contents \cup {None}]
  /\ keys \in 0..MaxKeys
  /\ DOMAIN work = Threads
  /\ faults \in 0..MaxFaults

Nothing == [k \in Keys |-> None]

Init ==
  /\ files = Nothing
  /\ objects = Nothing
  /\ keys = 0
  /\ work = [t \in Threads |-> None]
  /\ faults = 0

Rows == {i \in Keys : files[i] # None}

Live(i) == i \in Rows /\ files[i].status # "deleted"

Serves(t, op) == work[t] # None /\ work[t].op = op

Done(t) == work' = [work EXCEPT ![t] = None]

\* A statement waits for the transactions of the others to end.
Isolated(t) ==
  SerialStore => \A u \in Threads \ {t} :
    \A op \in {"adding", "replacing", "deleting"} : ~Serves(u, op)

\* Store content under a fresh key.
Put(content) ==
  /\ keys < MaxKeys
  /\ keys' = keys + 1
  /\ objects' = [objects EXCEPT ![keys + 1] = content]

-----------------------------------------------------------------------------
(* Upload.                                                                 *)

\* A request names its contents in some order, the same one twice if it likes.
BeginUpload(t, contents) ==
  /\ work[t] = None
  /\ work' = [work EXCEPT ![t] = [op |-> "upload", todo |-> contents, put |-> Nothing]]
  /\ UNCHANGED <<files, objects, keys, faults>>

PutObject(t) ==
  /\ Serves(t, "upload") /\ work[t].todo # <<>>
  /\ Put(Head(work[t].todo))
  /\ work' = [work EXCEPT
       ![t].todo = Tail(@),
       ![t].put[keys + 1] = Head(work[t].todo)]
  /\ UNCHANGED <<files, faults>>

KeysOf(put) == {k \in Keys : put[k] # None}

Drop(t, dropped) == work' = [work EXCEPT ![t] = [op |-> "drop", todo |-> dropped]]

\* A content that is too long, or that the storage does not take: what was
\* stored before it is removed again.
RefuseContent(t) ==
  /\ Serves(t, "upload") /\ work[t].todo # <<>>
  /\ Drop(t, KeysOf(work[t].put))
  /\ UNCHANGED <<files, objects, keys, faults>>

\* The rows there are for the contents, whatever their status.
BeginAdd(t) ==
  /\ Serves(t, "upload") /\ work[t].todo = <<>>
  /\ Isolated(t)
  /\ work' = [work EXCEPT ![t] =
       [op |-> "adding", put |-> work[t].put, known |-> {files[i].content : i \in Rows}]]
  /\ UNCHANGED <<files, objects, keys, faults>>

\* The first occurrence of a content without a row gets one.
Inserted(put, known) ==
  {k \in KeysOf(put) : put[k] \notin known /\ \A j \in 1..(k - 1) : put[j] # put[k]}

Added(t) == Inserted(work[t].put, work[t].known)

\* Mutant of Unreferenced: every object is kept only if every content is new.
AllOrNone(t) ==
  IF Added(t) = KeysOf(work[t].put) THEN {} ELSE KeysOf(work[t].put)

Unreferenced(t) == KeysOf(work[t].put) \ Added(t)

CommitAdd(t) ==
  /\ Serves(t, "adding")
  /\ IF \E k \in Added(t), i \in Rows : work[t].put[k] = files[i].content
     THEN /\ Drop(t, KeysOf(work[t].put))
          /\ UNCHANGED files
     ELSE /\ files' = [i \in Keys |->
               IF i \in Added(t)
               THEN [content |-> work[t].put[i], key |-> i, status |-> "uploaded"]
               ELSE files[i]]
          /\ Drop(t, Unreferenced(t))
  /\ UNCHANGED <<objects, keys, faults>>

\* Objects are removed one after the other.
RemoveObject(t, k) ==
  /\ Serves(t, "drop") /\ k \in work[t].todo
  /\ objects' = [objects EXCEPT ![k] = None]
  /\ work' = [work EXCEPT ![t].todo = @ \ {k}]
  /\ UNCHANGED <<files, keys, faults>>

Respond(t) ==
  /\ Serves(t, "drop") /\ work[t].todo = {}
  /\ Done(t)
  /\ UNCHANGED <<files, objects, keys, faults>>

-----------------------------------------------------------------------------
(* Replacing and deleting a file.                                          *)

\* The handler keeps the file as it is now, and stores the new content.
BeginReplace(t, i, content) ==
  /\ work[t] = None
  /\ Live(i)
  /\ Put(content)
  /\ work' = [work EXCEPT ![t] =
       [op |-> "replace", file |-> i, old |-> files[i].key, content |-> content, key |-> keys + 1]]
  /\ UNCHANGED <<files, faults>>

\* The row is read again: it may be deleted by now, and another file may have
\* the same content.
ReadReplaced(t) ==
  /\ Serves(t, "replace")
  /\ Isolated(t)
  /\ LET i == work[t].file
         duplicate == \E j \in Rows \ {i} : Live(j) /\ files[j].content = work[t].content IN
       IF ~Live(i) \/ duplicate
       THEN Drop(t, {work[t].key})
       ELSE work' = [work EXCEPT ![t] =
              [op |-> "replacing", file |-> i, old |-> work[t].old, content |-> work[t].content,
               key |-> work[t].key, read |-> files[i]]]
  /\ UNCHANGED <<files, objects, keys, faults>>

\* The columns that x sets to something else than it has read.
Written(row, x) ==
  [content |-> IF x.content = x.read.content THEN row.content ELSE x.content,
   key |-> x.key,
   status |-> IF x.read.status = "uploaded" THEN row.status ELSE "uploaded"]

Replaced(t) == work[t].old

\* A content that another row has got meanwhile, or a deleted one has, is
\* refused by the unique constraint, and the error leaves the new object.
CommitReplace(t) ==
  /\ Serves(t, "replacing")
  /\ LET x == work[t] IN
       IF \E j \in Rows \ {x.file} : files[j].content = Written(files[x.file], x).content
       THEN Done(t) /\ UNCHANGED files
       ELSE /\ files' = [files EXCEPT ![x.file] = Written(@, x)]
            /\ Drop(t, {Replaced(t)})
  /\ UNCHANGED <<objects, keys, faults>>

BeginDelete(t, i) ==
  /\ work[t] = None
  /\ Isolated(t)
  /\ Live(i)
  /\ work' = [work EXCEPT ![t] = [op |-> "deleting", file |-> i]]
  /\ UNCHANGED <<files, objects, keys, faults>>

\* The object of a deleted file stays.
CommitDelete(t) ==
  /\ Serves(t, "deleting")
  /\ files' = [files EXCEPT ![work[t].file].status = "deleted"]
  /\ Done(t)
  /\ UNCHANGED <<objects, keys, faults>>

-----------------------------------------------------------------------------
(* The rest of the system.                                                 *)

\* A parse job writes the status.
Parse(i) ==
  /\ files[i].status = "uploaded"
  /\ files' = [files EXCEPT ![i].status = "parsed"]
  /\ UNCHANGED <<objects, keys, work, faults>>

\* The storage fails, or the process dies: what was begun stays as it is.
Crash(t) ==
  /\ work[t] # None
  /\ faults < MaxFaults
  /\ faults' = faults + 1
  /\ Done(t)
  /\ UNCHANGED <<files, objects, keys>>

Uploaded == UNION {[1..n -> Contents] : n \in 1..MaxUpload}

Next ==
  \/ \E i \in Rows : Parse(i)
  \/ \E t \in Threads :
       \/ \E contents \in Uploaded : BeginUpload(t, contents)
       \/ PutObject(t)
       \/ RefuseContent(t)
       \/ BeginAdd(t)
       \/ CommitAdd(t)
       \/ \E k \in Keys : RemoveObject(t, k)
       \/ Respond(t)
       \/ \E i \in Rows, content \in Contents : BeginReplace(t, i, content)
       \/ ReadReplaced(t)
       \/ CommitReplace(t)
       \/ \E i \in Rows : BeginDelete(t, i)
       \/ CommitDelete(t)
       \/ Crash(t)

Spec == Init /\ [][Next]_vars

-----------------------------------------------------------------------------
(* Properties.                                                             *)

\* Every row, deleted ones included, names an object that is still stored,
\* whatever uploads, replacements and deletions overlap and wherever they stop.
StoredFilesExist == \A i \in Rows : objects[files[i].key] # None

\* The object is the content whose hash the row has: refuted without
\* SerialStore, where a replacement by the same content does not write the hash
\* and another one may change it in between.
StoredContent == \A i \in Rows : objects[files[i].key] \in {None, files[i].content}

\* A request that ends without a fault has a file for each of its contents:
\* refuted, because a deleted row of the content counts.
UploadsKept ==
  [][\A t \in Threads :
       Serves(t, "adding") /\ files' # files =>
         \A k \in KeysOf(work[t].put) : \E i \in Rows' :
           files'[i].content = work[t].put[k] /\ files'[i].status # "deleted"]_vars
=============================================================================
