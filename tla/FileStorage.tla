----------------------------- MODULE FileStorage ----------------------------
(***************************************************************************)
(* FileStorageService: what its calls to the bucket do when calls fail,    *)
(* are retried, overlap or stop half-way.  New metadata means a copy to a  *)
(* temporary key, deleting the file, copying it back and deleting the      *)
(* copy: four calls, the file under its key at neither end of the third.   *)
(* What a file holds is left out: it is the file of its key.  Its metadata *)
(* is written to other places than it is read from.                        *)
(***************************************************************************)
EXTENDS Naturals, FiniteSets

CONSTANTS Handlers, Keys, Temps, Updates, MaxRetries, MaxOps, None

ASSUME RetriesAssumption == MaxRetries \in Nat \ {0}
ASSUME BoundAssumption == MaxOps \in Nat
\* A temporary key is nobody's file.
ASSUME TempsAssumption == Temps # {} /\ Keys \cap (Keys \X Temps) = {}

VARIABLES
    bucket,    \* the object at each place, or None
    work,      \* each handler's operation, or None
    signed,    \* the keys that a browser has a good address for, to put a file there
    batch,     \* the batch upload and what its caller was told, or None
    past,      \* of each key: see the properties
    ops

vars == <<bucket, work, signed, batch, past, ops>>

\* The temporary key of a key is the key and the milliseconds of the clock.
Places == Keys \union (Keys \X Temps)
Steps == {"put", "remove", "head", "copyOut", "drop", "copyBack", "dropTemp"}

\* FileMetadata: whose update gave each field, or None where none did.  "category"
\* is any of originalName, entityType, entityId, category, uploadedBy, uploadedAt;
\* the size goes the way of the content type.
Fields == {"category", "contentType", "tags"}
\* The clock's value and the fields given of the updates to come.
ASSUME UpdatesAssumption == Updates \subseteq Temps \X SUBSET Fields
By == Handlers \union {None, "default"}
FileMetadata == [category: By, contentType: By, tags: By]
\* An object: its metadata entries, and its Content-Type header: None as it was
\* uploaded, or S3's default.
Objects == [entries: [category: By, contenttype: By, tags: {None, "[object Object]"}],
            header: {None, "default"}]
Uploaded == [entries |-> [category |-> None, contenttype |-> None, tags |-> None], header |-> None]

Work == [op: {"upload", "delete", "update"}, key: Keys, step: Steps, attempt: 1..MaxRetries,
         temp: Temps, gives: SUBSET Fields, meta: FileMetadata]
Batch == [files: SUBSET Keys, left: SUBSET Handlers, told: {None, "done", "failed"}]

ASSUME NoneAssumption ==
    None \notin Work \union Batch \union Objects \union Handlers \union {"done", "failed", "default"}

Stored(p) == bucket[p] # None
\* listFiles, with a key as the prefix: the file and the copies of it.
listFiles(k) == {p \in {k} \union ({k} \X Temps) : Stored(p)}

\* For the properties: the answered updates of a file, of which only the last that
\* gave the category matters, and what is read of a file that has them.
NoUpdate == [any |-> FALSE, category |-> None]
AndUpdate(u, F, h) == [any |-> TRUE, category |-> IF "category" \in F THEN h ELSE u.category]
Told(u) == [category |-> u.category, contentType |-> IF u.any THEN "default" ELSE None,
            tags |-> None]

Running(k) == {h \in Handlers : work[h] # None /\ work[h].key = k}

Init ==
    /\ bucket = [p \in Places |-> None]
    /\ work = [h \in Handlers |-> None]
    /\ signed = {} /\ batch = None /\ ops = 0
    /\ past = [k \in Keys |-> [used |-> FALSE, stored |-> FALSE, deleted |-> FALSE,
                               gone |-> FALSE, updates |-> NoUpdate, overlapped |-> FALSE,
                               collided |-> FALSE, broken |-> FALSE, littered |-> FALSE,
                               again |-> FALSE]]

Does == ops < MaxOps /\ ops' = ops + 1

Job(op, k, step, t, F) ==
    [op |-> op, key |-> k, step |-> step, attempt |-> 1, temp |-> t, gives |-> F,
     meta |-> [category |-> None, contentType |-> None, tags |-> None]]

\* generateS3Key makes a key that nobody has.
Uploading(k) == Job("upload", k, "put", CHOOSE t \in Temps : TRUE, {})

\* Mutated form: the key is made of the file's name.
UploadFile_NameIsKey(h, k) ==
    /\ Does /\ work[h] = None /\ batch = None
    /\ work' = [work EXCEPT ![h] = Uploading(k)]
    /\ past' = [past EXCEPT ![k].used = TRUE]
    /\ UNCHANGED <<bucket, signed, batch>>

UploadFile(h, k) ==
    /\ Does /\ work[h] = None /\ ~past[k].used
    /\ work' = [work EXCEPT ![h] = Uploading(k)]
    /\ past' = [past EXCEPT ![k].used = TRUE]
    /\ UNCHANGED <<bucket, signed, batch>>

\* One upload per file, all at once.
UploadMultipleFiles(key) ==
    /\ Does /\ batch = None
    /\ \A h \in DOMAIN key : work[h] = None /\ ~past[key[h]].used
    /\ \A g, h \in DOMAIN key : key[g] = key[h] => g = h
    /\ work' = [h \in Handlers |-> IF h \in DOMAIN key THEN Uploading(key[h]) ELSE work[h]]
    /\ past' = [k \in Keys |-> [past[k] EXCEPT !.used = @ \/ \E h \in DOMAIN key : key[h] = k]]
    /\ batch' = [files |-> {key[h] : h \in DOMAIN key}, left |-> DOMAIN key, told |-> None]
    /\ UNCHANGED <<bucket, signed>>

Begin(h, k, w) ==
    /\ Does /\ work[h] = None /\ past[k].stored
    /\ work' = [work EXCEPT ![h] = w]
    /\ past' = [past EXCEPT ![k].overlapped = @ \/ Running(k) # {},
                            ![k].collided = @ \/ \E g \in Running(k) :
                                w.op = "update" /\ work[g].op = "update" /\ work[g].temp = w.temp]
    /\ UNCHANGED <<bucket, signed, batch>>

DeleteFile(h, k) ==
    Begin(h, k, Job("delete", k, "remove", CHOOSE t \in Temps : TRUE, {}))

UpdateFileMetadata(h, k, t, F) == Begin(h, k, Job("update", k, "head", t, F))

\* An address for a browser to put one file at a new key, good for fifteen minutes.
GeneratePresignedUploadUrl(k) ==
    /\ ~past[k].used
    /\ signed' = signed \union {k}
    /\ past' = [past EXCEPT ![k].used = TRUE]
    /\ UNCHANGED <<bucket, work, batch, ops>>

\* The browser puts the file there, and may do so again.
BrowserPuts(k) ==
    /\ Does /\ k \in signed
    /\ bucket' = [bucket EXCEPT ![k] = Uploaded]
    /\ past' = [past EXCEPT ![k].stored = TRUE, ![k].again = @ \/ past[k].stored]
    /\ UNCHANGED <<work, signed, batch>>

FifteenMinutes(k) ==
    /\ k \in signed /\ signed' = signed \ {k}
    /\ UNCHANGED <<bucket, work, batch, past, ops>>

(***************************************************************************)
(* One call to the bucket.                                                 *)
(***************************************************************************)
Temp(w) == <<w.key, w.temp>>

\* NoSuchKey: there is nothing to read at the source.
Refused(w) == \/ w.step \in {"head", "copyOut"} /\ ~Stored(w.key)
              \/ w.step = "copyBack" /\ ~Stored(Temp(w))

\* What is read of an object: the content type from its header, tags from entries
\* "tag-...", which nothing writes.
getFileMetadata(o) == [category |-> o.entries.category, contentType |-> o.header, tags |-> None]

\* What is written: every field under its own name, the tags as String makes them.
prepareS3Metadata(m) ==
    [category |-> m.category, contenttype |-> m.contentType, tags |-> "[object Object]"]

\* Mutated form: the update alone.
Merged_NewOnly(m, F, h) ==
    [category |-> IF "category" \in F THEN h ELSE None,
     contentType |-> IF "contentType" \in F THEN h ELSE None,
     tags |-> IF "tags" \in F THEN h ELSE None]

\* { ...currentMetadata, ...metadata }
Merged(m, F, h) ==
    [category |-> IF "category" \in F THEN h ELSE m.category,
     contentType |-> IF "contentType" \in F THEN h ELSE m.contentType,
     tags |-> IF "tags" \in F THEN h ELSE m.tags]

\* The copy replaces the metadata and is sent no content type.
Replaced(m) == [entries |-> prepareS3Metadata(m), header |-> "default"]

\* Mutated form: the delete is not sent before the answer.
Effect_NotDeleted(w) ==
    CASE w.step = "put" -> [bucket EXCEPT ![w.key] = Uploaded]
      [] w.step = "copyOut" -> [bucket EXCEPT ![Temp(w)] = Replaced(w.meta)]
      [] w.step = "copyBack" -> [bucket EXCEPT ![w.key] = bucket[Temp(w)]]
      [] w.step = "dropTemp" -> [bucket EXCEPT ![Temp(w)] = None]
      [] OTHER -> bucket

\* What a call does to the bucket.  Deleting what is not there succeeds; the copy
\* back is of the copy with all that it has.
Effect(w) ==
    CASE w.step = "put" -> [bucket EXCEPT ![w.key] = Uploaded]
      [] w.step \in {"remove", "drop"} -> [bucket EXCEPT ![w.key] = None]
      [] w.step = "copyOut" -> [bucket EXCEPT ![Temp(w)] = Replaced(w.meta)]
      [] w.step = "copyBack" -> [bucket EXCEPT ![w.key] = bucket[Temp(w)]]
      [] w.step = "dropTemp" -> [bucket EXCEPT ![Temp(w)] = None]
      [] OTHER -> bucket

\* Mutated form: the copy is deleted before it is copied back.
NextStep_TempFirst == [head |-> "copyOut", copyOut |-> "drop", drop |-> "dropTemp", dropTemp |-> "copyBack"]

\* Mutated form: the copy is not copied back.
NextStep_NotBack == [head |-> "copyOut", copyOut |-> "drop"]

\* What follows a call that was answered; an operation's last call has none.
NextStep == [head |-> "copyOut", copyOut |-> "drop", drop |-> "copyBack", copyBack |-> "dropTemp"]

\* Mutated form: the batch waits until every upload has ended (Promise.allSettled).
Tell_AllSettled(h, ok) ==
    batch' = IF batch = None \/ h \notin batch.left THEN batch
             ELSE [batch EXCEPT !.left = @ \ {h},
                                !.told = IF batch.left = {h} THEN "done" ELSE @]

\* uploadMultipleFiles waits with Promise.all: the first failure is the answer,
\* and the other uploads go on.
Tell(h, ok) ==
    batch' = IF batch = None \/ h \notin batch.left THEN batch
             ELSE [batch EXCEPT !.left = @ \ {h},
                                !.told = IF @ # None THEN @
                                         ELSE IF ~ok THEN "failed"
                                         ELSE IF batch.left = {h} THEN "done" ELSE None]

Ends(h) == work' = [work EXCEPT ![h] = None]

Answered(h) ==
    LET w == work[h] IN
    /\ w # None /\ ~Refused(w)
    /\ bucket' = Effect(w)
    /\ IF w.step \in DOMAIN NextStep
       THEN /\ work' = [work EXCEPT ![h].step = NextStep[w.step], ![h].attempt = 1,
                                    ![h].meta = IF w.step = "head"
                                                 THEN Merged(getFileMetadata(bucket[w.key]), w.gives, h)
                                                 ELSE @]
            /\ UNCHANGED <<batch, past>>
       ELSE /\ Ends(h) /\ Tell(h, TRUE)
            /\ past' = [past EXCEPT ![w.key].stored = @ \/ w.op = "upload",
                                    ![w.key].deleted = @ \/ w.op = "delete",
                                    ![w.key].gone = @ \/ w.op = "delete",
                                    ![w.key].updates = IF w.op = "update" THEN AndUpdate(@, w.gives, h)
                                                       ELSE @]
    /\ UNCHANGED <<signed, ops>>

\* Mutated form: it is tried without end.
Retried_Always(w, retryable) == w.step \notin {"head", "copyOut"} /\ retryable

\* executeWithRetry is around every call but the first two of new metadata.
Retried(w, retryable) ==
    w.step \notin {"head", "copyOut"} /\ retryable /\ w.attempt < MaxRetries

\* The operation stops half-way: what it did so far stays.
Stops(w) ==
    past' = [past EXCEPT
        ![w.key].broken = @ \/ w.step \in {"drop", "copyBack", "dropTemp"},
        ![w.key].littered = @ \/ w.step = "copyOut",
        ![w.key].deleted = @ \/ w.op = "delete"]

\* A call fails with an error worth a retry or another, after it took effect or
\* before.  (A call that timed out is taken to have no effect later.)
CallFails(h, retryable, effect) ==
    LET w == work[h] IN
    /\ w # None
    /\ Refused(w) => ~retryable /\ ~effect
    /\ bucket' = IF effect THEN Effect(w) ELSE bucket
    /\ IF Retried(w, retryable)
       THEN /\ work' = [work EXCEPT ![h].attempt = (@ % MaxRetries) + 1]
            /\ UNCHANGED <<batch, past>>
       ELSE Ends(h) /\ Tell(h, FALSE) /\ Stops(w)
    /\ UNCHANGED <<signed, ops>>

\* The function's instance goes away with what it was doing.
Crash(h) ==
    LET inBatch == batch # None /\ h \in batch.left
        down == IF inBatch THEN batch.left ELSE {h} IN
    /\ Does /\ work[h] # None /\ Stops(work[h])
    /\ work' = [g \in Handlers |-> IF g \in down THEN None ELSE work[g]]
    /\ batch' = IF inBatch THEN [batch EXCEPT !.left = {}] ELSE batch
    /\ UNCHANGED <<bucket, signed>>

Next ==
    \/ \E h \in Handlers, k \in Keys : UploadFile(h, k) \/ DeleteFile(h, k)
    \/ \E k \in Keys :
        GeneratePresignedUploadUrl(k) \/ BrowserPuts(k) \/ FifteenMinutes(k)
    \/ \E h \in Handlers, k \in Keys, u \in Updates : UpdateFileMetadata(h, k, u[1], u[2])
    \/ \E S \in SUBSET Handlers : S # {} /\ \E key \in [S -> Keys] : UploadMultipleFiles(key)
    \/ \E h \in Handlers : Answered(h) \/ Crash(h)
    \/ \E h \in Handlers, r, e \in BOOLEAN : CallFails(h, r, e)

\* Every call is answered or fails in the end.
Fairness == \A h \in Handlers :
    WF_vars(Answered(h) \/ \E r, e \in BOOLEAN : CallFails(h, r, e))

Spec == Init /\ [][Next]_vars /\ Fairness

(***************************************************************************)
(* Properties.                                                             *)
(***************************************************************************)
TypeOK ==
    /\ bucket \in [Places -> Objects \union {None}]
    /\ work \in [Handlers -> Work \union {None}]
    /\ ops \in 0..MaxOps /\ signed \subseteq Keys
    /\ batch \in Batch \union {None}
    /\ \A h \in Handlers : work[h] # None /\ work[h].op = "upload" => ~past[work[h].key].stored

Deleting(k) == \E h \in Running(k) : work[h].op = "delete"

\* A file that was uploaded, and that nobody deletes, is somewhere in the bucket:
\* whichever call for new metadata fails, whichever handler is lost and however
\* two of them overlap, unless these two took the same temporary key.
FileSurvives ==
    \A k \in Keys :
        past[k].stored /\ ~past[k].deleted /\ ~Deleting(k) /\ ~past[k].collided =>
            listFiles(k) # {}

\* It is under its key once nobody works on it, unless new metadata stopped after
\* the first copy: no upload, delete of something else or failed check moves it.
FileIsUnderItsKey ==
    \A k \in Keys :
        past[k].stored /\ ~past[k].deleted /\ ~past[k].broken /\ Running(k) = {} => Stored(k)

\* Once nobody works on it, what is read of a file's category (and of its names,
\* its entity, its uploader and date) is what the last answered update to give one
\* gave, through every later update that gave none; the content type is the
\* upload's until the first update and S3's default from then on, and what updates
\* gave of it and of the tags is read no more.  No copy is left.  Not so when
\* operations overlapped or stopped half-way, or a browser used its address again.
UpdatesAreKept ==
    \A k \in Keys :
        LET x == past[k] IN
        /\ x.stored /\ ~x.deleted /\ ~x.overlapped /\ ~x.broken /\ ~x.littered /\ ~x.again
        /\ Running(k) = {}
        => listFiles(k) = {k} /\ getFileMetadata(bucket[k]) = Told(x.updates)

\* What was deleted stays away, unless an update ran beside the delete, which can
\* bring the file back, or one that stopped half-way had left a copy, or a
\* browser used its address again.
DeletedStaysAway ==
    \A k \in Keys :
        past[k].gone /\ ~past[k].overlapped /\ ~past[k].broken
                /\ ~past[k].littered /\ ~past[k].again =>
            listFiles(k) = {}

\* A batch that was answered with success has stored every one of its files.
BatchIsWhole ==
    batch # None /\ batch.told = "done" => \A k \in batch.files : past[k].stored

\* Files are kept, found, up to date and gone as their users were told.
FilesAreKept ==
    /\ TypeOK /\ FileSurvives /\ FileIsUnderItsKey
    /\ UpdatesAreKept /\ DeletedStaysAway /\ BatchIsWhole

\* Every operation ends, in success or in failure, however its calls fail.
EveryOperationEnds == \A h \in Handlers : work[h] # None ~> work[h] = None
=============================================================================
