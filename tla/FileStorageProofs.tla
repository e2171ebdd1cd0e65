------------------------- MODULE FileStorageProofs --------------------------
(***************************************************************************)
(* Proofs about FileStorage for any files, handlers, clock values, number  *)
(* of retries and of operations.  What is known of a file is said of the   *)
(* file alone (KeyInv), so that a step on one file leaves every other as   *)
(* it was.  A call that is answered is the call, which keeps KeyInv while  *)
(* its operation still waits (CallKeeps), and the answer (AnswerKeeps); a  *)
(* call that fails is the call or nothing, and another attempt (Untouched) *)
(* or the end of the operation (StopKeeps).                                *)
(***************************************************************************)
EXTENDS FileStorage, TLAPS

\* What is known of the file k: of the bucket b, the work w, what happened to the
\* file x, and the keys S that browsers have an address for.
At(w, h, k) == w[h] # None /\ w[h].key = k
In(w, h, k, steps) == At(w, h, k) /\ w[h].step \in steps
Copy(k, t) == <<k, t>>
Full(b, p) == b[p] # None
Deletes(w, k) == \E h \in Handlers : At(w, h, k) /\ w[h].op = "delete"

\* Who may be at work on a key.
Ours(w, x, S, k) ==
    /\ x.stored \/ k \in S => x.used
    /\ x.deleted \/ x.gone => x.stored
    /\ ~x.stored => x.updates = NoUpdate
    /\ \A h \in Handlers : At(w, h, k) =>
        IF w[h].op = "upload"
        THEN x.used /\ ~x.stored /\ k \notin S /\ \A g \in Handlers : At(w, g, k) => g = h
        ELSE x.stored

\* Updates that did not take the same temporary key.
Apart(w, x, k) ==
    ~x.collided =>
        \A g, h \in Handlers :
            At(w, g, k) /\ At(w, h, k) /\ w[g].op = "update" /\ w[h].op = "update" /\ g # h =>
                w[g].temp # w[h].temp

\* The copy is there until the file is back under its key.
CopyThere(b, w, x, k) ==
    ~x.collided =>
        \A h \in Handlers : In(w, h, k, {"drop", "copyBack"}) => Full(b, Copy(k, w[h].temp))

\* The file is under its key, or there is a copy that nobody is deleting.
Somewhere(b, w, x, k) ==
    x.stored /\ ~x.deleted /\ ~x.collided /\ ~Deletes(w, k) =>
        \/ Full(b, k)
        \/ \E t \in Temps : /\ Full(b, Copy(k, t))
                            /\ \A h \in Handlers : In(w, h, k, {"dropTemp"}) => w[h].temp # t

\* The file is under its key, or an update is about to put it back.
OnItsWay(b, w, x, k) ==
    x.stored /\ ~x.deleted /\ ~x.broken /\ ~Deletes(w, k) =>
        Full(b, k) \/ \E h \in Handlers : In(w, h, k, {"drop", "copyBack"})

Alone(w, x, k) ==
    ~x.overlapped => \A g, h \in Handlers : At(w, g, k) /\ At(w, h, k) => g = h

\* A copy is an update's that is still running.
Clean(b, w, x, k) ==
    ~x.broken /\ ~x.littered =>
        \A t \in Temps : Full(b, Copy(k, t)) =>
            \E h \in Handlers :
                In(w, h, k, {"copyOut", "drop", "copyBack", "dropTemp"}) /\ w[h].temp = t

Calm(x) == ~x.overlapped /\ ~x.broken /\ ~x.littered /\ ~x.again

\* There is an object, and what is read of it is what the answered updates u make.
Says(o, u) == o # None /\ getFileMetadata(o) = Told(u)

\* The file at rest, and at each step of an update, has what was answered.
Kept(b, w, x, k) ==
    x.stored /\ ~x.deleted /\ Calm(x) /\ ~Deletes(w, k) =>
        /\ (\A h \in Handlers : ~At(w, h, k)) => Says(b[k], x.updates)
        /\ \A h \in Handlers : At(w, h, k) =>
            /\ w[h].step \in {"head", "copyOut"} => Says(b[k], x.updates)
            /\ w[h].step = "copyOut" => w[h].meta = Merged(Told(x.updates), w[h].gives, h)
            /\ w[h].step \in {"drop", "copyBack"} =>
                Says(b[Copy(k, w[h].temp)], AndUpdate(x.updates, w[h].gives, h))
            /\ w[h].step = "dropTemp" => Says(b[k], AndUpdate(x.updates, w[h].gives, h))

\* A deleted file is not there, and what runs finds nothing.
GoneNow(b, w, x, k) ==
    x.gone /\ Calm(x) =>
        ~Full(b, k) /\ \A h \in Handlers : At(w, h, k) => w[h].step \in {"head", "remove"}

KeyInv(b, w, x, S, k) ==
    /\ Ours(w, x, S, k) /\ Apart(w, x, k) /\ CopyThere(b, w, x, k)
    /\ Somewhere(b, w, x, k) /\ OnItsWay(b, w, x, k) /\ Alone(w, x, k)
    /\ Clean(b, w, x, k) /\ Kept(b, w, x, k) /\ GoneNow(b, w, x, k)

\* The batch waits for the uploads that are left.
BatchInv ==
    batch # None =>
        /\ \A h \in batch.left :
            work[h] # None /\ work[h].op = "upload" /\ work[h].key \in batch.files
        /\ batch.told = "done" => \A k \in batch.files : past[k].stored
        /\ batch.told = None /\ batch.left # {} =>
            \A k \in batch.files : past[k].stored \/ \E h \in batch.left : work[h].key = k

\* The step is one of its operation's.
Fits(w) ==
    CASE w.op = "upload" -> w.step = "put"
      [] w.op = "delete" -> w.step = "remove"
      [] OTHER -> w.step \in {"head", "copyOut", "drop", "copyBack", "dropTemp"}

Tallies == [any: BOOLEAN, category: Handlers \union {None, "default"}]
Pasts == [used: BOOLEAN, stored: BOOLEAN, deleted: BOOLEAN, gone: BOOLEAN,
          updates: Tallies, overlapped: BOOLEAN, collided: BOOLEAN,
          broken: BOOLEAN, littered: BOOLEAN, again: BOOLEAN]

Jobs == {w \in Work : Fits(w)}
Types ==
    /\ bucket \in [Places -> Objects \union {None}]
    /\ work \in [Handlers -> Jobs \union {None}]
    /\ ops \in 0..MaxOps
    /\ signed \in SUBSET Keys
    /\ batch \in Batch \union {None}
    /\ past \in [Keys -> Pasts]

\* The inductive invariant.
IInv ==
    /\ Types
    /\ \A k \in Keys : KeyInv(bucket, work, past[k], signed, k)
    /\ BatchInv

-----------------------------------------------------------------------------
Buckets == [Places -> Objects \union {None}]
Works == [Handlers -> Jobs \union {None}]

\* A file and its copies are at places of their own.
LEMMA PlacesApart ==
    ASSUME NEW j \in Keys, NEW k \in Keys, NEW t \in Temps, NEW u \in Temps
    PROVE  /\ k \in Places /\ Copy(k, t) \in Places
           /\ Copy(k, t) # j
           /\ Copy(k, t) = Copy(j, u) <=> k = j /\ t = u
BY TempsAssumption DEF Copy, Places

\* What a job consists of.
LEMMA JobsHaveFields ==
    ASSUME NEW w \in Jobs
    PROVE  /\ w # None /\ w \in Work /\ w.key \in Keys /\ w.temp \in Temps
           /\ w.meta \in FileMetadata /\ w.gives \in SUBSET Fields
           /\ \/ w.op = "upload" /\ w.step = "put"
              \/ w.op = "delete" /\ w.step = "remove"
              \/ /\ w.op = "update"
                 /\ w.step \in {"head", "copyOut", "drop", "copyBack", "dropTemp"}
<1>1. w \in Work /\ Fits(w)
    BY DEF Jobs
<1>2. w # None
    BY <1>1, NoneAssumption
<1>3. /\ w.key \in Keys /\ w.temp \in Temps /\ w.meta \in FileMetadata /\ w.gives \in SUBSET Fields
      /\ w.op \in {"upload", "delete", "update"}
    BY <1>1 DEF Work
<1> QED
    BY <1>1, <1>2, <1>3 DEF Fits

\* Objects and metadata are what they should be.
LEMMA ObjectsAreThere ==
    /\ \A o \in Objects : o # None /\ getFileMetadata(o) \in FileMetadata
    /\ Uploaded \in Objects /\ \A m \in FileMetadata : Replaced(m) \in Objects
<1>1. \A o \in Objects : o # None
    BY NoneAssumption
<1>2. ASSUME NEW o \in Objects
      PROVE  getFileMetadata(o) \in FileMetadata
    BY DEF Objects, FileMetadata, getFileMetadata, By
<1>3. Uploaded \in Objects
    BY DEF Uploaded, Objects, By
<1>4. ASSUME NEW m \in FileMetadata
      PROVE  Replaced(m) \in Objects
    BY DEF FileMetadata, Objects, Replaced, prepareS3Metadata, By
<1> QED
    BY <1>1, <1>2, <1>3, <1>4

\* An update's metadata is metadata.
LEMMA MergedIsMetadata ==
    ASSUME NEW m \in FileMetadata, NEW F \in SUBSET Fields, NEW h \in Handlers
    PROVE  Merged(m, F, h) \in FileMetadata
BY DEF FileMetadata, Merged, By

\* The conversions: an upload says that there was no update; the copy that an
\* update makes says what it was given and what the file said, but for the content
\* type and the tags.
LEMMA ReplacedSays ==
    /\ Says(Uploaded, NoUpdate)
    /\ \A u \in Tallies, F \in SUBSET Fields, h \in Handlers :
        Says(Replaced(Merged(Told(u), F, h)), AndUpdate(u, F, h))
<1>1. Says(Uploaded, NoUpdate)
    BY ObjectsAreThere DEF Says, Uploaded, NoUpdate, Told, getFileMetadata
<1>2. ASSUME NEW u \in Tallies, NEW F \in SUBSET Fields, NEW h \in Handlers
      PROVE  Says(Replaced(Merged(Told(u), F, h)), AndUpdate(u, F, h))
    <2>1. Told(u) \in FileMetadata
        BY DEF Tallies, Told, FileMetadata, By
    <2>2. Replaced(Merged(Told(u), F, h)) # None
        BY <2>1, MergedIsMetadata, ObjectsAreThere
    <2>3. getFileMetadata(Replaced(Merged(Told(u), F, h))) = Told(AndUpdate(u, F, h))
        BY DEF Told, AndUpdate, Merged, Replaced, prepareS3Metadata, getFileMetadata
    <2> QED
        BY <2>2, <2>3 DEF Says
<1> QED
    BY <1>1, <1>2

\* What a handler at work on a file has.
LEMMA WorkHasFields ==
    ASSUME NEW w \in Works, NEW h \in Handlers, NEW k \in Keys, At(w, h, k)
    PROVE  /\ w[h] \in Jobs /\ w[h].key = k /\ w[h].temp \in Temps
           /\ w[h].meta \in FileMetadata /\ w[h].gives \in SUBSET Fields
           /\ \/ w[h].op = "upload" /\ w[h].step = "put"
              \/ w[h].op = "delete" /\ w[h].step = "remove"
              \/ /\ w[h].op = "update"
                 /\ w[h].step \in {"head", "copyOut", "drop", "copyBack", "dropTemp"}
BY JobsHaveFields DEF At, Works

-----------------------------------------------------------------------------
(* One call and its answer. *)

\* What the call of h makes of the file k and its copies: c, of what was b.
Call(b, c, w, h, k) ==
    /\ c[k] = CASE w[h].step = "put" -> Uploaded
                [] w[h].step \in {"remove", "drop"} -> None
                [] w[h].step = "copyBack" -> b[Copy(k, w[h].temp)]
                [] OTHER -> b[k]
    /\ \A t \in Temps :
        c[Copy(k, t)] = IF t # w[h].temp THEN b[Copy(k, t)]
                        ELSE CASE w[h].step = "copyOut" -> Replaced(w[h].meta)
                               [] w[h].step = "dropTemp" -> None
                               [] OTHER -> b[Copy(k, t)]

\* There is something to read where the call reads.
Found(b, w, h, k) ==
    /\ w[h].step \in {"head", "copyOut"} => Full(b, k)
    /\ w[h].step = "copyBack" => Full(b, Copy(k, w[h].temp))

\* A call on the file leaves what is known of it.
LEMMA CallKeeps ==
    ASSUME NEW b \in Buckets, NEW c \in Buckets, NEW w \in Works, NEW x \in Pasts,
           NEW S \in SUBSET Keys, NEW k \in Keys, NEW h \in Handlers,
           KeyInv(b, w, x, S, k), At(w, h, k), Found(b, w, h, k), Call(b, c, w, h, k)
    PROVE  KeyInv(c, w, x, S, k)
<1> DEFINE s == w[h].step
           temp == w[h].temp
<1>0. /\ \A g \in Handlers : At(w, g, k) => w[g].temp \in Temps
      /\ temp \in Temps
      /\ \/ w[h].op = "upload" /\ s = "put"
         \/ w[h].op = "delete" /\ s = "remove"
         \/ w[h].op = "update" /\ s \in {"head", "copyOut", "drop", "copyBack", "dropTemp"}
    BY WorkHasFields
<1>1. CASE s = "put"
    <2>1. ~x.stored /\ ~x.gone /\ \A g \in Handlers : At(w, g, k) => g = h
        BY <1>0, <1>1 DEF KeyInv, Ours, Pasts
    <2>2. \A t \in Temps : c[Copy(k, t)] = b[Copy(k, t)]
        BY <1>1 DEF Call
    <2> QED
        BY <1>1, <2>1, <2>2 DEF KeyInv, Ours, Apart, CopyThere, Somewhere, OnItsWay, Alone,
            Clean, Kept, GoneNow, Full, In
<1>2. CASE s = "remove"
    <2>1. Deletes(w, k) /\ c[k] = None /\ \A t \in Temps : c[Copy(k, t)] = b[Copy(k, t)]
        BY <1>0, <1>2 DEF Deletes, Call
    <2> QED
        BY <1>0, <1>2, <2>1 DEF KeyInv, Ours, Apart, CopyThere, Somewhere, OnItsWay, Alone,
            Clean, Kept, GoneNow, Full, In
<1>3. CASE s = "head"
    <2>1. c[k] = b[k] /\ \A t \in Temps : c[Copy(k, t)] = b[Copy(k, t)]
        BY <1>3 DEF Call
    <2> QED
        BY <1>0, <2>1 DEF KeyInv, Ours, Apart, CopyThere, Somewhere, OnItsWay, Alone,
            Clean, Kept, GoneNow, Full, In
<1>4. CASE s = "copyOut"
    <2>1. /\ c[k] = b[k] /\ Full(c, Copy(k, temp))
          /\ \A t \in Temps : t # temp => c[Copy(k, t)] = b[Copy(k, t)]
        <3>1. Replaced(w[h].meta) # None
            BY WorkHasFields, ObjectsAreThere
        <3> QED
            BY <1>0, <1>4, <3>1 DEF Call, Full
    <2>2. CopyThere(c, w, x, k)
        BY <1>0, <2>1 DEF KeyInv, CopyThere, Full, In
    <2>3. Somewhere(c, w, x, k)
        BY <1>0, <2>1 DEF KeyInv, Somewhere, Full, In
    <2>4. Clean(c, w, x, k)
        BY <1>0, <1>4, <2>1 DEF KeyInv, Clean, Full, In
    <2>5. Kept(c, w, x, k)
        BY <1>0, <1>4, <2>1 DEF KeyInv, Kept, In, Alone, Calm
    <2>6. GoneNow(c, w, x, k) /\ OnItsWay(c, w, x, k)
        BY <2>1 DEF KeyInv, GoneNow, OnItsWay, Full
    <2> QED
        BY <2>2, <2>3, <2>4, <2>5, <2>6 DEF KeyInv, Ours, Apart, Alone
<1>5. CASE s = "drop"
    <2>1. c[k] = None /\ \A t \in Temps : c[Copy(k, t)] = b[Copy(k, t)]
        BY <1>5 DEF Call
    <2>2. CopyThere(c, w, x, k)
        BY <1>0, <2>1 DEF KeyInv, CopyThere, Full, In
    <2>3. Somewhere(c, w, x, k)
        <3> SUFFICES ASSUME ~x.collided
                     PROVE  /\ Full(c, Copy(k, temp))
                            /\ \A g \in Handlers : In(w, g, k, {"dropTemp"}) => w[g].temp # temp
            BY <1>0 DEF Somewhere
        <3>1. Full(c, Copy(k, temp))
            BY <1>0, <1>5, <2>2 DEF CopyThere, In
        <3>2. ASSUME NEW g \in Handlers, In(w, g, k, {"dropTemp"})
              PROVE  w[g].temp # temp
            <4>1. w[g].op = "update" /\ g # h
                BY <1>5, <3>2, WorkHasFields DEF In
            <4> QED
                BY <1>0, <1>5, <3>2, <4>1 DEF KeyInv, Apart, In
        <3> QED
            BY <3>1, <3>2
    <2>4. OnItsWay(c, w, x, k)
        BY <1>5 DEF OnItsWay, In
    <2>5. Kept(c, w, x, k)
        BY <1>0, <1>5, <2>1 DEF KeyInv, Kept, In, Alone, Calm
    <2>6. GoneNow(c, w, x, k) /\ Clean(c, w, x, k)
        BY <2>1 DEF KeyInv, GoneNow, Clean, Full
    <2> QED
        BY <2>2, <2>3, <2>4, <2>5, <2>6 DEF KeyInv, Ours, Apart, Alone
<1>6. CASE s = "copyBack"
    <2>1. /\ c[k] = b[Copy(k, temp)] /\ Full(c, k)
          /\ \A t \in Temps : c[Copy(k, t)] = b[Copy(k, t)]
        BY <1>6 DEF Call, Found, Full
    <2>2. CopyThere(c, w, x, k) /\ Somewhere(c, w, x, k) /\ OnItsWay(c, w, x, k)
        BY <1>0, <2>1 DEF KeyInv, CopyThere, Somewhere, OnItsWay, Full, In
    <2>3. Kept(c, w, x, k)
        BY <1>0, <1>6, <2>1 DEF KeyInv, Kept, In, Alone, Calm
    <2>4. GoneNow(c, w, x, k)
        BY <1>6 DEF KeyInv, GoneNow
    <2>5. Clean(c, w, x, k)
        BY <2>1 DEF KeyInv, Clean, Full
    <2> QED
        BY <2>2, <2>3, <2>4, <2>5 DEF KeyInv, Ours, Apart, Alone
<1>7. CASE s = "dropTemp"
    <2>1. /\ c[k] = b[k] /\ ~Full(c, Copy(k, temp))
          /\ \A t \in Temps : t # temp => c[Copy(k, t)] = b[Copy(k, t)]
        BY <1>0, <1>7 DEF Call, Full
    <2>2. CopyThere(c, w, x, k)
        <3> SUFFICES ASSUME ~x.collided, NEW g \in Handlers, In(w, g, k, {"drop", "copyBack"})
                     PROVE  Full(c, Copy(k, w[g].temp))
            BY DEF CopyThere
        <3>1. w[g].op = "update" /\ g # h /\ w[g].temp \in Temps
            BY <1>7, WorkHasFields DEF In
        <3>2. w[g].temp # temp
            BY <1>0, <1>7, <3>1 DEF KeyInv, Apart, In
        <3> QED
            BY <2>1, <3>1, <3>2 DEF KeyInv, CopyThere, Full
    <2>3. Somewhere(c, w, x, k)
        BY <1>0, <1>7, <2>1 DEF KeyInv, Somewhere, Full, In
    <2>4. Clean(c, w, x, k)
        BY <2>1 DEF KeyInv, Clean, Full
    <2>5. Kept(c, w, x, k)
        BY <1>0, <1>7, <2>1 DEF KeyInv, Kept, In, Alone, Calm
    <2>6. GoneNow(c, w, x, k) /\ OnItsWay(c, w, x, k)
        BY <2>1 DEF KeyInv, GoneNow, OnItsWay, Full
    <2> QED
        BY <2>2, <2>3, <2>4, <2>5, <2>6 DEF KeyInv, Ours, Apart, Alone
<1> QED
    BY <1>0, <1>1, <1>2, <1>3, <1>4, <1>5, <1>6, <1>7

\* The other handlers' work on the file goes on.
Others(w, v, h, k) ==
    \A g \in Handlers \ {h} : At(w, g, k) \/ At(v, g, k) => v[g] = w[g]

\* What the answer makes of the work of h, and of what happened to the file.
Answer(c, w, v, x, y, h, k) ==
    /\ Others(w, v, h, k)
    /\ IF w[h].step \in DOMAIN NextStep
       THEN /\ y = x
            /\ v[h] = [w[h] EXCEPT !.step = NextStep[w[h].step], !.attempt = 1,
                                   !.meta = IF w[h].step = "head"
                                            THEN Merged(getFileMetadata(c[k]), w[h].gives, h) ELSE @]
       ELSE /\ v[h] = None
            /\ y = [x EXCEPT !.stored = @ \/ w[h].op = "upload",
                             !.deleted = @ \/ w[h].op = "delete",
                             !.gone = @ \/ w[h].op = "delete",
                             !.updates = IF w[h].op = "update" THEN AndUpdate(@, w[h].gives, h) ELSE @]

\* An answer to the call just made leaves what is known of the file.
LEMMA AnswerKeeps ==
    ASSUME NEW b \in Buckets, NEW c \in Buckets, NEW w \in Works, NEW v \in Works,
           NEW x \in Pasts, NEW y \in Pasts, NEW S \in SUBSET Keys, NEW k \in Keys,
           NEW h \in Handlers,
           KeyInv(c, w, x, S, k), At(w, h, k), Found(b, w, h, k), Call(b, c, w, h, k),
           Answer(c, w, v, x, y, h, k)
    PROVE  KeyInv(c, v, y, S, k)
<1> DEFINE s == w[h].step
           temp == w[h].temp
<1>0. /\ \A g \in Handlers : At(w, g, k) => w[g].temp \in Temps
      /\ temp \in Temps /\ w[h] \in Jobs /\ w[h].key = k
      /\ \/ w[h].op = "upload" /\ s = "put"
         \/ w[h].op = "delete" /\ s = "remove"
         \/ w[h].op = "update" /\ s \in {"head", "copyOut", "drop", "copyBack", "dropTemp"}
    BY WorkHasFields
<1>01. Others(w, v, h, k)
    BY DEF Answer
<1>1. CASE s = "put"
    <2>1. ~x.stored /\ x.used /\ k \notin S /\ ~x.gone /\ ~x.deleted /\ x.updates = NoUpdate
          /\ \A g \in Handlers : At(w, g, k) => g = h
        BY <1>0, <1>1 DEF KeyInv, Ours, Pasts
    <2>2. c[k] = Uploaded /\ Full(c, k)
        BY <1>1, ObjectsAreThere DEF Call, Full
    <2>3. v[h] = None /\ y.stored /\ y.used /\ ~y.gone /\ ~y.deleted /\ y.updates = NoUpdate
          /\ y.broken = x.broken /\ y.littered = x.littered
        BY <1>0, <1>1, <2>1 DEF Answer, NextStep, Pasts
    <2>4. \A g \in Handlers : ~At(v, g, k)
        BY <1>01, <2>1, <2>3 DEF Others, At
    <2>5. Clean(c, v, y, k)
        BY <1>1, <2>1, <2>3 DEF KeyInv, Clean, In
    <2> QED
        BY <2>1, <2>2, <2>3, <2>4, <2>5, ReplacedSays DEF KeyInv, Ours, Apart, CopyThere,
            Somewhere, OnItsWay, Alone, Kept, GoneNow, In, Deletes
<1>2. CASE s = "remove"
    <2>1. x.stored /\ ~Full(c, k)
        BY <1>0, <1>2 DEF KeyInv, Ours, Call, Full
    <2>2. v[h] = None
        BY <1>2 DEF Answer, NextStep
    <2>3. /\ y.stored /\ y.deleted /\ y.gone /\ (y.used <=> x.used) /\ y.updates = x.updates
          /\ (y.overlapped <=> x.overlapped) /\ (y.collided <=> x.collided)
          /\ (y.broken <=> x.broken) /\ (y.littered <=> x.littered) /\ (y.again <=> x.again)
        <3>1. y = [x EXCEPT !.stored = @ \/ w[h].op = "upload",
                            !.deleted = @ \/ w[h].op = "delete",
                            !.gone = @ \/ w[h].op = "delete",
                            !.updates = IF w[h].op = "update" THEN AndUpdate(@, w[h].gives, h) ELSE @]
            BY <1>2 DEF Answer, NextStep
        <3> QED
            BY <1>0, <1>2, <2>1, <3>1 DEF Pasts
    <2>4. \A g \in Handlers : At(v, g, k) => g # h /\ At(w, g, k) /\ v[g] = w[g]
        BY <1>01, <2>2 DEF Others, At
    <2>5. Ours(v, y, S, k)
        BY <2>1, <2>3, <2>4 DEF KeyInv, Ours
    <2>6. Clean(c, v, y, k)
        BY <1>01, <1>2, <2>3 DEF KeyInv, Clean, In, Others, At
    <2>7. GoneNow(c, v, y, k)
        BY <2>1, <2>3, <2>4 DEF KeyInv, GoneNow, Alone, Calm
    <2> QED
        BY <2>3, <2>4, <2>5, <2>6, <2>7 DEF KeyInv, Apart, CopyThere, Somewhere, OnItsWay,
            Alone, Kept, In
<1>3. CASE s \in DOMAIN NextStep
    <2>0. s \in {"head", "copyOut", "drop", "copyBack"} /\ w[h].op = "update"
        BY <1>0, <1>3 DEF NextStep
    <2>1. /\ v[h] # None /\ v[h].key = k /\ v[h].op = "update" /\ v[h].temp = temp
          /\ v[h].step = NextStep[s] /\ v[h].meta = IF s = "head" THEN Merged(getFileMetadata(c[k]), w[h].gives, h)
                                                    ELSE w[h].meta
          /\ v[h].gives = w[h].gives /\ y = x
        <3>1. v[h] = [w[h] EXCEPT !.step = NextStep[s], !.attempt = 1,
                                  !.meta = IF s = "head" THEN Merged(getFileMetadata(c[k]), w[h].gives, h)
                                           ELSE @] /\ y = x
            BY <1>3 DEF Answer
        <3>2. w[h] \in Work /\ NextStep[s] \in Steps /\ 1 \in 1..MaxRetries
            BY <1>0, <2>0, RetriesAssumption DEF Jobs, NextStep, Steps
        <3>3. s = "head" => Merged(getFileMetadata(c[k]), w[h].gives, h) \in FileMetadata
            <4>1. k \in Places
                BY DEF Places
            <4>2. s = "head" => c[k] # None
                BY DEF Call, Found, Full
            <4>3. c[k] \in Objects \/ c[k] = None
                BY <4>1 DEF Buckets
            <4> QED
                BY <1>0, <4>2, <4>3, JobsHaveFields, ObjectsAreThere, MergedIsMetadata
        <3>4. v[h] \in Work
            BY <3>1, <3>2, <3>3 DEF Work
        <3> QED
            BY <1>0, <2>0, <3>1, <3>2, <3>4, NoneAssumption DEF Work
    <2>2. \A g \in Handlers : (At(v, g, k) <=> At(w, g, k)) /\ (At(w, g, k) /\ g # h => v[g] = w[g])
        BY <1>01, <2>1 DEF Others, At
    <2>3. Deletes(v, k) <=> Deletes(w, k)
        BY <2>0, <2>1, <2>2 DEF Deletes
    <2>4. Ours(v, y, S, k)
        BY <2>0, <2>1, <2>2 DEF KeyInv, Ours
    <2>5. Apart(v, y, k)
        BY <2>0, <2>1, <2>2 DEF KeyInv, Apart
    <2>6. Alone(v, y, k)
        BY <2>1, <2>2 DEF KeyInv, Alone
    <2>7. GoneNow(c, v, y, k)
        BY <2>0, <2>1, <2>2 DEF KeyInv, GoneNow, Found, Call, Full, NextStep
    <2>8. CASE s = "head"
        <3>1. v[h].step = "copyOut" /\ v[h].meta = Merged(getFileMetadata(c[k]), w[h].gives, h)
            BY <2>1, <2>8 DEF NextStep
        <3>2. Kept(c, v, y, k)
            BY <2>1, <2>2, <2>3, <2>8, <3>1 DEF KeyInv, Kept, Alone, Calm, Says
        <3> QED
            BY <2>1, <2>2, <2>3, <2>4, <2>5, <2>6, <2>7, <2>8, <3>1, <3>2
            DEF KeyInv, CopyThere, Somewhere, OnItsWay, Clean, In
    <2>9. CASE s = "copyOut"
        <3>1. v[h].step = "drop" /\ c[Copy(k, temp)] = Replaced(w[h].meta) /\ Full(c, Copy(k, temp))
            BY <1>0, <2>1, <2>9, WorkHasFields, ObjectsAreThere DEF NextStep, Call, Full
        <3>2. Kept(c, v, y, k)
            <4>1. \A u \in Tallies : w[h].meta = Merged(Told(u), w[h].gives, h)
                    => Says(c[Copy(k, temp)], AndUpdate(u, w[h].gives, h))
                BY <1>0, <3>1, JobsHaveFields, ReplacedSays
            <4>2. x.updates \in Tallies
                BY DEF Pasts
            <4> QED
                BY <2>1, <2>2, <2>3, <2>9, <3>1, <4>1, <4>2 DEF KeyInv, Kept, Alone, Calm
        <3> QED
            BY <2>1, <2>2, <2>3, <2>4, <2>5, <2>6, <2>7, <2>9, <3>1, <3>2
            DEF KeyInv, CopyThere, Somewhere, OnItsWay, Clean, In
    <2>10. CASE s = "drop"
        <3>1. v[h].step = "copyBack"
            BY <2>1, <2>10 DEF NextStep
        <3>2. Kept(c, v, y, k)
            BY <2>1, <2>2, <2>3, <2>10, <3>1 DEF KeyInv, Kept, Alone, Calm
        <3> QED
            BY <2>1, <2>2, <2>3, <2>4, <2>5, <2>6, <2>7, <2>10, <3>1, <3>2
            DEF KeyInv, CopyThere, Somewhere, OnItsWay, Clean, In
    <2>11. CASE s = "copyBack"
        <3>1. v[h].step = "dropTemp" /\ Full(c, k) /\ c[k] = c[Copy(k, temp)]
            BY <1>0, <2>1, <2>11 DEF NextStep, Call, Found, Full
        <3>2. Kept(c, v, y, k)
            BY <2>1, <2>2, <2>3, <2>11, <3>1 DEF KeyInv, Kept, Alone, Calm
        <3> QED
            BY <2>1, <2>2, <2>3, <2>4, <2>5, <2>6, <2>7, <2>11, <3>1, <3>2
            DEF KeyInv, CopyThere, Somewhere, OnItsWay, Clean, In
    <2> QED
        BY <2>0, <2>8, <2>9, <2>10, <2>11
<1>4. CASE s = "dropTemp"
    <2>1. x.stored /\ ~Full(c, Copy(k, temp)) /\ w[h].op = "update"
        BY <1>0, <1>4 DEF KeyInv, Ours, Call, Full
    <2>2. /\ v[h] = None
          /\ (y.stored <=> x.stored) /\ (y.deleted <=> x.deleted)
          /\ (y.gone <=> x.gone) /\ (y.used <=> x.used) /\ y.updates = AndUpdate(x.updates, w[h].gives, h)
          /\ (y.overlapped <=> x.overlapped) /\ (y.collided <=> x.collided)
          /\ (y.broken <=> x.broken) /\ (y.littered <=> x.littered) /\ (y.again <=> x.again)
        <3>1. s \notin DOMAIN NextStep
            BY <1>4 DEF NextStep
        <3>2. v[h] = None /\ y = [x EXCEPT !.stored = @ \/ w[h].op = "upload",
                                           !.deleted = @ \/ w[h].op = "delete",
                                           !.gone = @ \/ w[h].op = "delete",
                                           !.updates = IF w[h].op = "update" THEN AndUpdate(@, w[h].gives, h) ELSE @]
            BY <3>1 DEF Answer
        <3> QED
            BY <2>1, <3>2 DEF Pasts
    <2>3. \A g \in Handlers : At(v, g, k) <=> g # h /\ At(w, g, k)
        BY <1>01, <2>2 DEF Others, At
    <2>4. \A g \in Handlers : At(v, g, k) => v[g] = w[g]
        BY <1>01, <2>3 DEF Others
    <2>5. Deletes(v, k) <=> Deletes(w, k)
        BY <2>1, <2>3, <2>4 DEF Deletes
    <2>6. Ours(v, y, S, k)
        BY <2>1, <2>2, <2>3, <2>4 DEF KeyInv, Ours
    <2>7. Clean(c, v, y, k)
        BY <2>1, <2>2, <2>3, <2>4 DEF KeyInv, Clean, In
    <2>8. GoneNow(c, v, y, k)
        BY <2>2, <2>3, <2>4 DEF KeyInv, GoneNow, Calm
    <2>9. Kept(c, v, y, k)
        BY <1>4, <2>2, <2>3, <2>5 DEF KeyInv, Kept, Alone, Calm
    <2>10. Somewhere(c, v, y, k)
        BY <1>4, <2>1, <2>2, <2>3, <2>4, <2>5 DEF KeyInv, Somewhere, In
    <2>11. OnItsWay(c, v, y, k)
        BY <1>4, <2>2, <2>3, <2>4, <2>5 DEF KeyInv, OnItsWay, In
    <2> QED
        BY <2>2, <2>3, <2>4, <2>6, <2>7, <2>8, <2>9, <2>10, <2>11
        DEF KeyInv, Apart, CopyThere, Alone, In
<1> QED
    BY <1>0, <1>1, <1>2, <1>3, <1>4 DEF NextStep
\* What an operation that stops half-way leaves behind.
Stopped(w, v, x, y, h, k) ==
    /\ Others(w, v, h, k) /\ v[h] = None
    /\ y = [x EXCEPT !.broken = @ \/ w[h].step \in {"drop", "copyBack", "dropTemp"},
                     !.littered = @ \/ w[h].step = "copyOut",
                     !.deleted = @ \/ w[h].op = "delete"]

\* An operation that stops, wherever it is, leaves what is known of the file.
LEMMA StopKeeps ==
    ASSUME NEW b \in Buckets, NEW w \in Works, NEW v \in Works, NEW x \in Pasts,
           NEW y \in Pasts, NEW S \in SUBSET Keys, NEW k \in Keys, NEW h \in Handlers,
           KeyInv(b, w, x, S, k), At(w, h, k), Stopped(w, v, x, y, h, k)
    PROVE  KeyInv(b, v, y, S, k)
<1>1. \/ w[h].op = "upload" /\ w[h].step = "put"
      \/ w[h].op = "delete" /\ w[h].step = "remove"
      \/ /\ w[h].op = "update"
         /\ w[h].step \in {"head", "copyOut", "drop", "copyBack", "dropTemp"}
    BY WorkHasFields
<1>2. /\ (y.stored <=> x.stored) /\ (y.gone <=> x.gone) /\ (y.used <=> x.used)
      /\ y.updates = x.updates /\ (y.overlapped <=> x.overlapped)
      /\ (y.collided <=> x.collided) /\ (y.again <=> x.again)
      /\ y.broken <=> x.broken \/ w[h].step \in {"drop", "copyBack", "dropTemp"}
      /\ y.littered <=> x.littered \/ w[h].step = "copyOut"
      /\ y.deleted <=> x.deleted \/ w[h].op = "delete"
    <2>1. y = [x EXCEPT !.broken = @ \/ w[h].step \in {"drop", "copyBack", "dropTemp"},
                        !.littered = @ \/ w[h].step = "copyOut",
                        !.deleted = @ \/ w[h].op = "delete"]
        BY DEF Stopped
    <2>2. /\ (y.stored <=> x.stored) /\ (y.gone <=> x.gone) /\ (y.used <=> x.used)
          /\ y.updates = x.updates /\ (y.overlapped <=> x.overlapped)
          /\ (y.collided <=> x.collided) /\ (y.again <=> x.again)
        BY <2>1 DEF Pasts
    <2>3. y.broken <=> x.broken \/ w[h].step \in {"drop", "copyBack", "dropTemp"}
        BY <2>1 DEF Pasts
    <2>4. y.littered <=> x.littered \/ w[h].step = "copyOut"
        BY <2>1 DEF Pasts
    <2>5. y.deleted <=> x.deleted \/ w[h].op = "delete"
        BY <2>1 DEF Pasts
    <2> QED
        BY <2>2, <2>3, <2>4, <2>5
<1>3. \A g \in Handlers : /\ At(v, g, k) <=> g # h /\ At(w, g, k)
                          /\ At(v, g, k) => v[g] = w[g]
    BY DEF Stopped, Others, At
<1>4. w[h].op = "delete" \/ (Deletes(v, k) <=> Deletes(w, k))
    BY <1>3 DEF Deletes
<1>5. Ours(v, y, S, k)
    BY <1>1, <1>2, <1>3 DEF KeyInv, Ours
<1>6. Apart(v, y, k) /\ CopyThere(b, v, y, k) /\ Alone(v, y, k)
    BY <1>2, <1>3 DEF KeyInv, Apart, CopyThere, Alone, In
<1>7. Somewhere(b, v, y, k)
    BY <1>2, <1>3, <1>4 DEF KeyInv, Somewhere, In
<1>8. OnItsWay(b, v, y, k)
    BY <1>1, <1>2, <1>3, <1>4 DEF KeyInv, OnItsWay, In
<1>9. Clean(b, v, y, k)
    BY <1>2, <1>3 DEF KeyInv, Clean, In
<1>10. Kept(b, v, y, k)
    BY <1>1, <1>2, <1>3, <1>4 DEF KeyInv, Kept, Calm, Alone, Ours
<1>11. GoneNow(b, v, y, k)
    BY <1>2, <1>3 DEF KeyInv, GoneNow, Calm
<1> QED
    BY <1>5, <1>6, <1>7, <1>8, <1>9, <1>10, <1>11 DEF KeyInv

-----------------------------------------------------------------------------
(* What does not touch a file, and what begins or is put there. *)

\* The work on the file is the same but for the number of its attempts.
Alike(w, v, k) ==
    \A g \in Handlers :
        /\ At(v, g, k) <=> At(w, g, k)
        /\ At(w, g, k) => /\ v[g].op = w[g].op /\ v[g].step = w[g].step
                          /\ v[g].temp = w[g].temp /\ v[g].meta = w[g].meta /\ v[g].gives = w[g].gives

\* A step on other files, or another attempt, leaves what is known of the file.
LEMMA Untouched ==
    ASSUME NEW b \in Buckets, NEW c \in Buckets, NEW w \in Works, NEW v \in Works,
           NEW x \in Pasts, NEW S \in SUBSET Keys, NEW Z \in SUBSET Keys, NEW k \in Keys,
           KeyInv(b, w, x, S, k), Alike(w, v, k), k \in Z <=> k \in S,
           c[k] = b[k], \A t \in Temps : c[Copy(k, t)] = b[Copy(k, t)]
    PROVE  KeyInv(c, v, x, Z, k)
<1>1. \A g \in Handlers : At(w, g, k) => w[g].temp \in Temps
    BY WorkHasFields
<1>2. Deletes(v, k) <=> Deletes(w, k)
    BY DEF Alike, Deletes
<1>3. Ours(v, x, Z, k) /\ Apart(v, x, k) /\ Alone(v, x, k)
    BY DEF KeyInv, Ours, Apart, Alone, Alike
<1>4. CopyThere(c, v, x, k) /\ Somewhere(c, v, x, k)
    BY <1>1, <1>2 DEF KeyInv, CopyThere, Somewhere, Alike, In, Full
<1>5. OnItsWay(c, v, x, k) /\ Clean(c, v, x, k)
    BY <1>1, <1>2 DEF KeyInv, OnItsWay, Clean, Alike, In, Full
<1>6. Kept(c, v, x, k)
    BY <1>1, <1>2 DEF KeyInv, Kept, Alike
<1>7. GoneNow(c, v, x, k)
    BY DEF KeyInv, GoneNow, Alike, Full
<1> QED
    BY <1>3, <1>4, <1>5, <1>6, <1>7 DEF KeyInv

\* An upload takes a key that nobody has.
LEMMA UploadBegins ==
    ASSUME NEW b \in Buckets, NEW w \in Works, NEW v \in Works, NEW x \in Pasts,
           NEW y \in Pasts, NEW S \in SUBSET Keys, NEW k \in Keys, NEW h \in Handlers,
           KeyInv(b, w, x, S, k), ~x.used, ~At(w, h, k), Others(w, v, h, k),
           v[h] = Uploading(k), y = [x EXCEPT !.used = TRUE]
    PROVE  KeyInv(b, v, y, S, k)
<1>1. /\ ~x.stored /\ ~x.deleted /\ ~x.gone /\ k \notin S /\ x.updates = NoUpdate
      /\ \A g \in Handlers : ~At(w, g, k)
    BY DEF KeyInv, Ours
<1>2. /\ v[h].op = "upload" /\ v[h].key = k /\ v[h].step = "put"
      /\ \A g \in Handlers : At(v, g, k) => g = h
    BY <1>1 DEF Uploading, Job, Others, At
<1>3. /\ y.used /\ ~y.stored /\ ~y.deleted /\ ~y.gone /\ y.updates = NoUpdate
      /\ (y.broken <=> x.broken) /\ (y.littered <=> x.littered)
    BY <1>1 DEF Pasts
<1>4. Clean(b, v, y, k)
    BY <1>1, <1>3 DEF KeyInv, Clean, In
<1> QED
    BY <1>1, <1>2, <1>3, <1>4 DEF KeyInv, Ours, Apart, CopyThere, Somewhere, OnItsWay, Alone,
        Kept, GoneNow, In

\* What an operation that begins meets on its file.
Noted(w, v, x, y, h, k) ==
    y = [x EXCEPT !.overlapped = @ \/ \E g \in Handlers : At(w, g, k),
                  !.collided = @ \/ \E g \in Handlers :
                    /\ At(w, g, k) /\ v[h].op = "update" /\ w[g].op = "update"
                    /\ w[g].temp = v[h].temp]

\* A delete or an update begins on a file that is stored.
LEMMA OperationBegins ==
    ASSUME NEW b \in Buckets, NEW w \in Works, NEW v \in Works, NEW x \in Pasts,
           NEW y \in Pasts, NEW S \in SUBSET Keys, NEW k \in Keys, NEW h \in Handlers,
           KeyInv(b, w, x, S, k), x.stored, w[h] = None, Others(w, v, h, k), At(v, h, k),
           v[h].step \in {"remove", "head"},
           Noted(w, v, x, y, h, k)
    PROVE  KeyInv(b, v, y, S, k)
<1>1. /\ (y.stored <=> x.stored) /\ (y.gone <=> x.gone) /\ (y.used <=> x.used)
      /\ (y.deleted <=> x.deleted) /\ y.updates = x.updates /\ (y.again <=> x.again)
      /\ (y.broken <=> x.broken) /\ (y.littered <=> x.littered)
      /\ y.overlapped <=> x.overlapped \/ \E g \in Handlers : At(w, g, k)
      /\ y.collided <=> x.collided \/ \E g \in Handlers :
                            /\ At(w, g, k) /\ v[h].op = "update" /\ w[g].op = "update"
                            /\ w[g].temp = v[h].temp
    BY DEF Noted, Pasts
<1>2. \A g \in Handlers : /\ At(v, g, k) <=> g = h \/ At(w, g, k)
                          /\ At(w, g, k) => g # h /\ v[g] = w[g]
    BY DEF Others, At
<1>3. v[h].op # "upload"
    BY WorkHasFields
<1>4. Deletes(w, k) => Deletes(v, k)
    BY <1>2 DEF Deletes
<1>5. Ours(v, y, S, k)
    BY <1>1, <1>2, <1>3 DEF KeyInv, Ours
<1>6. Apart(v, y, k)
    BY <1>1, <1>2 DEF KeyInv, Apart
<1>7. CopyThere(b, v, y, k) /\ Somewhere(b, v, y, k)
    BY <1>1, <1>2, <1>4 DEF KeyInv, CopyThere, Somewhere, In
<1>8. OnItsWay(b, v, y, k) /\ Clean(b, v, y, k)
    BY <1>1, <1>2, <1>4 DEF KeyInv, OnItsWay, Clean, In
<1>9. Alone(v, y, k)
    BY <1>1, <1>2 DEF KeyInv, Alone
<1>10. Kept(b, v, y, k)
    BY <1>1, <1>2, <1>3, <1>4, WorkHasFields DEF KeyInv, Kept, Calm, Deletes
<1>11. GoneNow(b, v, y, k)
    BY <1>1, <1>2 DEF KeyInv, GoneNow, Calm
<1> QED
    BY <1>5, <1>6, <1>7, <1>8, <1>9, <1>10, <1>11 DEF KeyInv

\* An address is given for a key that nobody has.
LEMMA AddressIsGiven ==
    ASSUME NEW b \in Buckets, NEW w \in Works, NEW x \in Pasts, NEW y \in Pasts,
           NEW S \in SUBSET Keys, NEW Z \in SUBSET Keys, NEW k \in Keys,
           KeyInv(b, w, x, S, k), ~x.used, y = [x EXCEPT !.used = TRUE]
    PROVE  KeyInv(b, w, y, Z, k)
<1>1. /\ ~x.stored /\ ~x.deleted /\ ~x.gone /\ x.updates = NoUpdate
      /\ \A g \in Handlers : ~At(w, g, k)
    BY DEF KeyInv, Ours
<1>2. /\ y.used /\ ~y.stored /\ ~y.deleted /\ ~y.gone /\ y.updates = NoUpdate
      /\ (y.broken <=> x.broken) /\ (y.littered <=> x.littered)
    BY <1>1 DEF Pasts
<1>3. Clean(b, w, y, k)
    BY <1>2 DEF KeyInv, Clean
<1> QED
    BY <1>1, <1>2, <1>3 DEF KeyInv, Ours, Apart, CopyThere, Somewhere, OnItsWay, Alone,
        Kept, GoneNow, In

\* An address expires.
LEMMA AddressExpires ==
    ASSUME NEW b \in Buckets, NEW w \in Works, NEW x \in Pasts, NEW S \in SUBSET Keys,
           NEW Z \in SUBSET Keys, NEW k \in Keys, k \notin Z, KeyInv(b, w, x, S, k)
    PROVE  KeyInv(b, w, x, Z, k)
<1>1. Ours(w, x, Z, k)
    BY DEF KeyInv, Ours
<1> QED
    BY <1>1 DEF KeyInv, Apart, CopyThere, Somewhere, OnItsWay, Alone, Clean, Kept, GoneNow

\* A browser puts the file at the key it has an address for.
LEMMA PutByBrowser ==
    ASSUME NEW b \in Buckets, NEW c \in Buckets, NEW w \in Works, NEW x \in Pasts,
           NEW y \in Pasts, NEW S \in SUBSET Keys, NEW k \in Keys, k \in S, KeyInv(b, w, x, S, k),
           c[k] = Uploaded, \A t \in Temps : c[Copy(k, t)] = b[Copy(k, t)],
           y = [x EXCEPT !.stored = TRUE, !.again = @ \/ x.stored]
    PROVE  KeyInv(c, w, y, S, k)
<1>1. /\ y.stored /\ (y.gone <=> x.gone) /\ (y.used <=> x.used)
      /\ (y.deleted <=> x.deleted) /\ y.updates = x.updates /\ (y.again <=> x.again \/ x.stored)
      /\ (y.broken <=> x.broken) /\ (y.littered <=> x.littered)
      /\ (y.overlapped <=> x.overlapped) /\ (y.collided <=> x.collided)
    BY DEF Pasts
<1>2. Full(c, k)
    BY ObjectsAreThere DEF Full
<1>3. \A g \in Handlers : At(w, g, k) => w[g].op # "upload" /\ x.stored /\ w[g].temp \in Temps
    BY WorkHasFields DEF KeyInv, Ours
<1>4. x.used /\ (~x.stored => x.updates = NoUpdate) /\ (x.gone => x.stored)
    BY DEF KeyInv, Ours
<1>5. Ours(w, y, S, k)
    BY <1>1, <1>3, <1>4 DEF Ours
<1>6. Apart(w, y, k) /\ Alone(w, y, k)
    BY <1>1 DEF KeyInv, Apart, Alone
<1>7. CopyThere(c, w, y, k) /\ Clean(c, w, y, k)
    BY <1>1, <1>3 DEF KeyInv, CopyThere, Clean, Full, In
<1>8. Somewhere(c, w, y, k) /\ OnItsWay(c, w, y, k)
    BY <1>2 DEF Somewhere, OnItsWay
<1>9. Kept(c, w, y, k) /\ GoneNow(c, w, y, k)
    BY <1>1, <1>3, <1>4, ReplacedSays DEF Kept, GoneNow, Calm
<1> QED
    BY <1>5, <1>6, <1>7, <1>8, <1>9 DEF KeyInv
-----------------------------------------------------------------------------
(* The steps of the specification. *)

\* What a file is known to be, now.
File(k) == KeyInv(bucket, work, past[k], signed, k)

\* The effect of a call is the call on its file, and nothing on the others.
LEMMA EffectIsCall ==
    ASSUME Types, NEW h \in Handlers, work[h] # None, NEW c, c = Effect(work[h])
    PROVE  /\ c \in Buckets
           /\ Call(bucket, c, work, h, work[h].key)
           /\ \A j \in Keys \ {work[h].key} :
                c[j] = bucket[j] /\ \A t \in Temps : c[Copy(j, t)] = bucket[Copy(j, t)]
<1> DEFINE w == work[h]
           k == w.key
           s == w.step
<1>1. /\ bucket \in Buckets /\ w \in Jobs /\ k \in Keys /\ w.temp \in Temps
      /\ Replaced(w.meta) \in Objects /\ Uploaded \in Objects
      /\ s \in {"put", "remove", "head", "copyOut", "drop", "copyBack", "dropTemp"}
    BY JobsHaveFields, ObjectsAreThere DEF Types, Buckets
<1>2. Temp(w) = Copy(k, w.temp)
    BY DEF Temp, Copy
<1>3. k \in Places /\ Copy(k, w.temp) \in Places /\ Copy(k, w.temp) # k
    BY <1>1, PlacesApart
<1>4. \A t \in Temps : /\ Copy(k, t) \in Places /\ Copy(k, t) # k
                       /\ Copy(k, t) = Copy(k, w.temp) => t = w.temp
    BY <1>1, PlacesApart
<1>5. \A j \in Keys \ {k} :
        /\ j \in Places /\ j # k /\ j # Copy(k, w.temp)
        /\ \A t \in Temps : Copy(j, t) \in Places /\ Copy(j, t) # k /\ Copy(j, t) # Copy(k, w.temp)
    BY <1>1, PlacesApart
<1>6. bucket[Copy(k, w.temp)] \in Objects \union {None}
    BY <1>1, <1>3 DEF Buckets
<1>7. CASE s = "put"
    <2>1. c = [bucket EXCEPT ![k] = Uploaded]
        BY <1>7 DEF Effect
    <2> QED
        BY <1>1, <1>3, <1>4, <1>5, <1>7, <2>1 DEF Buckets, Call
<1>8. CASE s \in {"remove", "drop"}
    <2>1. c = [bucket EXCEPT ![k] = None]
        BY <1>8 DEF Effect
    <2> QED
        BY <1>1, <1>3, <1>4, <1>5, <1>8, <2>1 DEF Buckets, Call
<1>9. CASE s = "copyOut"
    <2>1. c = [bucket EXCEPT ![Copy(k, w.temp)] = Replaced(w.meta)]
        BY <1>2, <1>9 DEF Effect
    <2> QED
        BY <1>1, <1>3, <1>4, <1>5, <1>9, <2>1 DEF Buckets, Call
<1>10. CASE s = "copyBack"
    <2>1. c = [bucket EXCEPT ![k] = bucket[Copy(k, w.temp)]]
        BY <1>2, <1>10 DEF Effect
    <2> QED
        BY <1>1, <1>3, <1>4, <1>5, <1>6, <1>10, <2>1 DEF Buckets, Call
<1>11. CASE s = "dropTemp"
    <2>1. c = [bucket EXCEPT ![Copy(k, w.temp)] = None]
        BY <1>2, <1>11 DEF Effect
    <2> QED
        BY <1>1, <1>3, <1>4, <1>5, <1>11, <2>1 DEF Buckets, Call
<1>12. CASE s = "head"
    <2>1. c = bucket
        BY <1>12 DEF Effect
    <2> QED
        BY <1>1, <1>12, <2>1 DEF Call
<1> QED
    BY <1>1, <1>7, <1>8, <1>9, <1>10, <1>11, <1>12

\* A batch whose uploads go on keeps what is known of it.
LEMMA BatchWaits ==
    ASSUME Types, BatchInv, batch' = batch,
           \A h \in Handlers : batch # None /\ h \in batch.left =>
                work'[h] # None /\ work'[h].op = work[h].op /\ work'[h].key = work[h].key,
           \A k \in Keys : past[k].stored => past'[k].stored
    PROVE  BatchInv'
<1> SUFFICES ASSUME batch # None
             PROVE  BatchInv'
    BY DEF BatchInv
<1>1. batch.left \in SUBSET Handlers /\ batch.files \in SUBSET Keys
    BY DEF Types, Batch
<1> QED
    BY <1>1 DEF BatchInv

\* An upload that ends tells its batch.
LEMMA BatchIsTold ==
    ASSUME Types, BatchInv, NEW h \in Handlers, work[h] # None, NEW ok \in BOOLEAN,
           Ends(h), Tell(h, ok),
           ok /\ work[h].op = "upload" => past'[work[h].key].stored,
           \A k \in Keys : past[k].stored => past'[k].stored
    PROVE  BatchInv' /\ batch' \in Batch \union {None}
<1>1. \A g \in Handlers : work'[g] = IF g = h THEN None ELSE work[g]
    BY DEF Types, Ends
<1>2. CASE batch = None \/ h \notin batch.left
    <2>1. batch' = batch
        BY <1>2 DEF Tell
    <2>2. \A g \in Handlers : batch # None /\ g \in batch.left =>
                work'[g] # None /\ work'[g].op = work[g].op /\ work'[g].key = work[g].key
        BY <1>1, <1>2 DEF BatchInv
    <2> QED
        BY <2>1, <2>2, BatchWaits DEF Types
<1>3. CASE batch # None /\ h \in batch.left
    <2>1. /\ batch \in Batch /\ batch.left \in SUBSET Handlers /\ batch.files \in SUBSET Keys
          /\ batch.told \in {None, "done", "failed"}
        BY <1>3 DEF Types, Batch
    <2> DEFINE told == IF batch.told # None THEN batch.told
                       ELSE IF ~ok THEN "failed"
                       ELSE IF batch.left = {h} THEN "done" ELSE None
    <2>2. batch' = [batch EXCEPT !.left = @ \ {h}, !.told = told]
        BY <1>3 DEF Tell
    <2>3. told \in {None, "done", "failed"}
        BY <2>1
    <2> HIDE DEF told
    <2>4. /\ batch' \in Batch /\ batch'.left = batch.left \ {h} /\ batch'.told = told
          /\ batch'.files = batch.files
        BY <2>1, <2>2, <2>3 DEF Batch
    <2>5. \A g \in batch.left : work[g] # None /\ work[g].op = "upload" /\ work[g].key \in batch.files
        BY <1>3 DEF BatchInv
    <2>6. \A g \in batch'.left : work'[g] = work[g]
        BY <1>1, <2>1, <2>4
    <2>7. ASSUME told = "done", NEW k \in batch.files
          PROVE  past'[k].stored
        <3>1. CASE batch.told = "done"
            BY <1>3, <2>1, <2>7, <3>1 DEF BatchInv
        <3>2. CASE batch.told # "done"
            <4>1. batch.told = None /\ ok /\ batch.left = {h}
                BY <2>7, <3>2, NoneAssumption DEF told
            <4>2. past[k].stored \/ work[h].key = k
                BY <1>3, <2>7, <4>1 DEF BatchInv
            <4> QED
                BY <1>3, <2>1, <2>5, <2>7, <4>1, <4>2
        <3> QED
            BY <3>1, <3>2
    <2>8. ASSUME told = None, batch'.left # {}, NEW k \in batch.files
          PROVE  past'[k].stored \/ \E g \in batch'.left : work'[g].key = k
        <3>1. batch.told = None /\ ok
            BY <2>8, NoneAssumption DEF told
        <3>2. past[k].stored \/ \E g \in batch.left : work[g].key = k
            BY <1>3, <2>8, <3>1 DEF BatchInv
        <3> QED
            BY <1>3, <2>1, <2>4, <2>5, <2>6, <2>8, <3>1, <3>2
    <2> QED
        BY <2>4, <2>5, <2>6, <2>7, <2>8 DEF BatchInv
<1> QED
    BY <1>2, <1>3

\* A step that leaves the bucket alone leaves each file that it does not name.
LEMMA OtherFile ==
    ASSUME Types, Types', NEW k \in Keys, File(k), bucket' = bucket, past'[k] = past[k],
           k \in signed' <=> k \in signed, Alike(work, work', k)
    PROVE  File(k)'
<1>1. /\ bucket \in Buckets /\ work \in Works /\ work' \in Works /\ past[k] \in Pasts
      /\ signed \in SUBSET Keys /\ signed' \in SUBSET Keys
    BY DEF Types, Buckets, Works
<1>2. KeyInv(bucket, work', past[k], signed', k)
    BY <1>1, Untouched DEF File
<1> QED
    BY <1>2 DEF File

\* What begins is a job.
LEMMA BeginsAJob ==
    ASSUME NEW op, NEW k \in Keys, NEW step, NEW t \in Temps, NEW F \in SUBSET Fields,
           <<op, step>> \in {<<"upload", "put">>, <<"delete", "remove">>, <<"update", "head">>}
    PROVE  Job(op, k, step, t, F) \in Jobs /\ Job(op, k, step, t, F).key = k
           /\ Job(op, k, step, t, F).step = step /\ Job(op, k, step, t, F).op = op
<1>1. 1 \in 1..MaxRetries
    BY RetriesAssumption
<1>2. [category |-> None, contentType |-> None, tags |-> None] \in FileMetadata
    BY DEF FileMetadata, By
<1> QED
    BY <1>1, <1>2 DEF Job, Jobs, Work, Fits, Steps

\* An upload that begins is a job.
LEMMA UploadIsAJob ==
    ASSUME NEW k \in Keys
    PROVE  Uploading(k) \in Jobs /\ Uploading(k) # None
<1>1. (CHOOSE t \in Temps : TRUE) \in Temps
    BY TempsAssumption
<1>2. Uploading(k) \in Jobs
    BY <1>1, BeginsAJob DEF Uploading
<1> QED
    BY <1>2, JobsHaveFields

\* UploadFile keeps the invariant.
LEMMA UploadFileKeeps ==
    ASSUME IInv, NEW h \in Handlers, NEW k \in Keys, UploadFile(h, k)
    PROVE  IInv'
<1>1. Types /\ BatchInv /\ \A j \in Keys : File(j)
    BY DEF IInv, File
<1>2. /\ work' = [work EXCEPT ![h] = Uploading(k)] /\ work[h] = None
      /\ past' = [past EXCEPT ![k].used = TRUE] /\ ~past[k].used
      /\ bucket' = bucket /\ signed' = signed /\ batch' = batch
    BY DEF UploadFile
<1>3. /\ past'[k] = [past[k] EXCEPT !.used = TRUE] /\ past'[k] \in Pasts
      /\ \A j \in Keys \ {k} : past'[j] = past[j]
    BY <1>1, <1>2 DEF Types, Pasts
<1>4. Types'
    <2>1. work' \in [Handlers -> Jobs \union {None}]
        BY <1>1, <1>2, UploadIsAJob DEF Types
    <2>2. past' \in [Keys -> Pasts]
        BY <1>1, <1>2, <1>3 DEF Types
    <2>3. ops' \in 0..MaxOps
        BY <1>1, BoundAssumption DEF Types, UploadFile, Does
    <2> QED
        BY <1>1, <1>2, <2>1, <2>2, <2>3 DEF Types
<1>5. work'[h] = Uploading(k) /\ \A g \in Handlers \ {h} : work'[g] = work[g]
    BY <1>1, <1>2 DEF Types
<1>6. ASSUME NEW j \in Keys
      PROVE  File(j)'
    <2>1. CASE j = k
        <3>1. /\ bucket \in Buckets /\ work \in Works /\ work' \in Works /\ past[k] \in Pasts
              /\ signed \in SUBSET Keys
            BY <1>1, <1>4 DEF Types, Buckets, Works
        <3>2. Others(work, work', h, k) /\ ~At(work, h, k)
            BY <1>2, <1>5 DEF Others, At
        <3>3. KeyInv(bucket, work', past'[k], signed, k)
            BY <1>1, <1>2, <1>3, <1>5, <3>1, <3>2, UploadBegins DEF File
        <3> QED
            BY <1>2, <2>1, <3>3 DEF File
    <2>2. CASE j # k
        <3>1. Uploading(k).key = k
            BY DEF Uploading, Job
        <3>2. Alike(work, work', j)
            BY <1>2, <1>5, <2>2, <3>1 DEF Alike, At
        <3> QED
            BY <1>1, <1>2, <1>3, <1>4, <2>2, <3>2, OtherFile
    <2> QED
        BY <2>1, <2>2
<1>7. BatchInv'
    <2>1. \A g \in Handlers : batch # None /\ g \in batch.left =>
                work'[g] # None /\ work'[g].op = work[g].op /\ work'[g].key = work[g].key
        BY <1>1, <1>2, <1>5 DEF BatchInv
    <2>2. \A j \in Keys : past[j].stored => past'[j].stored
        BY <1>1, <1>3 DEF Types, Pasts
    <2> QED
        BY <1>1, <1>2, <2>1, <2>2, BatchWaits
<1> QED
    BY <1>4, <1>6, <1>7 DEF IInv, File

\* Beginning a delete or an update keeps the invariant.
LEMMA BeginKeeps ==
    ASSUME IInv, NEW h \in Handlers, NEW k \in Keys, NEW w \in Jobs, w.key = k,
           w.step \in {"remove", "head"}, Begin(h, k, w)
    PROVE  IInv'
<1>1. Types /\ BatchInv /\ \A j \in Keys : File(j)
    BY DEF IInv, File
<1> DEFINE over == Running(k) # {}
           same == \E g \in Running(k) :
                        w.op = "update" /\ work[g].op = "update" /\ work[g].temp = w.temp
<1>2. /\ work' = [work EXCEPT ![h] = w] /\ work[h] = None /\ past[k].stored
      /\ past' = [past EXCEPT ![k].overlapped = @ \/ over, ![k].collided = @ \/ same]
      /\ bucket' = bucket /\ signed' = signed /\ batch' = batch
    BY DEF Begin
<1> HIDE DEF over, same
<1>3. /\ past'[k] = [past[k] EXCEPT !.overlapped = @ \/ over, !.collided = @ \/ same]
      /\ \A j \in Keys \ {k} : past'[j] = past[j]
    BY <1>1, <1>2 DEF Types, Pasts
<1>4. past'[k] \in Pasts /\ (past'[k].stored <=> past[k].stored)
    <2>1. past[k] \in Pasts /\ over \in BOOLEAN /\ same \in BOOLEAN
        BY <1>1 DEF Types, over, same
    <2> QED
        BY <1>3, <2>1 DEF Pasts
<1>5. Types'
    <2>1. work' \in [Handlers -> Jobs \union {None}]
        BY <1>1, <1>2 DEF Types
    <2>2. past' \in [Keys -> Pasts]
        BY <1>1, <1>2, <1>3, <1>4 DEF Types
    <2>3. ops' \in 0..MaxOps
        BY <1>1, BoundAssumption DEF Types, Begin, Does
    <2> QED
        BY <1>1, <1>2, <2>1, <2>2, <2>3 DEF Types
<1>6. /\ work'[h] = w /\ \A g \in Handlers \ {h} : work'[g] = work[g]
      /\ w # None
    BY <1>1, <1>2, JobsHaveFields DEF Types
<1>7. ASSUME NEW j \in Keys
      PROVE  File(j)'
    <2>1. CASE j = k
        <3>1. /\ bucket \in Buckets /\ work \in Works /\ work' \in Works /\ past[k] \in Pasts
              /\ signed \in SUBSET Keys
            BY <1>1, <1>5 DEF Types, Buckets, Works
        <3>2. Others(work, work', h, k) /\ At(work', h, k)
            BY <1>2, <1>6 DEF Others, At
        <3>3. over <=> \E g \in Handlers : At(work, g, k)
            BY DEF over, Running, At
        <3>4. same <=> \E g \in Handlers :
                            /\ At(work, g, k) /\ work'[h].op = "update" /\ work[g].op = "update"
                            /\ work[g].temp = work'[h].temp
            BY <1>6 DEF same, Running, At
        <3>5. Noted(work, work', past[k], past'[k], h, k)
            BY <1>3, <3>3, <3>4 DEF Noted
        <3>6. work'[h].step \in {"remove", "head"} /\ work[h] = None /\ past[k].stored
            BY <1>2, <1>6
        <3>7. KeyInv(bucket, work, past[k], signed, k)
            BY <1>1 DEF File
        <3>8. KeyInv(bucket, work', past'[k], signed, k)
            BY <1>4, <3>1, <3>2, <3>5, <3>6, <3>7, OperationBegins
        <3> QED
            BY <1>2, <2>1, <3>8 DEF File
    <2>2. CASE j # k
        <3>1. Alike(work, work', j)
            BY <1>2, <1>6, <2>2 DEF Alike, At
        <3> QED
            BY <1>1, <1>2, <1>3, <1>5, <2>2, <3>1, OtherFile
    <2> QED
        BY <2>1, <2>2
<1>8. BatchInv'
    <2>1. \A g \in Handlers : batch # None /\ g \in batch.left =>
                work'[g] # None /\ work'[g].op = work[g].op /\ work'[g].key = work[g].key
        BY <1>1, <1>2, <1>6 DEF BatchInv
    <2>2. \A j \in Keys : past[j].stored => past'[j].stored
        BY <1>3, <1>4
    <2> QED
        BY <1>1, <1>2, <2>1, <2>2, BatchWaits
<1> QED
    BY <1>5, <1>7, <1>8 DEF IInv, File

\* DeleteFile keeps the invariant.
LEMMA DeleteFileKeeps ==
    ASSUME IInv, NEW h \in Handlers, NEW k \in Keys, DeleteFile(h, k)
    PROVE  IInv'
<1> DEFINE w == Job("delete", k, "remove", CHOOSE t \in Temps : TRUE, {})
<1>1. (CHOOSE t \in Temps : TRUE) \in Temps
    BY TempsAssumption
<1>2. w \in Jobs /\ w.key = k /\ w.step \in {"remove", "head"}
    BY <1>1, BeginsAJob
<1>3. Begin(h, k, w)
    BY DEF DeleteFile
<1> HIDE DEF w
<1> QED
    BY <1>2, <1>3, BeginKeeps

\* UpdateFileMetadata keeps the invariant.
LEMMA UpdateFileMetadataKeeps ==
    ASSUME IInv, NEW h \in Handlers, NEW k \in Keys, NEW t \in Temps, NEW F \in SUBSET Fields,
           UpdateFileMetadata(h, k, t, F)
    PROVE  IInv'
<1> DEFINE w == Job("update", k, "head", t, F)
<1>1. w \in Jobs /\ w.key = k /\ w.step \in {"remove", "head"}
    BY BeginsAJob
<1>2. Begin(h, k, w)
    BY DEF UpdateFileMetadata
<1> HIDE DEF w
<1> QED
    BY <1>1, <1>2, BeginKeeps

\* UploadMultipleFiles keeps the invariant: its keys are new and differ.
LEMMA UploadMultipleFilesKeeps ==
    ASSUME IInv, NEW S \in SUBSET Handlers, S # {}, NEW key \in [S -> Keys],
           UploadMultipleFiles(key)
    PROVE  IInv'
<1>1. Types /\ \A j \in Keys : File(j)
    BY DEF IInv, File
<1>2. /\ \A h \in S : work[h] = None /\ ~past[key[h]].used
      /\ \A g, h \in S : key[g] = key[h] => g = h
      /\ \A h \in Handlers : work'[h] = IF h \in S THEN Uploading(key[h]) ELSE work[h]
      /\ work' = [h \in Handlers |-> IF h \in S THEN Uploading(key[h]) ELSE work[h]]
      /\ past' = [k \in Keys |-> [past[k] EXCEPT !.used = @ \/ \E h \in S : key[h] = k]]
      /\ batch' = [files |-> {key[h] : h \in S}, left |-> S, told |-> None]
      /\ bucket' = bucket /\ signed' = signed
    BY DEF UploadMultipleFiles
<1>3. ASSUME NEW k \in Keys
      PROVE  /\ past'[k] = [past[k] EXCEPT !.used = @ \/ \E h \in S : key[h] = k]
             /\ past'[k] \in Pasts
    <2> DEFINE taken == \E h \in S : key[h] = k
    <2>1. past'[k] = [past[k] EXCEPT !.used = @ \/ taken]
        BY <1>2
    <2>2. taken \in BOOLEAN /\ past[k] \in Pasts
        BY <1>1 DEF Types
    <2> HIDE DEF taken
    <2>3. past'[k] \in Pasts
        BY <2>1, <2>2 DEF Pasts
    <2> QED
        BY <2>1, <2>3 DEF taken
<1>4. Types'
    <2>1. work' \in [Handlers -> Jobs \union {None}]
        BY <1>1, <1>2, UploadIsAJob DEF Types
    <2>2. past' \in [Keys -> Pasts]
        BY <1>2, <1>3
    <2>3. ops' \in 0..MaxOps
        BY <1>1, BoundAssumption DEF Types, UploadMultipleFiles, Does
    <2>4. batch' \in Batch
        BY <1>2 DEF Batch
    <2> QED
        BY <1>1, <1>2, <2>1, <2>2, <2>3, <2>4 DEF Types
<1>5. ASSUME NEW j \in Keys
      PROVE  File(j)'
    <2>1. CASE \E h \in S : key[h] = j
        <3>1. PICK h \in S : key[h] = j
            BY <2>1
        <3>2. /\ bucket \in Buckets /\ work \in Works /\ work' \in Works /\ past[j] \in Pasts
              /\ signed \in SUBSET Keys
            BY <1>1, <1>4 DEF Types, Buckets, Works
        <3>3. work'[h] = Uploading(j) /\ ~past[j].used /\ work[h] = None /\ h \in Handlers
            BY <1>2, <3>1
        <3>4. \A g \in S : Uploading(key[g]).key = key[g]
            BY DEF Uploading, Job
        <3>5. Others(work, work', h, j) /\ ~At(work, h, j)
            BY <1>2, <3>1, <3>3, <3>4 DEF Others, At
        <3>6. past'[j] = [past[j] EXCEPT !.used = TRUE] /\ past'[j] \in Pasts
            BY <1>3, <2>1 DEF Pasts
        <3>7. KeyInv(bucket, work, past[j], signed, j)
            BY <1>1 DEF File
        <3>8. KeyInv(bucket, work', past'[j], signed, j)
            BY <3>2, <3>3, <3>5, <3>6, <3>7, UploadBegins
        <3> QED
            BY <1>2, <3>8 DEF File
    <2>2. CASE ~ \E h \in S : key[h] = j
        <3>1. past'[j] = past[j]
            BY <1>1, <1>3, <2>2 DEF Types, Pasts
        <3>2. \A g \in S : Uploading(key[g]).key = key[g]
            BY DEF Uploading, Job
        <3>3. Alike(work, work', j)
            BY <1>2, <2>2, <3>2 DEF Alike, At
        <3> QED
            BY <1>1, <1>2, <1>4, <3>1, <3>3, OtherFile
    <2> QED
        BY <2>1, <2>2
<1>6. BatchInv'
    <2>1. batch'.left = S /\ batch'.files = {key[h] : h \in S} /\ batch'.told = None
        BY <1>2
    <2>2. \A h \in S : work'[h] # None /\ work'[h].op = "upload" /\ work'[h].key = key[h]
        BY <1>2, UploadIsAJob DEF Uploading, Job
    <2> QED
        BY <2>1, <2>2, NoneAssumption DEF BatchInv
<1> QED
    BY <1>4, <1>5, <1>6 DEF IInv, File

\* GeneratePresignedUploadUrl keeps the invariant.
LEMMA GeneratePresignedUploadUrlKeeps ==
    ASSUME IInv, NEW k \in Keys, GeneratePresignedUploadUrl(k)
    PROVE  IInv'
<1>1. Types /\ BatchInv /\ \A j \in Keys : File(j)
    BY DEF IInv, File
<1>2. /\ past' = [past EXCEPT ![k].used = TRUE] /\ ~past[k].used
      /\ bucket' = bucket /\ signed' = signed \union {k} /\ batch' = batch
      /\ work' = work /\ ops' = ops
    BY DEF GeneratePresignedUploadUrl
<1>3. /\ past'[k] = [past[k] EXCEPT !.used = TRUE] /\ past'[k] \in Pasts
      /\ past'[k].stored <=> past[k].stored
      /\ \A j \in Keys \ {k} : past'[j] = past[j]
    BY <1>1, <1>2 DEF Types, Pasts
<1>4. Types'
    BY <1>1, <1>2, <1>3 DEF Types
<1>5. ASSUME NEW j \in Keys
      PROVE  File(j)'
    <2>1. CASE j = k
        <3>1. /\ bucket \in Buckets /\ work \in Works /\ past[k] \in Pasts
              /\ signed \in SUBSET Keys /\ signed' \in SUBSET Keys
            BY <1>1, <1>4 DEF Types, Buckets, Works
        <3>2. KeyInv(bucket, work, past[k], signed, k)
            BY <1>1 DEF File
        <3>3. KeyInv(bucket, work, past'[k], signed', k)
            BY <1>2, <1>3, <3>1, <3>2, AddressIsGiven
        <3> QED
            BY <1>2, <2>1, <3>3 DEF File
    <2>2. CASE j # k
        <3>1. Alike(work, work', j) /\ (j \in signed' <=> j \in signed)
            BY <1>2, <2>2 DEF Alike
        <3> QED
            BY <1>1, <1>2, <1>3, <1>4, <2>2, <3>1, OtherFile
    <2> QED
        BY <2>1, <2>2
<1>6. BatchInv'
    <2>1. \A g \in Handlers : batch # None /\ g \in batch.left =>
                work'[g] # None /\ work'[g].op = work[g].op /\ work'[g].key = work[g].key
        BY <1>1, <1>2 DEF BatchInv
    <2>2. \A j \in Keys : past[j].stored => past'[j].stored
        BY <1>3
    <2> QED
        BY <1>1, <1>2, <2>1, <2>2, BatchWaits
<1> QED
    BY <1>4, <1>5, <1>6 DEF IInv, File

\* BrowserPuts keeps the invariant.
LEMMA BrowserPutsKeeps ==
    ASSUME IInv, NEW k \in Keys, BrowserPuts(k)
    PROVE  IInv'
<1>1. Types /\ BatchInv /\ \A j \in Keys : File(j)
    BY DEF IInv, File
<1>2. /\ past' = [past EXCEPT ![k].stored = TRUE, ![k].again = @ \/ past[k].stored]
      /\ bucket' = [bucket EXCEPT ![k] = Uploaded] /\ k \in signed
      /\ signed' = signed /\ batch' = batch /\ work' = work
    BY DEF BrowserPuts
<1>3. /\ past'[k] = [past[k] EXCEPT !.stored = TRUE, !.again = @ \/ past[k].stored]
      /\ \A j \in Keys \ {k} : past'[j] = past[j]
    BY <1>1, <1>2 DEF Types, Pasts
<1>4. past'[k] \in Pasts /\ past'[k].stored
    BY <1>1, <1>3 DEF Types, Pasts
<1>5. /\ \A j \in Keys : bucket'[j] = IF j = k THEN Uploaded ELSE bucket[j]
      /\ \A j \in Keys, t \in Temps : bucket'[Copy(j, t)] = bucket[Copy(j, t)]
    <2>1. k \in Places /\ \A j \in Keys : j \in Places
        BY DEF Places
    <2>2. \A j \in Keys, t \in Temps : Copy(j, t) \in Places /\ Copy(j, t) # k
        BY PlacesApart
    <2> QED
        BY <1>1, <1>2, <2>1, <2>2 DEF Types
<1>6. Types'
    <2>1. bucket' \in [Places -> Objects \union {None}]
        BY <1>1, <1>2, ObjectsAreThere DEF Types
    <2>2. past' \in [Keys -> Pasts]
        BY <1>1, <1>2, <1>3, <1>4 DEF Types
    <2>3. ops' \in 0..MaxOps
        BY <1>1, BoundAssumption DEF Types, BrowserPuts, Does
    <2> QED
        BY <1>1, <1>2, <2>1, <2>2, <2>3 DEF Types
<1>7. ASSUME NEW j \in Keys
      PROVE  File(j)'
    <2>1. /\ bucket \in Buckets /\ bucket' \in Buckets /\ work \in Works /\ past[j] \in Pasts
          /\ signed \in SUBSET Keys
        BY <1>1, <1>6 DEF Types, Buckets, Works
    <2>2. KeyInv(bucket, work, past[j], signed, j)
        BY <1>1 DEF File
    <2>3. CASE j = k
        <3>1. KeyInv(bucket', work, past'[k], signed, k)
            BY <1>2, <1>3, <1>4, <1>5, <2>1, <2>2, <2>3, PutByBrowser
        <3> QED
            BY <1>2, <2>3, <3>1 DEF File
    <2>4. CASE j # k
        <3>1. Alike(work, work, j)
            BY DEF Alike
        <3>2. KeyInv(bucket', work, past[j], signed, j)
            BY <1>5, <2>1, <2>2, <2>4, <3>1, Untouched
        <3> QED
            BY <1>2, <1>3, <2>4, <3>2 DEF File
    <2> QED
        BY <2>3, <2>4
<1>8. BatchInv'
    <2>1. \A g \in Handlers : batch # None /\ g \in batch.left =>
                work'[g] # None /\ work'[g].op = work[g].op /\ work'[g].key = work[g].key
        BY <1>1, <1>2 DEF BatchInv
    <2>2. \A j \in Keys : past[j].stored => past'[j].stored
        BY <1>3, <1>4
    <2> QED
        BY <1>1, <1>2, <2>1, <2>2, BatchWaits
<1> QED
    BY <1>6, <1>7, <1>8 DEF IInv, File

\* FifteenMinutes keeps the invariant.
LEMMA FifteenMinutesKeeps ==
    ASSUME IInv, NEW k \in Keys, FifteenMinutes(k)
    PROVE  IInv'
<1>1. Types /\ BatchInv /\ \A j \in Keys : File(j)
    BY DEF IInv, File
<1>2. /\ signed' = signed \ {k}
      /\ bucket' = bucket /\ batch' = batch /\ work' = work /\ past' = past /\ ops' = ops
    BY DEF FifteenMinutes
<1>3. Types'
    BY <1>1, <1>2 DEF Types
<1>4. ASSUME NEW j \in Keys
      PROVE  File(j)'
    <2>1. /\ bucket \in Buckets /\ work \in Works /\ past[j] \in Pasts
          /\ signed \in SUBSET Keys /\ signed' \in SUBSET Keys
        BY <1>1, <1>3 DEF Types, Buckets, Works
    <2>2. KeyInv(bucket, work, past[j], signed, j)
        BY <1>1 DEF File
    <2>3. CASE j = k
        <3>1. KeyInv(bucket, work, past[j], signed', j)
            BY <1>2, <2>1, <2>2, <2>3, AddressExpires
        <3> QED
            BY <1>2, <3>1 DEF File
    <2>4. CASE j # k
        <3>1. Alike(work, work', j) /\ (j \in signed' <=> j \in signed)
            BY <1>2, <2>4 DEF Alike
        <3> QED
            BY <1>1, <1>2, <1>3, <3>1, OtherFile
    <2> QED
        BY <2>3, <2>4
<1>5. BatchInv'
    BY <1>1, <1>2 DEF BatchInv
<1> QED
    BY <1>3, <1>4, <1>5 DEF IInv, File

\* Other files: a call, its answer and its failure are about one file.
LEMMA AwayFromTheCall ==
    ASSUME IInv, Types', NEW h \in Handlers, work[h] # None, NEW j \in Keys, j # work[h].key,
           bucket'[j] = bucket[j], \A t \in Temps : bucket'[Copy(j, t)] = bucket[Copy(j, t)],
           \A g \in Handlers \ {h} : work'[g] = work[g],
           work'[h] = None \/ work'[h].key = work[h].key,
           past'[j] = past[j], signed' = signed
    PROVE  File(j)'
<1>1. /\ bucket \in Buckets /\ bucket' \in Buckets /\ work \in Works /\ work' \in Works
      /\ past[j] \in Pasts /\ signed \in SUBSET Keys
    BY DEF IInv, Types, Buckets, Works
<1>2. Alike(work, work', j)
    BY DEF Alike, At
<1>3. KeyInv(bucket, work, past[j], signed, j)
    BY DEF IInv
<1>4. KeyInv(bucket', work', past[j], signed, j)
    BY <1>1, <1>2, <1>3, Untouched
<1> QED
    BY <1>4 DEF File

\* An operation that stops is noted on its file.
LEMMA StopsIsOne ==
    ASSUME Types, NEW w \in Jobs, Stops(w),
           NEW y, y = [past[w.key] EXCEPT
                        !.broken = @ \/ w.step \in {"drop", "copyBack", "dropTemp"},
                        !.littered = @ \/ w.step = "copyOut",
                        !.deleted = @ \/ w.op = "delete"]
    PROVE  /\ past' = [past EXCEPT ![w.key] = y] /\ y \in Pasts
           /\ past[w.key].stored => y.stored
<1> DEFINE broke == w.step \in {"drop", "copyBack", "dropTemp"}
           litter == w.step = "copyOut"
           del == w.op = "delete"
<1>1. w.key \in Keys /\ past \in [Keys -> Pasts] /\ past[w.key] \in Pasts
    BY JobsHaveFields DEF Types
<1>2. broke \in BOOLEAN /\ litter \in BOOLEAN /\ del \in BOOLEAN
    OBVIOUS
<1>3. /\ y = [past[w.key] EXCEPT !.broken = @ \/ broke, !.littered = @ \/ litter,
                                 !.deleted = @ \/ del]
      /\ past' = [past EXCEPT ![w.key].broken = @ \/ broke, ![w.key].littered = @ \/ litter,
                              ![w.key].deleted = @ \/ del]
    BY DEF Stops
<1> HIDE DEF broke, litter, del
<1> QED
    BY <1>1, <1>2, <1>3 DEF Pasts

\* A job that moves to its next call is a job.
LEMMA JobMoves ==
    ASSUME NEW w \in Jobs, w.step \in DOMAIN NextStep, NEW m \in FileMetadata
    PROVE  [w EXCEPT !.step = NextStep[w.step], !.attempt = 1, !.meta = m] \in Jobs
<1>1. /\ w \in Work /\ w.op = "update" /\ 1 \in 1..MaxRetries
      /\ NextStep[w.step] \in {"copyOut", "drop", "copyBack", "dropTemp"}
    BY JobsHaveFields, RetriesAssumption DEF Jobs, NextStep
<1> QED
    BY <1>1 DEF Jobs, Work, Fits, Steps

\* A call that is answered keeps the invariant.
LEMMA AnsweredKeeps ==
    ASSUME IInv, NEW h \in Handlers, Answered(h)
    PROVE  IInv'
<1> DEFINE w == work[h]
           k == w.key
           moves == w.step \in DOMAIN NextStep
           read == Merged(getFileMetadata(bucket[k]), w.gives, h)
           next == [w EXCEPT !.step = NextStep[w.step], !.attempt = 1,
                             !.meta = IF w.step = "head" THEN read ELSE @]
           ended == [past[k] EXCEPT !.stored = @ \/ w.op = "upload",
                                    !.deleted = @ \/ w.op = "delete",
                                    !.gone = @ \/ w.op = "delete",
                                    !.updates = IF w.op = "update" THEN AndUpdate(@, w.gives, h) ELSE @]
<1>1. Types /\ BatchInv /\ \A j \in Keys : File(j)
    BY DEF IInv, File
<1>2. /\ w # None /\ w \in Jobs /\ w \in Work /\ k \in Keys /\ At(work, h, k) /\ past[k] \in Pasts
      /\ w.meta \in FileMetadata /\ w.gives \in SUBSET Fields
      /\ \/ w.op = "upload" /\ w.step = "put"
         \/ w.op = "delete" /\ w.step = "remove"
         \/ w.op = "update" /\ w.step \in {"head", "copyOut", "drop", "copyBack", "dropTemp"}
    BY <1>1, JobsHaveFields DEF Answered, Types, At
<1>3. /\ bucket' \in Buckets /\ Call(bucket, bucket', work, h, k)
      /\ \A j \in Keys \ {k} :
            bucket'[j] = bucket[j] /\ \A t \in Temps : bucket'[Copy(j, t)] = bucket[Copy(j, t)]
    BY <1>1, <1>2, EffectIsCall DEF Answered
<1>4. Found(bucket, work, h, k)
    BY <1>2 DEF Answered, Refused, Found, Stored, Full, Temp, Copy
<1>5. w.step = "head" => read \in FileMetadata /\ bucket'[k] = bucket[k]
    <2>1. k \in Places
        BY <1>2 DEF Places
    <2>2. bucket[k] \in Objects \/ bucket[k] = None
        BY <1>1, <2>1 DEF Types
    <2> QED
        BY <1>2, <1>3, <1>4, <2>2, ObjectsAreThere, MergedIsMetadata DEF Found, Full, Call
<1>6. signed' = signed /\ ops' = ops
    BY DEF Answered
<1>7. moves => /\ work' = [work EXCEPT ![h] = next] /\ next \in Jobs
               /\ batch' = batch /\ past' = past
    <2> SUFFICES ASSUME moves
                 PROVE  /\ work' = [work EXCEPT ![h] = next] /\ next \in Jobs
                        /\ batch' = batch /\ past' = past
        OBVIOUS
    <2>1. next \in Jobs
        BY <1>2, <1>5, JobMoves
    <2>2. work' = [work EXCEPT ![h].step = NextStep[w.step], ![h].attempt = 1,
                               ![h].meta = IF w.step = "head" THEN read ELSE @]
          /\ batch' = batch /\ past' = past
        BY DEF Answered
    <2> QED
        BY <1>1, <1>2, <2>1, <2>2 DEF Types, Works
<1>8. ~moves => /\ work' = [work EXCEPT ![h] = None] /\ Ends(h) /\ Tell(h, TRUE)
                /\ past' = [past EXCEPT ![k] = ended] /\ ended \in Pasts
                /\ (past[k].stored \/ w.op = "upload" => ended.stored)
    <2> SUFFICES ASSUME ~moves
                 PROVE  /\ work' = [work EXCEPT ![h] = None] /\ Ends(h) /\ Tell(h, TRUE)
                        /\ past' = [past EXCEPT ![k] = ended] /\ ended \in Pasts
                        /\ (past[k].stored \/ w.op = "upload" => ended.stored)
        OBVIOUS
    <2>1. /\ Ends(h) /\ Tell(h, TRUE)
          /\ past' = [past EXCEPT ![k].stored = @ \/ w.op = "upload",
                                  ![k].deleted = @ \/ w.op = "delete",
                                  ![k].gone = @ \/ w.op = "delete",
                                  ![k].updates = IF w.op = "update" THEN AndUpdate(@, w.gives, h) ELSE @]
        BY DEF Answered
    <2>2. ended \in Pasts /\ (past[k].stored \/ w.op = "upload" => ended.stored)
        <3> DEFINE stored == past[k].stored \/ w.op = "upload"
                   deleted == past[k].deleted \/ w.op = "delete"
                   gone == past[k].gone \/ w.op = "delete"
                   updates == IF w.op = "update" THEN AndUpdate(past[k].updates, w.gives, h)
                                             ELSE past[k].updates
        <3>1. /\ stored \in BOOLEAN /\ deleted \in BOOLEAN /\ gone \in BOOLEAN
              /\ updates \in Tallies
            BY <1>2 DEF Pasts, Tallies, AndUpdate
        <3>2. ended = [past[k] EXCEPT !.stored = stored, !.deleted = deleted, !.gone = gone,
                                      !.updates = updates]
            OBVIOUS
        <3> HIDE DEF stored, deleted, gone, updates, ended
        <3>3. ended \in Pasts /\ (stored => ended.stored)
            BY <1>2, <3>1, <3>2 DEF Pasts
        <3> QED
            BY <3>3 DEF stored
    <2>3. past' = [past EXCEPT ![k] = ended]
        BY <1>1, <1>2, <2>1 DEF Types, Pasts
    <2> QED
        BY <2>1, <2>2, <2>3 DEF Ends
<1> HIDE DEF next, ended
<1>9. Types' /\ BatchInv'
    <2>1. CASE moves
        <3>1. work'[h] = next /\ \A g \in Handlers \ {h} : work'[g] = work[g]
            BY <1>1, <1>7, <2>1 DEF Types
        <3>2. next # None /\ next.op = w.op /\ next.key = w.key
            BY <1>2, <1>7, <2>1, JobsHaveFields DEF next, Work
        <3>3. work' \in [Handlers -> Jobs \union {None}]
            BY <1>1, <1>7, <2>1 DEF Types
        <3>4. Types'
            BY <1>1, <1>3, <1>6, <1>7, <2>1, <3>3 DEF Types, Buckets
        <3>5. \A g \in Handlers : batch # None /\ g \in batch.left =>
                work'[g] # None /\ work'[g].op = work[g].op /\ work'[g].key = work[g].key
            BY <1>1, <3>1, <3>2 DEF BatchInv
        <3>6. BatchInv'
            BY <1>1, <1>7, <2>1, <3>5, BatchWaits
        <3> QED
            BY <3>4, <3>6
    <2>2. CASE ~moves
        <3>1. /\ past'[k] = ended /\ \A j \in Keys \ {k} : past'[j] = past[j]
              /\ past' \in [Keys -> Pasts]
            BY <1>1, <1>2, <1>8, <2>2 DEF Types
        <3>2. \A j \in Keys : past[j].stored => past'[j].stored
            BY <1>8, <2>2, <3>1
        <3>3. BatchInv' /\ batch' \in Batch \union {None}
            BY <1>1, <1>2, <1>8, <2>2, <3>1, <3>2, BatchIsTold
        <3>4. work' \in [Handlers -> Jobs \union {None}]
            BY <1>1, <1>8, <2>2 DEF Types
        <3>5. Types'
            BY <1>1, <1>3, <1>6, <3>1, <3>3, <3>4 DEF Types, Buckets
        <3> QED
            BY <3>3, <3>5
    <2> QED
        BY <2>1, <2>2
<1>10. /\ \A g \in Handlers \ {h} : work'[g] = work[g]
       /\ work'[h] = IF moves THEN next ELSE None
       /\ past'[k] = IF moves THEN past[k] ELSE ended
       /\ \A j \in Keys \ {k} : past'[j] = past[j]
    BY <1>1, <1>2, <1>7, <1>8 DEF Types
<1>11. moves => next.key = k
    BY <1>2 DEF next, Work
<1>12. ASSUME NEW j \in Keys
       PROVE  File(j)'
    <2>1. CASE j = k
        <3>1. /\ bucket \in Buckets /\ work \in Works /\ work' \in Works
              /\ past'[k] \in Pasts /\ signed \in SUBSET Keys
            BY <1>1, <1>2, <1>9 DEF Types, Buckets, Works
        <3>2. KeyInv(bucket, work, past[k], signed, k)
            BY <1>1, <1>2 DEF File
        <3>3. KeyInv(bucket', work, past[k], signed, k)
            BY <1>2, <1>3, <1>4, <3>1, <3>2, CallKeeps
        <3>4. Answer(bucket', work, work', past[k], past'[k], h, k)
            <4>1. Others(work, work', h, k)
                BY <1>10 DEF Others
            <4>2. CASE moves
                <5>1. next = [w EXCEPT !.step = NextStep[w.step], !.attempt = 1,
                                       !.meta = IF w.step = "head"
                                                THEN Merged(getFileMetadata(bucket'[k]), w.gives, h) ELSE @]
                    BY <1>5 DEF next
                <5> QED
                    BY <1>10, <4>1, <4>2, <5>1 DEF Answer
            <4>3. CASE ~moves
                BY <1>10, <4>1, <4>3 DEF Answer, ended
            <4> QED
                BY <4>2, <4>3
        <3>5. KeyInv(bucket', work', past'[k], signed, k)
            BY <1>2, <1>3, <1>4, <3>1, <3>3, <3>4, AnswerKeeps
        <3> QED
            BY <1>6, <2>1, <3>5 DEF File
    <2>2. CASE j # k
        BY <1>2, <1>3, <1>6, <1>9, <1>10, <1>11, <2>2, AwayFromTheCall
    <2> QED
        BY <2>1, <2>2
<1> QED
    BY <1>9, <1>12 DEF IInv, File

\* A call that fails keeps the invariant, whether it had its effect or not, and
\* whether it is tried again or its operation stops.
LEMMA CallFailsKeeps ==
    ASSUME IInv, NEW h \in Handlers, NEW retryable \in BOOLEAN, NEW effect \in BOOLEAN,
           CallFails(h, retryable, effect)
    PROVE  IInv'
<1> DEFINE w == work[h]
           k == w.key
           again == Retried(w, retryable)
           next == [w EXCEPT !.attempt = (@ % MaxRetries) + 1]
           ended == [past[k] EXCEPT
                        !.broken = @ \/ w.step \in {"drop", "copyBack", "dropTemp"},
                        !.littered = @ \/ w.step = "copyOut",
                        !.deleted = @ \/ w.op = "delete"]
<1>1. Types /\ BatchInv /\ \A j \in Keys : File(j)
    BY DEF IInv, File
<1>2. w # None /\ w \in Jobs /\ w \in Work /\ k \in Keys /\ At(work, h, k) /\ past[k] \in Pasts
    BY <1>1, JobsHaveFields DEF CallFails, Types, At
<1>3. /\ bucket' \in Buckets
      /\ \/ bucket' = bucket
         \/ Found(bucket, work, h, k) /\ Call(bucket, bucket', work, h, k)
      /\ \A j \in Keys \ {k} :
            bucket'[j] = bucket[j] /\ \A t \in Temps : bucket'[Copy(j, t)] = bucket[Copy(j, t)]
    <2>1. CASE effect
        <3>1. bucket' = Effect(w) /\ ~Refused(w)
            BY <2>1 DEF CallFails
        <3>2. Found(bucket, work, h, k)
            BY <1>2, <3>1 DEF Refused, Found, Stored, Full, Temp, Copy
        <3> QED
            BY <1>1, <1>2, <3>1, <3>2, EffectIsCall
    <2>2. CASE ~effect
        BY <1>1, <2>2 DEF CallFails, Types, Buckets
    <2> QED
        BY <2>1, <2>2
<1>4. signed' = signed /\ ops' = ops
    BY DEF CallFails
<1>5. again => /\ work' = [work EXCEPT ![h] = next] /\ next \in Jobs
               /\ batch' = batch /\ past' = past
    <2> SUFFICES ASSUME again
                 PROVE  /\ work' = [work EXCEPT ![h] = next] /\ next \in Jobs
                        /\ batch' = batch /\ past' = past
        OBVIOUS
    <2>1. (w.attempt % MaxRetries) + 1 \in 1..MaxRetries
        BY <1>2, RetriesAssumption DEF Work
    <2>2. next \in Jobs
        BY <1>2, <2>1 DEF Jobs, Work, Fits
    <2>3. work' = [work EXCEPT ![h].attempt = (@ % MaxRetries) + 1]
          /\ batch' = batch /\ past' = past
        BY DEF CallFails
    <2> QED
        BY <1>1, <1>2, <2>2, <2>3 DEF Types
<1>6. ~again => /\ work' = [work EXCEPT ![h] = None] /\ Ends(h) /\ Tell(h, FALSE)
                /\ past' = [past EXCEPT ![k] = ended] /\ ended \in Pasts
                /\ (past[k].stored => ended.stored)
    <2> SUFFICES ASSUME ~again
                 PROVE  /\ work' = [work EXCEPT ![h] = None] /\ Ends(h) /\ Tell(h, FALSE)
                        /\ past' = [past EXCEPT ![k] = ended] /\ ended \in Pasts
                        /\ (past[k].stored => ended.stored)
        OBVIOUS
    <2>1. Ends(h) /\ Tell(h, FALSE) /\ Stops(w)
        BY DEF CallFails
    <2>2. past' = [past EXCEPT ![k] = ended] /\ ended \in Pasts /\ (past[k].stored => ended.stored)
        BY <1>1, <1>2, <2>1, StopsIsOne
    <2> QED
        BY <2>1, <2>2 DEF Ends
<1> HIDE DEF next, ended, again
<1>7. again => /\ next # None /\ next.op = w.op /\ next.key = k /\ next.step = w.step
               /\ next.temp = w.temp /\ next.meta = w.meta /\ next.gives = w.gives
    BY <1>2, <1>5, JobsHaveFields DEF next, Work
<1>8. /\ \A g \in Handlers \ {h} : work'[g] = work[g]
      /\ work'[h] = IF again THEN next ELSE None
      /\ past'[k] = IF again THEN past[k] ELSE ended
      /\ \A j \in Keys \ {k} : past'[j] = past[j]
    BY <1>1, <1>2, <1>5, <1>6 DEF Types
<1>9. \A j \in Keys : past[j].stored => past'[j].stored
    BY <1>6, <1>8
<1>10. Types' /\ BatchInv'
    <2>1. CASE again
        <3>1. Types'
            BY <1>1, <1>3, <1>4, <1>5, <2>1 DEF Types, Buckets
        <3>2. \A g \in Handlers : batch # None /\ g \in batch.left =>
                work'[g] # None /\ work'[g].op = work[g].op /\ work'[g].key = work[g].key
            BY <1>1, <1>7, <1>8, <2>1 DEF BatchInv
        <3> QED
            BY <1>1, <1>5, <1>9, <2>1, <3>1, <3>2, BatchWaits
    <2>2. CASE ~again
        <3>1. BatchInv' /\ batch' \in Batch \union {None}
            BY <1>1, <1>2, <1>6, <1>9, <2>2, BatchIsTold
        <3>2. work' \in [Handlers -> Jobs \union {None}] /\ past' \in [Keys -> Pasts]
            BY <1>1, <1>6, <2>2 DEF Types
        <3> QED
            BY <1>1, <1>3, <1>4, <3>1, <3>2 DEF Types, Buckets
    <2> QED
        BY <2>1, <2>2
<1>11. ASSUME NEW j \in Keys
       PROVE  File(j)'
    <2>1. CASE j = k
        <3>1. /\ bucket \in Buckets /\ work \in Works /\ work' \in Works
              /\ past'[k] \in Pasts /\ signed \in SUBSET Keys
            BY <1>1, <1>2, <1>10 DEF Types, Buckets, Works
        <3>2. KeyInv(bucket, work, past[k], signed, k)
            BY <1>1, <1>2 DEF File
        <3>3. KeyInv(bucket', work, past[k], signed, k)
            BY <1>2, <1>3, <3>1, <3>2, CallKeeps
        <3>4. CASE again
            <4>1. Alike(work, work', k)
                BY <1>2, <1>7, <1>8, <3>4 DEF Alike, At
            <4>2. KeyInv(bucket', work', past[k], signed, k)
                BY <1>2, <1>3, <3>1, <3>3, <4>1, Untouched
            <4> QED
                BY <1>4, <1>8, <2>1, <3>4, <4>2 DEF File
        <3>5. CASE ~again
            <4>1. Stopped(work, work', past[k], past'[k], h, k)
                BY <1>8, <3>5 DEF Stopped, Others, ended
            <4>2. KeyInv(bucket', work', past'[k], signed, k)
                BY <1>2, <1>3, <3>1, <3>3, <4>1, StopKeeps
            <4> QED
                BY <1>4, <2>1, <4>2 DEF File
        <3> QED
            BY <3>4, <3>5
    <2>2. CASE j # k
        BY <1>2, <1>3, <1>4, <1>7, <1>8, <1>10, <2>2, AwayFromTheCall
    <2> QED
        BY <2>1, <2>2
<1> QED
    BY <1>10, <1>11 DEF IInv, File

\* The loss of an instance keeps the invariant: with a handler of a batch only
\* uploads are lost.
LEMMA CrashKeeps ==
    ASSUME IInv, NEW h \in Handlers, Crash(h)
    PROVE  IInv'
<1> DEFINE w == work[h]
           k == w.key
           inBatch == batch # None /\ h \in batch.left
           down == IF inBatch THEN batch.left ELSE {h}
           ended == [past[k] EXCEPT
                        !.broken = @ \/ w.step \in {"drop", "copyBack", "dropTemp"},
                        !.littered = @ \/ w.step = "copyOut",
                        !.deleted = @ \/ w.op = "delete"]
<1>1. Types /\ BatchInv /\ \A j \in Keys : File(j)
    BY DEF IInv, File
<1>2. w # None /\ w \in Jobs /\ k \in Keys /\ At(work, h, k) /\ past[k] \in Pasts
    BY <1>1, JobsHaveFields DEF Crash, Types, At
<1>3. /\ work' = [g \in Handlers |-> IF g \in down THEN None ELSE work[g]]
      /\ batch' = IF inBatch THEN [batch EXCEPT !.left = {}] ELSE batch
      /\ bucket' = bucket /\ signed' = signed
    BY DEF Crash
<1>4. /\ past' = [past EXCEPT ![k] = ended] /\ ended \in Pasts
      /\ (past[k].stored => ended.stored)
    BY <1>1, <1>2, StopsIsOne DEF Crash
<1> HIDE DEF ended
<1>5. /\ past'[k] = ended /\ \A j \in Keys \ {k} : past'[j] = past[j]
      /\ \A j \in Keys : past[j].stored => past'[j].stored
    BY <1>1, <1>2, <1>4 DEF Types
<1>6. batch # None => batch \in Batch /\ batch.left \in SUBSET Handlers
    BY <1>1 DEF Types, Batch
<1>7. h \in down /\ \A g \in down : g \in Handlers /\ work[g] # None
                                     /\ (g # h => work[g].op = "upload" /\ w.op = "upload")
    BY <1>1, <1>2, <1>6 DEF BatchInv
<1>8. /\ \A g \in down : work'[g] = None
      /\ \A g \in Handlers \ down : work'[g] = work[g]
    BY <1>3, <1>7
<1> HIDE DEF down
<1>9. Types'
    <2>1. work' \in [Handlers -> Jobs \union {None}]
        BY <1>1, <1>3 DEF Types
    <2>2. past' \in [Keys -> Pasts]
        BY <1>1, <1>4 DEF Types
    <2>3. batch' \in Batch \union {None}
        BY <1>1, <1>3, <1>6 DEF Types, Batch
    <2>4. ops' \in 0..MaxOps
        BY <1>1, BoundAssumption DEF Types, Crash, Does
    <2> QED
        BY <1>1, <1>3, <2>1, <2>2, <2>3, <2>4 DEF Types
<1>10. ASSUME NEW j \in Keys
       PROVE  File(j)'
    <2>1. /\ bucket \in Buckets /\ work \in Works /\ work' \in Works
          /\ past[j] \in Pasts /\ past'[j] \in Pasts /\ signed \in SUBSET Keys
        BY <1>1, <1>9 DEF Types, Buckets, Works
    <2>2. KeyInv(bucket, work, past[j], signed, j)
        BY <1>1 DEF File
    <2>3. CASE \E g \in down : At(work, g, j)
        <3>1. PICK g \in down : At(work, g, j)
            BY <2>3
        <3>2. g # h => \A f \in Handlers : At(work, f, j) => f = g
            BY <1>7, <2>2, <3>1 DEF KeyInv, Ours
        <3>3. g = h => j = k
            BY <3>1 DEF At
        <3>4. Others(work, work', g, j)
            <4>1. CASE g = h
                <5>1. \A f \in down \ {h} : ~At(work, f, j)
                    BY <1>2, <1>7, <2>2, <3>3, <4>1 DEF KeyInv, Ours
                <5> QED
                    BY <1>8, <4>1, <5>1 DEF Others, At
            <4>2. CASE g # h
                BY <1>8, <3>2, <4>2 DEF Others, At
            <4> QED
                BY <4>1, <4>2
        <3>5. work'[g] = None /\ g \in Handlers
            BY <1>7, <1>8
        <3>6. CASE g = h
            <4>1. Stopped(work, work', past[j], past'[j], g, j)
                BY <1>5, <3>3, <3>4, <3>5, <3>6 DEF Stopped, ended
            <4>2. KeyInv(bucket, work', past'[j], signed, j)
                BY <2>1, <2>2, <3>1, <3>5, <4>1, StopKeeps
            <4> QED
                BY <1>3, <4>2 DEF File
        <3>7. CASE g # h
            <4>1. work[g].op = "upload" /\ work[g].step = "put"
                BY <1>7, <2>1, <3>1, <3>5, <3>7, WorkHasFields
            <4>2. j # k
                BY <1>2, <3>2, <3>7
            <4>3. past'[j] = past[j]
                BY <1>5, <4>2
            <4>4. Stopped(work, work', past[j], past[j], g, j)
                BY <2>1, <3>4, <3>5, <4>1 DEF Stopped, Pasts
            <4>5. KeyInv(bucket, work', past[j], signed, j)
                BY <2>1, <2>2, <3>1, <3>5, <4>4, StopKeeps
            <4> QED
                BY <1>3, <4>3, <4>5 DEF File
        <3> QED
            BY <3>6, <3>7
    <2>4. CASE ~ \E g \in down : At(work, g, j)
        <3>1. j # k
            BY <1>2, <1>7, <2>4
        <3>2. Alike(work, work', j)
            BY <1>8, <2>4 DEF Alike, At
        <3> QED
            BY <1>1, <1>3, <1>5, <1>9, <3>1, <3>2, OtherFile
    <2> QED
        BY <2>3, <2>4
<1>11. BatchInv'
    <2>1. CASE inBatch
        <3>1. batch'.left = {} /\ batch'.files = batch.files /\ batch'.told = batch.told
            BY <1>3, <1>6, <2>1 DEF Batch
        <3>2. batch.files \in SUBSET Keys
            BY <1>6, <2>1 DEF Batch
        <3> QED
            BY <1>1, <1>5, <2>1, <3>1, <3>2 DEF BatchInv
    <2>2. CASE ~inBatch
        <3>1. \A g \in Handlers : batch # None /\ g \in batch.left =>
                work'[g] # None /\ work'[g].op = work[g].op /\ work'[g].key = work[g].key
            BY <1>1, <1>8, <2>2 DEF BatchInv, down
        <3> QED
            BY <1>1, <1>3, <1>5, <2>2, <3>1, BatchWaits
    <2> QED
        BY <2>1, <2>2
<1> QED
    BY <1>9, <1>10, <1>11 DEF IInv, File

-----------------------------------------------------------------------------
(* The theorems. *)

\* The invariant holds at the start and every step keeps it.
THEOREM FilesInductive == Spec => []IInv
<1>1. Init => IInv
    <2> SUFFICES ASSUME Init
                 PROVE  IInv
        OBVIOUS
    <2>1. Types
        BY BoundAssumption DEF Init, Types, Pasts, Tallies, NoUpdate
    <2>2. ASSUME NEW k \in Keys
          PROVE  KeyInv(bucket, work, past[k], signed, k)
        <3>1. /\ \A p \in Places : bucket[p] = None
              /\ k \in Places /\ \A t \in Temps : Copy(k, t) \in Places
            BY DEF Init, Places, Copy
        <3>2. /\ ~past[k].stored /\ ~past[k].deleted /\ ~past[k].gone /\ past[k].updates = NoUpdate
              /\ signed = {} /\ \A h \in Handlers : work[h] = None
            BY DEF Init
        <3> QED
            BY <3>1, <3>2 DEF KeyInv, Ours, Apart, CopyThere, Somewhere, OnItsWay, Alone, Clean,
                Kept, GoneNow, At, In, Full
    <2>3. BatchInv
        BY DEF Init, BatchInv
    <2> QED
        BY <2>1, <2>2, <2>3 DEF IInv
<1>2. IInv /\ [Next]_vars => IInv'
    <2> SUFFICES ASSUME IInv, [Next]_vars
                 PROVE  IInv'
        OBVIOUS
    <2>1. ASSUME NEW h \in Handlers, NEW k \in Keys, UploadFile(h, k) \/ DeleteFile(h, k)
          PROVE  IInv'
        BY <2>1, UploadFileKeeps, DeleteFileKeeps
    <2>2. ASSUME NEW k \in Keys,
                 GeneratePresignedUploadUrl(k) \/ BrowserPuts(k) \/ FifteenMinutes(k)
          PROVE  IInv'
        BY <2>2, GeneratePresignedUploadUrlKeeps, BrowserPutsKeeps, FifteenMinutesKeeps
    <2>3. ASSUME NEW h \in Handlers, NEW k \in Keys, NEW u \in Updates,
                 UpdateFileMetadata(h, k, u[1], u[2])
          PROVE  IInv'
        BY <2>3, UpdatesAssumption, UpdateFileMetadataKeeps
    <2>4. ASSUME NEW S \in SUBSET Handlers, S # {}, NEW key \in [S -> Keys],
                 UploadMultipleFiles(key)
          PROVE  IInv'
        BY <2>4, UploadMultipleFilesKeeps
    <2>5. ASSUME NEW h \in Handlers, Answered(h) \/ Crash(h)
          PROVE  IInv'
        BY <2>5, AnsweredKeeps, CrashKeeps
    <2>6. ASSUME NEW h \in Handlers, NEW r \in BOOLEAN, NEW e \in BOOLEAN, CallFails(h, r, e)
          PROVE  IInv'
        BY <2>6, CallFailsKeeps
    <2>7. CASE UNCHANGED vars
        BY <2>7 DEF vars, IInv, Types, BatchInv
    <2> QED
        BY <2>1, <2>2, <2>3, <2>4, <2>5, <2>6, <2>7 DEF Next
<1> QED
    BY <1>1, <1>2, PTL DEF Spec

\* FilesAreKept: a file that was uploaded and that nobody deletes is somewhere in
\* the bucket, under its key once nobody works on it, and what is read of it is what
\* the answered updates gave, but for the content type and the tags, which every
\* update loses; a deleted one stays away; a batch that was answered with success is
\* whole.
THEOREM FilesStay == Spec => []FilesAreKept
<1>1. IInv => FilesAreKept
    <2> SUFFICES ASSUME IInv
                 PROVE  FilesAreKept
        OBVIOUS
    <2>1. Types /\ BatchInv /\ \A k \in Keys : File(k)
        BY DEF IInv, File
    <2>2. \A k \in Keys, h \in Handlers : h \in Running(k) <=> At(work, h, k)
        BY DEF Running, At
    <2>3. \A k \in Keys : Deleting(k) <=> Deletes(work, k)
        BY <2>2 DEF Deleting, Deletes, Running
    <2>4. ASSUME NEW k \in Keys
          PROVE  listFiles(k) = {p \in {k} \union {Copy(k, t) : t \in Temps} : Full(bucket, p)}
        BY DEF listFiles, Stored, Full, Copy
    <2>5. \A h \in Handlers : work[h] # None => work[h].key \in Keys
        BY <2>1, JobsHaveFields DEF Types
    <2>6. TypeOK
        <3>1. work \in [Handlers -> Work \union {None}]
            BY <2>1 DEF Types, Jobs
        <3>2. \A h \in Handlers : work[h] # None /\ work[h].op = "upload" => ~past[work[h].key].stored
            BY <2>1, <2>5 DEF File, KeyInv, Ours, At
        <3> QED
            BY <2>1, <3>1, <3>2 DEF TypeOK, Types
    <2>7. FileSurvives
        BY <2>1, <2>3, <2>4 DEF FileSurvives, File, KeyInv, Somewhere
    <2>8. FileIsUnderItsKey
        <3> SUFFICES ASSUME NEW k \in Keys, past[k].stored, ~past[k].deleted, ~past[k].broken,
                            Running(k) = {}
                     PROVE  Stored(k)
            BY DEF FileIsUnderItsKey
        <3>1. \A h \in Handlers : ~At(work, h, k)
            BY <2>2
        <3> QED
            BY <2>1, <3>1 DEF File, KeyInv, OnItsWay, In, Deletes, Stored, Full
    <2>9. ASSUME NEW k \in Keys, ~past[k].broken, ~past[k].littered,
                 \A h \in Handlers : At(work, h, k) => work[h].step \in {"head", "remove"}
          PROVE  \A t \in Temps : ~Full(bucket, Copy(k, t))
        BY <2>1, <2>9 DEF File, KeyInv, Clean, In
    <2>10. UpdatesAreKept
        <3> SUFFICES ASSUME NEW k \in Keys, past[k].stored, ~past[k].deleted, Calm(past[k]),
                            Running(k) = {}
                     PROVE  listFiles(k) = {k} /\ getFileMetadata(bucket[k]) = Told(past[k].updates)
            BY DEF UpdatesAreKept, Calm
        <3>1. \A h \in Handlers : ~At(work, h, k)
            BY <2>2
        <3>2. Says(bucket[k], past[k].updates)
            BY <2>1, <3>1 DEF File, KeyInv, Kept, Deletes
        <3>4. \A t \in Temps : ~Full(bucket, Copy(k, t))
            BY <2>9, <3>1 DEF Calm
        <3> QED
            BY <2>4, <3>2, <3>4 DEF Full, Says
    <2>11. DeletedStaysAway
        <3> SUFFICES ASSUME NEW k \in Keys, past[k].gone, Calm(past[k])
                     PROVE  listFiles(k) = {}
            BY DEF DeletedStaysAway, Calm
        <3>1. ~Full(bucket, k) /\ \A h \in Handlers : At(work, h, k) => work[h].step \in {"head", "remove"}
            BY <2>1 DEF File, KeyInv, GoneNow
        <3>2. \A t \in Temps : ~Full(bucket, Copy(k, t))
            BY <2>9, <3>1 DEF Calm
        <3> QED
            BY <2>4, <3>1, <3>2
    <2>12. BatchIsWhole
        BY <2>1 DEF BatchInv, BatchIsWhole
    <2> QED
        BY <2>6, <2>7, <2>8, <2>10, <2>11, <2>12 DEF FilesAreKept
<1> QED
    BY <1>1, FilesInductive, PTL
=============================================================================
