----------------------------- MODULE LibraryProofs -----------------------------
(* Proofs about the two components that keep the user's library:               *)
(* - BookProgress, for any number of processes and books, whatever the crashes, *)
(*   the failing writes and the programs that rewrite the files without the     *)
(*   lock: what can be recovered, what is kept, and what is written;            *)
(* - ImportMailbox, for every capacity from four up, and ImportUiPump, for any  *)
(*   number of workers and timers, failures and refused shutdowns.              *)
(* The two share no state and no constant; each half stands alone.              *)
EXTENDS BookProgress, ImportUiPump, FiniteSetTheorems, SequenceTheorems, TLAPS

-----------------------------------------------------------------------------
(* The invariant *)

Inside == {"read", "read_backup", "check_backup", "replace_backup", "confirm_backup",
           "check_primary", "replace_primary", "confirm_primary", "unlock"}

\* The stages of a change whose contents are known and not published yet.
Backing   == {"read_backup", "check_backup", "replace_backup", "confirm_backup"}
Preparing == Backing \cup {"check_primary", "replace_primary"}
Changes   == {"save", "remove"}
Restores  == {"restore", "restore_primary"}

CallRecord == [at : Stages, op : Ops, book : Books \cup {None}, mark : 0..MaxMark,
               base : Content, bbase : Content, new : Content, result : Results,
               value : (0..MaxMark) \cup (Content \X Content)]

FlowRecord == [at : Steps, candidate : Shown \cup {None}, next : Books \cup {None},
               offer : Content \X Content]

StoreTyped ==
    /\ {primary, backup} \subseteq Content
    /\ lockfile \in {"absent", "empty", "ready"} /\ holder \in Apps \cup {None}
    /\ calls \in [Apps -> CallRecord]
    /\ raced \subseteq {"primary", "backup"}
    /\ trail \in Content \X Content

FlowTyped ==
    /\ shown \in [Apps -> Shown \cup {None}]
    /\ flow \in [Apps -> FlowRecord]
    /\ marks \in 1..MaxMark /\ asked \in 0..MaxRequests
    /\ faults \in [count : 0..MaxFaults, strayed : BOOLEAN]

\* Whoever is between taking the lock and giving it up holds it, and nobody else does.
LockSound == \A p \in Apps : calls[p].at \in Inside <=> holder = p

\* What the change c makes of a content.
ChangeOf(c, base) ==
    LET loaded == IF base = None THEN Empty ELSE base
    IN  [gen |-> loaded.gen + 1, legacy |-> FALSE,
         marks |-> [loaded.marks EXCEPT ![c.book] = c.mark]]

\* A call knows what it changes, and a recovery replaces nothing that can be read.
Prepared(c) ==
    /\ c.at \in Backing => c.op \in Changes /\ Valid(c.base)
    /\ c.at \in Preparing \cup {"confirm_primary"} => c.op \in Changes \cup {"recover"}
    /\ c.at \in Preparing /\ c.op \in Changes =>
          (c.base = None \/ Valid(c.base)) /\ c.new = ChangeOf(c, c.base)
    /\ c.op = "recover" => ~ Valid(c.base)
    /\ c.at \in {"check_backup", "replace_backup"} =>
          ~ Ahead(c.bbase, c.base) /\ c.bbase # Future

\* What a call has answered.
AnswerSound(c) ==
    c.result = "ok" =>
        /\ c.op \in Restores => c.value \in 1..MaxMark
        /\ c.op = "offer" => c.value \in Content \X Content /\ ~ Valid(c.value[1])

CallSound(c) == (c.at # "idle" => c.book \in Books) /\ Prepared(c) /\ AnswerSound(c)

CallsSound == \A p \in Apps : CallSound(calls[p])

\* What has been compared is still there, or somebody has written it since.
Compares(p) ==
    /\ At(p, "replace_backup") =>
          /\ "primary" \in raced \/ primary = calls[p].base
          /\ "backup" \in raced \/ backup = calls[p].bbase
    /\ At(p, "replace_primary") =>
          /\ "primary" \in raced \/ primary = calls[p].base
          /\ "backup" \in raced \/ backup = Guard(calls[p])

Replacing == {"replace_backup", "replace_primary"}

ComparedSound ==
    /\ \A p \in Apps : Compares(p)
    /\ raced # {} => \E p \in Apps : calls[p].at \in Replacing

\* As long as only this program has written payloads, whatever can be read is one of
\* the last two contents published, and so is what a change starts from.
TrailSound ==
    ~ faults.strayed =>
        /\ Valid(primary) => primary = trail[2]
        /\ Valid(backup) => backup \in {trail[1], trail[2]}
        /\ \A p \in Apps :
              /\ calls[p].at \in Preparing /\ calls[p].op \in Changes /\ Valid(calls[p].base)
                    => calls[p].base = trail[2]
              /\ At(p, "replace_primary") /\ Valid(backup) => backup = Guard(calls[p])

\* The call that each step of a flow waits for.
CallOf(step) ==
    CASE step \in {"has", "restore"} -> "restore"
      [] step \in {"save", "save_again"} -> "save"
      [] step \in {"reload", "compare"} -> "restore_primary"
      [] OTHER -> step

Staging == {"save", "offer", "ask", "recover", "save_again"}

\* A flow, the call it is in and the book its process shows belong together.
Together(f, c, s) ==
    /\ c.at = "idle" <=> f.at \in {"idle", "ask"}
    /\ f.at \notin {"idle", "ask"} => c.op = CallOf(f.at)
    /\ f.at \in {"has", "restore"} => f.next \in Books
    /\ f.candidate # None => f.next = None
    /\ f.at \in Staging => f.candidate # None \/ s # None
    /\ f.at = "compare" => f.candidate # None
    /\ f.at = "reload" => s # None
    /\ f.at = "ask" => ~ Valid(f.offer[1])
    /\ f.at = "recover" => <<c.base, c.new>> = f.offer

FlowsSound == \A p \in Apps : Together(flow[p], calls[p], shown[p])

StoreInv == StoreTyped /\ LockSound /\ CallsSound /\ ComparedSound /\ TrailSound

BookInv == StoreInv /\ FlowTyped /\ FlowsSound

-----------------------------------------------------------------------------
(* A step in the store that replaces no file *)

\* What is required of the call c that process p is in after such a step.
Fits(p, c) ==
    /\ CallSound(c)
    /\ c.at = "replace_backup" => primary = c.base /\ backup = c.bbase
    /\ c.at = "replace_primary" => primary = c.base /\ backup = Guard(c)
    /\ ~ faults.strayed /\ c.at \in Preparing /\ c.op \in Changes /\ Valid(c.base)
          => c.base = trail[2]

\* A step that changes one call and no file keeps the invariant of the store, when
\* the call fits and has the lock at the right stages.
LEMMA CallChangeKeeps ==
  ASSUME StoreInv, NEW p \in Apps, NEW c \in CallRecord, calls' = [calls EXCEPT ![p] = c],
         UNCHANGED <<primary, backup, raced, trail>>, faults'.strayed = faults.strayed,
         lockfile' \in {"absent", "empty", "ready"},
         holder' = holder \/ <<holder, holder'>> \in {<<None, p>>, <<p, None>>},
         c.at \in Inside <=> holder' = p,
         calls[p].at \notin Replacing, Fits(p, c)
  PROVE  StoreInv'
<1> USE DEF StoreInv
<1>1. StoreTyped'
  BY DEF StoreTyped
<1>2. calls'[p] = c /\ \A q \in Apps : q # p => calls'[q] = calls[q]
  BY DEF StoreTyped
<1>3. LockSound'
  BY <1>2, StoreAssumption DEF LockSound
<1>4. CallsSound'
  BY <1>2 DEF CallsSound, Fits
<1>5. ComparedSound'
  <2>1. ASSUME NEW q \in Apps PROVE Compares(q)'
    BY <1>2 DEF ComparedSound, Compares, At, Fits, Guard
  <2>2. ASSUME raced' # {} PROVE \E q \in Apps : calls'[q].at \in Replacing
    BY <1>2, <2>2 DEF ComparedSound
  <2> QED
    BY <2>1, <2>2 DEF ComparedSound
<1>6. TrailSound'
  BY <1>2 DEF TrailSound, Fits, At, Guard
<1> QED
  BY <1>1, <1>3, <1>4, <1>5, <1>6

\* What stays the same in such a step, whatever becomes of the lock's file.
FilesStay ==
    /\ UNCHANGED <<primary, backup, raced, trail>> /\ faults'.strayed = faults.strayed
    /\ lockfile' \in {"absent", "empty", "ready"}

\* A call that ends with an error keeps the invariant, with or without the lock.
LEMMA FinishKeeps ==
  ASSUME StoreInv, FilesStay, UNCHANGED holder, NEW p \in Apps,
         NEW result \in Results \ {"ok"}, Finish(p, result),
         calls[p].at \notin Replacing \cup {"idle"}
  PROVE  StoreInv'
<1> DEFINE c == [calls[p] EXCEPT !.at = IF holder = p THEN "unlock" ELSE "done",
                                 !.result = result]
<1>1. calls[p] \in CallRecord /\ CallSound(calls[p])
  BY DEF StoreInv, StoreTyped, CallsSound
<1>2. c \in CallRecord
  BY <1>1 DEF CallRecord, Stages
<1>5. calls' = [calls EXCEPT ![p] = c]
  BY DEF Finish, StoreInv, StoreTyped, CallRecord
<1>3. c.at \in Inside <=> holder' = p
  BY <1>1 DEF Inside, CallRecord
<1>4. Fits(p, c)
  <2>1. /\ c.at \in {"unlock", "done"} /\ c.result # "ok"
        /\ c.op = calls[p].op /\ c.book = calls[p].book /\ c.base = calls[p].base
    BY <1>1 DEF CallRecord
  <2> QED
    BY <1>1, <2>1 DEF Fits, CallSound, Prepared, AnswerSound, Preparing, Backing
<1> HIDE DEF c
<1> QED
  BY <1>2, <1>5, <1>3, <1>4, CallChangeKeeps DEF FilesStay, Replacing

\* What a call may answer.
MayAnswer(c, value) ==
    /\ c.op \in Restores => value \in 1..MaxMark
    /\ c.op = "offer" => value \in Content \X Content /\ ~ Valid(value[1])

\* A call that answers keeps the invariant.
LEMMA AnswerKeeps ==
  ASSUME StoreInv, FilesStay, UNCHANGED holder, NEW p \in Apps,
         NEW value \in (0..MaxMark) \cup (Content \X Content),
         Answer(p, value), MayAnswer(calls[p], value),
         calls[p].at \in Inside \ Replacing
  PROVE  StoreInv'
<1> DEFINE c == [calls[p] EXCEPT !.at = "unlock", !.result = "ok", !.value = value]
<1>1. calls[p] \in CallRecord /\ CallSound(calls[p]) /\ calls[p].at # "idle" /\ holder = p
  BY DEF StoreInv, StoreTyped, CallsSound, LockSound, Inside
<1>2. c \in CallRecord /\ calls' = [calls EXCEPT ![p] = c]
  BY <1>1 DEF Answer, CallRecord, Stages, Results, StoreInv, StoreTyped
<1>3. c.at \in Inside <=> holder' = p
  BY <1>1 DEF Inside, CallRecord
<1>4. Fits(p, c)
  <2>1. /\ c.at = "unlock" /\ c.value = value
        /\ c.op = calls[p].op /\ c.book = calls[p].book /\ c.base = calls[p].base
    BY <1>1 DEF CallRecord
  <2> QED
    BY <1>1, <2>1 DEF Fits, CallSound, Prepared, AnswerSound, Preparing, Backing, MayAnswer
<1> HIDE DEF c
<1> QED
  BY <1>2, <1>3, <1>4, CallChangeKeeps DEF FilesStay

\* So does a call that moves on to a stage where it fits.
LEMMA MoveKeeps ==
  ASSUME StoreInv, FilesStay, NEW p \in Apps, NEW stage \in Stages, Move(p, stage),
         holder' = holder \/ <<holder, holder'>> \in {<<None, p>>, <<p, None>>},
         stage \in Inside <=> holder' = p,
         calls[p].at \notin Replacing, Fits(p, [calls[p] EXCEPT !.at = stage])
  PROVE  StoreInv'
<1> DEFINE c == [calls[p] EXCEPT !.at = stage]
<1>1. c \in CallRecord /\ calls' = [calls EXCEPT ![p] = c] /\ c.at = stage
  BY DEF Move, CallRecord, StoreInv, StoreTyped
<1>2. c.at \in Inside <=> holder' = p
  BY <1>1
<1>3. Fits(p, c)
  OBVIOUS
<1> HIDE DEF c
<1> QED
  BY <1>1, <1>2, <1>3, CallChangeKeeps DEF FilesStay

\* A stage at which nothing is prepared yet, or any more, fits whatever the call is.
LEMMA IdleStagesFit ==
  ASSUME NEW p \in Apps, NEW c \in CallRecord, CallSound(c), c.at # "idle",
         NEW stage \in Stages, stage \notin Preparing \cup {"confirm_primary"}
  PROVE  Fits(p, [c EXCEPT !.at = stage])
<1> DEFINE d == [c EXCEPT !.at = stage]
<1>1. /\ d.at = stage /\ d.op = c.op /\ d.book = c.book /\ d.base = c.base
      /\ d.result = c.result /\ d.value = c.value
  BY DEF CallRecord
<1> HIDE DEF d
<1>2. CallSound(d)
  BY <1>1 DEF CallSound, Prepared, AnswerSound, Preparing, Backing
<1>3. Fits(p, d)
  BY <1>1, <1>2 DEF Fits, Preparing, Backing
<1> QED
  BY <1>3 DEF d

-----------------------------------------------------------------------------
(* The steps of the store, one by one *)

\* What a file that cannot be used is answered with.
LEMMA Codes == \A c : Code(c) \in Results \ {"ok"}
  BY DEF Code, Results

\* What is known of a call that is under way.
LEMMA UnderWay ==
  ASSUME StoreInv, NEW p \in Apps
  PROVE  /\ calls[p] \in CallRecord /\ CallSound(calls[p])
         /\ calls[p].at \in Inside <=> holder = p
         /\ holder \in Apps \cup {None} /\ {primary, backup} \subseteq Content
  BY DEF StoreInv, StoreTyped, CallsSound, LockSound

\* Taking the lock and giving it up.
LEMMA LockStepKeeps ==
  ASSUME StoreInv, NEW p \in Apps, faults'.strayed = faults.strayed,
         \/ OpenLock(p) \/ NotInitialized(p) \/ MarkLock(p) \/ MarkFails(p)
         \/ TakeLock(p) \/ LockTimesOut(p) \/ Unlock(p)
  PROVE  StoreInv'
<1> USE DEF At
<1>1. /\ FilesStay
      /\ calls[p] \in CallRecord /\ CallSound(calls[p])
      /\ calls[p].at \in Inside <=> holder = p
  BY UnderWay DEF FilesStay, StoreInv, StoreTyped, OpenLock, NotInitialized, MarkLock, MarkFails,
     TakeLock, LockTimesOut, Unlock
<1>2. CASE OpenLock(p)
  <2>1. UNCHANGED holder /\ calls[p].at = "open" /\ (Move(p, "mark") \/ Move(p, "lock"))
    BY <1>2 DEF OpenLock
  <2>2. holder # p
    BY <1>1, <2>1 DEF Inside
  <2>3. CASE Move(p, "mark")
    BY <1>1, <2>1, <2>2, <2>3, MoveKeeps, IdleStagesFit
       DEF Stages, Inside, Preparing, Backing, Replacing
  <2>4. CASE Move(p, "lock")
    BY <1>1, <2>1, <2>2, <2>4, MoveKeeps, IdleStagesFit
       DEF Stages, Inside, Preparing, Backing, Replacing
  <2> QED
    BY <2>1, <2>3, <2>4
<1>3. CASE NotInitialized(p)
  BY <1>1, <1>3, FinishKeeps DEF NotInitialized, Results, Replacing
<1>4. CASE MarkLock(p)
  <2>1. UNCHANGED holder /\ calls[p].at = "mark" /\ Move(p, "lock")
    BY <1>4 DEF MarkLock
  <2>2. holder # p
    BY <1>1, <2>1 DEF Inside
  <2> QED
    BY <1>1, <2>1, <2>2, MoveKeeps, IdleStagesFit
       DEF Stages, Inside, Preparing, Backing, Replacing
<1>5. CASE MarkFails(p)
  BY <1>1, <1>5, FinishKeeps DEF MarkFails, Results, Replacing
<1>6. CASE TakeLock(p)
  <2>1. holder = None /\ holder' = p /\ calls[p].at = "lock" /\ Move(p, "read")
    BY <1>6 DEF TakeLock
  <2> QED
    BY <1>1, <2>1, MoveKeeps, IdleStagesFit DEF Stages, Inside, Preparing, Backing, Replacing
<1>7. CASE LockTimesOut(p)
  BY <1>1, <1>7, FinishKeeps DEF LockTimesOut, Results, Replacing
<1>8. CASE Unlock(p)
  <2>1. holder' = None /\ calls[p].at = "unlock" /\ Move(p, "done")
    BY <1>8 DEF Unlock
  <2>2. holder = p
    BY <1>1, <2>1 DEF Inside
  <2>3. p # None
    BY StoreAssumption
  <2> QED
    BY <1>1, <2>1, <2>2, <2>3, MoveKeeps, IdleStagesFit
       DEF Stages, Inside, Preparing, Backing, Replacing
<1> QED
  BY <1>2, <1>3, <1>4, <1>5, <1>6, <1>7, <1>8

\* What can be read in a file is a payload.
LEMMA ReadablePayload == \A c \in Content : Valid(c) => c \in Payload
  BY DEF Valid, Content

\* The three reads that change nothing.
LEMMA ReadKeeps ==
  ASSUME StoreInv, NEW p \in Apps, faults'.strayed = faults.strayed,
         ReadWithFallback(p) \/ ReadPrimary(p) \/ ReadOffer(p)
  PROVE  StoreInv'
<1> USE DEF At
<1>1. /\ FilesStay /\ UNCHANGED holder
      /\ calls[p] \in CallRecord /\ CallSound(calls[p]) /\ {primary, backup} \subseteq Content
      /\ calls[p].at = "read"
  BY UnderWay DEF FilesStay, StoreInv, StoreTyped, ReadWithFallback, ReadPrimary, ReadOffer
<1>2. /\ calls[p].at \notin Replacing \cup {"idle"}
      /\ calls[p].at \in Inside \ Replacing /\ calls[p].book \in Books
  BY <1>1 DEF Replacing, Inside, CallSound
<1>3. \A c \in Content : Valid(c) => c.marks[calls[p].book] \in 0..MaxMark
  BY <1>2, ReadablePayload DEF Payload
<1>4. ASSUME NEW result \in Results \ {"ok"}, Finish(p, result) PROVE StoreInv'
  BY <1>1, <1>2, <1>4, FinishKeeps
<1>5. CASE ReadWithFallback(p)
  <2>1. PICK source \in {primary, backup} :
           IF Valid(source)
           THEN IF source.marks[calls[p].book] > 0
                THEN Answer(p, source.marks[calls[p].book]) ELSE Finish(p, "missing")
           ELSE IF source # None THEN Finish(p, Code(source))
           ELSE Finish(p, IF backup = None THEN "missing" ELSE Code(backup))
    BY <1>5 DEF ReadWithFallback
  <2>2. CASE Valid(source) /\ source.marks[calls[p].book] > 0
    <3> DEFINE found == source.marks[calls[p].book]
    <3>1. Answer(p, found) /\ found \in 1..MaxMark
      BY <1>1, <1>3, <2>1, <2>2, StoreAssumption
    <3>2. MayAnswer(calls[p], found)
      BY <1>5, <3>1 DEF MayAnswer, ReadWithFallback
    <3> HIDE DEF found
    <3> QED
      BY <1>1, <1>2, <3>1, <3>2, AnswerKeeps, StoreAssumption
  <2>3. CASE ~ (Valid(source) /\ source.marks[calls[p].book] > 0)
    BY <1>4, <2>1, <2>3, Codes DEF Results
  <2> QED
    BY <2>2, <2>3
<1>6. CASE ReadPrimary(p)
  <2> DEFINE found == primary.marks[calls[p].book]
  <2>1. CASE Valid(primary) /\ found # 0
    <3>1. Answer(p, found) /\ found \in 1..MaxMark
      BY <1>1, <1>3, <1>6, <2>1, StoreAssumption DEF ReadPrimary
    <3>2. MayAnswer(calls[p], found)
      BY <1>6, <3>1 DEF MayAnswer, ReadPrimary
    <3> HIDE DEF found
    <3> QED
      BY <1>1, <1>2, <3>1, <3>2, AnswerKeeps, StoreAssumption
  <2>2. CASE ~ (Valid(primary) /\ found # 0)
    BY <1>4, <1>6, <2>2, Codes DEF ReadPrimary, Results
  <2> QED
    BY <2>1, <2>2
<1>7. CASE ReadOffer(p)
  <2>1. CASE Answer(p, <<primary, backup>>) /\ ~ Valid(primary)
    <3>1. MayAnswer(calls[p], <<primary, backup>>)
      BY <1>1, <1>7, <2>1 DEF MayAnswer, ReadOffer, Restores
    <3> QED
      BY <1>1, <1>2, <2>1, <3>1, AnswerKeeps
  <2>2. CASE \E result \in Results \ {"ok"} : Finish(p, result)
    BY <1>4, <2>2
  <2> QED
    BY <1>7, <2>1, <2>2, Codes DEF ReadOffer, Results
<1> QED
  BY <1>5, <1>6, <1>7

\* What a change makes of the primary is a payload, one generation later.
LEMMA ChangedIsPayload ==
  ASSUME NEW c \in CallRecord, primary \in Content, primary = None \/ Valid(primary),
         Loaded.gen < MaxGeneration
  PROVE  Changed(c) \in Payload /\ Changed(c) = ChangeOf(c, primary)
<1>1. Empty \in Payload
  BY StoreAssumption DEF Empty, Payload
<1>2. Loaded \in Payload
  BY <1>1, ReadablePayload DEF Loaded
<1>3. Changed(c) \in Payload
  <2>1. Loaded.gen + 1 \in 0..MaxGeneration /\ Loaded.marks \in [Books -> 0..MaxMark]
    BY <1>2, StoreAssumption DEF Payload
  <2>2. [Loaded.marks EXCEPT ![c.book] = c.mark] \in [Books -> 0..MaxMark]
    BY <2>1 DEF CallRecord
  <2> QED
    BY <2>1, <2>2 DEF Changed, Payload
<1> QED
  BY <1>3 DEF Changed, ChangeOf, Loaded

\* A change is prepared from the primary as it is under the lock.
LEMMA ReadForChangeKeeps ==
  ASSUME StoreInv, NEW p \in Apps, faults'.strayed = faults.strayed, ReadForChange(p)
  PROVE  StoreInv'
<1> USE DEF At
<1>1. /\ FilesStay /\ UNCHANGED holder
      /\ calls[p] \in CallRecord /\ CallSound(calls[p]) /\ {primary, backup} \subseteq Content
      /\ calls[p].at = "read" /\ calls[p].op \in Changes /\ holder = p
  BY UnderWay DEF FilesStay, StoreInv, StoreTyped, ReadForChange, Inside, Changes
<1>2. calls[p].at \notin Replacing \cup {"idle"} /\ calls[p].book \in Books
  BY <1>1 DEF Replacing, CallSound
<1> DEFINE stage == IF primary = None THEN "check_primary" ELSE "read_backup"
           c == [calls[p] EXCEPT !.base = primary, !.new = Changed(calls[p]), !.at = stage]
<1>3. \/ \E result \in Results \ {"ok"} : Finish(p, result)
      \/ /\ primary = None \/ Valid(primary)
         /\ ~ Loaded.gen >= MaxGeneration
         /\ calls' = [calls EXCEPT ![p].base = primary, ![p].new = Changed(calls[p]),
                                   ![p].at = stage]
  BY Codes DEF ReadForChange, Results
<1>4. ASSUME NEW result \in Results \ {"ok"}, Finish(p, result) PROVE StoreInv'
  BY <1>1, <1>2, <1>4, FinishKeeps
<1>5. ASSUME primary = None \/ Valid(primary), ~ Loaded.gen >= MaxGeneration,
             calls' = [calls EXCEPT ![p].base = primary, ![p].new = Changed(calls[p]),
                                    ![p].at = stage]
      PROVE  StoreInv'
  <2>1. Loaded.gen < MaxGeneration
    <3>1. Empty \in Payload
      BY StoreAssumption DEF Empty, Payload
    <3>2. Loaded \in Payload
      BY <1>1, <1>5, <3>1, ReadablePayload DEF Loaded
    <3> QED
      BY <1>5, <3>2, StoreAssumption DEF Payload
  <2>2. Changed(calls[p]) \in Payload /\ Changed(calls[p]) = ChangeOf(calls[p], primary)
    BY <1>1, <1>5, <2>1, ChangedIsPayload
  <2>3. stage \in {"check_primary", "read_backup"} /\ (stage = "read_backup" => primary # None)
    OBVIOUS
  <2>4. c \in CallRecord
    <3>1. Changed(calls[p]) \in Content /\ stage \in Stages
      BY <2>2, <2>3 DEF Content, Stages
    <3> HIDE DEF stage
    <3> QED
      BY <1>1, <3>1 DEF CallRecord
  <2>5. calls' = [calls EXCEPT ![p] = c]
    BY <1>1, <1>5 DEF StoreInv, StoreTyped, CallRecord
  <2>6. /\ c.at = stage /\ c.op = calls[p].op /\ c.book = calls[p].book /\ c.mark = calls[p].mark
        /\ c.base = primary /\ c.new = Changed(calls[p])
        /\ c.result = calls[p].result /\ c.value = calls[p].value
    BY <1>1 DEF CallRecord
  <2>7. stage = "check_primary" => primary = None
    OBVIOUS
  <2> HIDE DEF c, stage
  <2>8. c.new = ChangeOf(c, c.base)
    BY <2>2, <2>6 DEF ChangeOf
  <2>9. Fits(p, c)
    <3>1. CallSound(c)
      BY <1>1, <1>2, <1>5, <2>3, <2>6, <2>7, <2>8
         DEF CallSound, Prepared, AnswerSound, Backing, Preparing, Changes
    <3>2. ~ faults.strayed /\ Valid(primary) => primary = trail[2]
      BY DEF StoreInv, TrailSound
    <3> QED
      BY <2>3, <2>6, <3>1, <3>2 DEF Fits
  <2> QED
    BY <1>1, <1>2, <2>3, <2>4, <2>5, <2>6, <2>9, CallChangeKeeps DEF FilesStay, Inside
<1> QED
  BY <1>3, <1>4, <1>5

\* A recovery goes on with the pair of files that was agreed to.
LEMMA ReadForRecoveryKeeps ==
  ASSUME StoreInv, NEW p \in Apps, faults'.strayed = faults.strayed, ReadForRecovery(p)
  PROVE  StoreInv'
<1> USE DEF At
<1>1. /\ FilesStay /\ UNCHANGED holder
      /\ calls[p] \in CallRecord /\ CallSound(calls[p])
      /\ calls[p].at = "read" /\ calls[p].op = "recover" /\ holder = p
  BY UnderWay DEF FilesStay, StoreInv, StoreTyped, ReadForRecovery, Inside
<1>2. calls[p].at \notin Replacing \cup {"idle"}
  BY <1>1 DEF Replacing
<1>3. CASE Finish(p, "stale")
  BY <1>1, <1>2, <1>3, FinishKeeps DEF Results
<1>4. CASE Move(p, "check_primary")
  <2> DEFINE c == [calls[p] EXCEPT !.at = "check_primary"]
  <2>1. /\ c.at = "check_primary" /\ c.op = "recover" /\ c.book = calls[p].book
        /\ c.base = calls[p].base /\ c.result = calls[p].result /\ c.value = calls[p].value
    BY <1>1 DEF CallRecord
  <2> HIDE DEF c
  <2>2. Fits(p, c)
    BY <1>1, <2>1 DEF Fits, CallSound, Prepared, AnswerSound, Backing, Preparing, Changes
  <2> QED
    BY <1>1, <1>2, <1>4, <2>2, MoveKeeps DEF c, Stages, Inside
<1> QED
  BY <1>3, <1>4 DEF ReadForRecovery

\* A stage of a change fits when what was prepared for it still does.
LEMMA ChangeStagesFit ==
  ASSUME StoreInv, NEW p \in Apps, calls[p].at \in Preparing, NEW stage \in Preparing,
         stage \in Backing => calls[p].at \in Backing,
         stage \in {"check_backup", "replace_backup"} =>
             ~ Ahead(calls[p].bbase, calls[p].base) /\ calls[p].bbase # Future,
         stage = "replace_backup" => primary = calls[p].base /\ backup = calls[p].bbase,
         stage = "replace_primary" => primary = calls[p].base /\ backup = Guard(calls[p])
  PROVE  Fits(p, [calls[p] EXCEPT !.at = stage])
<1> DEFINE c == [calls[p] EXCEPT !.at = stage]
<1>1. calls[p] \in CallRecord /\ CallSound(calls[p])
  BY UnderWay
<1>2. /\ c.at = stage /\ c.op = calls[p].op /\ c.book = calls[p].book /\ c.mark = calls[p].mark
      /\ c.base = calls[p].base /\ c.bbase = calls[p].bbase /\ c.new = calls[p].new
      /\ c.result = calls[p].result /\ c.value = calls[p].value
  BY <1>1 DEF CallRecord
<1> HIDE DEF c
<1>3. ChangeOf(c, c.base) = ChangeOf(calls[p], calls[p].base) /\ Guard(c) = Guard(calls[p])
  BY <1>2 DEF ChangeOf, Guard
<1>4. CallSound(c)
  BY <1>1, <1>2, <1>3 DEF CallSound, Prepared, AnswerSound, Backing, Preparing
<1>5. ~ faults.strayed /\ c.op \in Changes /\ Valid(c.base) => c.base = trail[2]
  BY <1>2 DEF StoreInv, TrailSound
<1>6. Fits(p, c)
  BY <1>2, <1>3, <1>4, <1>5 DEF Fits
<1> QED
  BY <1>6 DEF c

\* The comparisons before and after a replacement, and the read of the backup.
LEMMA CompareKeeps ==
  ASSUME StoreInv, NEW p \in Apps, faults'.strayed = faults.strayed,
         \/ ReadBackup(p) \/ CheckBackup(p) \/ ConfirmBackup(p) \/ CheckPrimary(p)
         \/ ConfirmPrimary(p) \/ DiskFails(p)
  PROVE  StoreInv'
<1> USE DEF At
<1>1. /\ FilesStay /\ UNCHANGED holder
      /\ calls[p] \in CallRecord /\ CallSound(calls[p]) /\ {primary, backup} \subseteq Content
      /\ calls[p].at \in {"read_backup", "check_backup", "confirm_backup", "check_primary",
                          "confirm_primary"}
  BY UnderWay DEF FilesStay, StoreInv, StoreTyped, ReadBackup, CheckBackup, ConfirmBackup,
     CheckPrimary, ConfirmPrimary, DiskFails
<1>2. /\ calls[p].at \notin Replacing \cup {"idle"}
      /\ calls[p].at \in Inside \ Replacing /\ holder = p
  BY <1>1, UnderWay DEF Replacing, Inside
<1>3. ASSUME NEW result \in Results \ {"ok"}, Finish(p, result) PROVE StoreInv'
  BY <1>1, <1>2, <1>3, FinishKeeps
<1>4. ASSUME NEW stage \in Preparing, Move(p, stage),
             Fits(p, [calls[p] EXCEPT !.at = stage])
      PROVE  StoreInv'
  BY <1>1, <1>2, <1>4, MoveKeeps DEF Stages, Inside, Preparing, Backing
<1>5. CASE ReadBackup(p)
  <2>1. CASE ~ (backup = Future \/ Ahead(backup, calls[p].base))
    <3> DEFINE c == [calls[p] EXCEPT !.bbase = backup, !.at = "check_backup"]
    <3>1. calls' = [calls EXCEPT ![p] = c] /\ calls[p].at = "read_backup"
      BY <1>1, <1>5, <2>1 DEF ReadBackup, StoreInv, StoreTyped, CallRecord
    <3>2. c \in CallRecord
      BY <1>1 DEF CallRecord, Stages
    <3>3. /\ c.at = "check_backup" /\ c.op = calls[p].op /\ c.book = calls[p].book
          /\ c.mark = calls[p].mark /\ c.base = calls[p].base /\ c.bbase = backup
          /\ c.new = calls[p].new /\ c.result = calls[p].result /\ c.value = calls[p].value
      BY <1>1 DEF CallRecord
    <3> HIDE DEF c
    <3>4. ChangeOf(c, c.base) = ChangeOf(calls[p], calls[p].base)
      BY <3>3 DEF ChangeOf
    <3>5. CallSound(c)
      BY <1>1, <2>1, <3>1, <3>3, <3>4 DEF CallSound, Prepared, AnswerSound, Backing, Preparing
    <3>6. ~ faults.strayed /\ c.op \in Changes /\ Valid(c.base) => c.base = trail[2]
      BY <3>1, <3>3 DEF StoreInv, TrailSound, Preparing, Backing
    <3>7. Fits(p, c)
      BY <3>3, <3>5, <3>6 DEF Fits
    <3> QED
      BY <1>1, <1>2, <3>1, <3>2, <3>3, <3>7, CallChangeKeeps DEF FilesStay, Inside
  <2>2. CASE Finish(p, "unsupported") \/ Finish(p, "stale")
    BY <1>3, <2>2 DEF Results
  <2> QED
    BY <1>5, <2>1, <2>2 DEF ReadBackup
<1>6. CASE CheckBackup(p)
  <2>1. calls[p].at = "check_backup"
    BY <1>6 DEF CheckBackup
  <2>2. CASE /\ Move(p, "replace_backup")
             /\ backup = calls[p].bbase /\ primary = calls[p].base
    <3>1. Fits(p, [calls[p] EXCEPT !.at = "replace_backup"])
      BY <1>1, <2>1, <2>2, ChangeStagesFit DEF Preparing, Backing, CallSound, Prepared
    <3> QED
      BY <1>4, <2>2, <3>1 DEF Preparing, Backing
  <2>3. CASE Finish(p, "stale")
    BY <1>3, <2>3 DEF Results
  <2> QED
    BY <1>6, <2>2, <2>3 DEF CheckBackup
<1>7. CASE ConfirmBackup(p)
  <2>1. calls[p].at = "confirm_backup"
    BY <1>7 DEF ConfirmBackup
  <2>2. CASE Move(p, "check_primary")
    <3>1. Fits(p, [calls[p] EXCEPT !.at = "check_primary"])
      BY <2>1, ChangeStagesFit DEF Preparing, Backing
    <3> QED
      BY <1>4, <2>2, <3>1 DEF Preparing
  <2>3. CASE Finish(p, "unknown")
    BY <1>3, <2>3 DEF Results
  <2> QED
    BY <1>7, <2>2, <2>3 DEF ConfirmBackup
<1>8. CASE CheckPrimary(p)
  <2>1. calls[p].at = "check_primary"
    BY <1>8 DEF CheckPrimary
  <2>2. CASE /\ Move(p, "replace_primary")
             /\ primary = calls[p].base /\ backup = Guard(calls[p])
    <3>1. Fits(p, [calls[p] EXCEPT !.at = "replace_primary"])
      BY <2>1, <2>2, ChangeStagesFit DEF Preparing, Backing
    <3> QED
      BY <1>4, <2>2, <3>1 DEF Preparing
  <2>3. CASE \E result \in Results \ {"ok"} : Finish(p, result)
    BY <1>3, <2>3
  <2> QED
    BY <1>8, <2>2, <2>3 DEF CheckPrimary, Results
<1>9. CASE ConfirmPrimary(p)
  <2>1. CASE Finish(p, "unknown")
    BY <1>3, <2>1 DEF Results
  <2>2. CASE Answer(p, calls[p].mark)
    <3>1. calls[p].mark \in 0..MaxMark
      BY <1>1 DEF CallRecord
    <3>2. calls[p].op \in Changes \cup {"recover"}
      BY <1>1, <1>9 DEF ConfirmPrimary, CallSound, Prepared
    <3>3. MayAnswer(calls[p], calls[p].mark)
      BY <3>2 DEF MayAnswer, Changes, Restores
    <3> QED
      BY <1>1, <1>2, <2>2, <3>1, <3>3, AnswerKeeps
  <2> QED
    BY <1>9, <2>1, <2>2 DEF ConfirmPrimary
<1>10. CASE DiskFails(p)
  BY <1>3, <1>10 DEF DiskFails, Results
<1> QED
  BY <1>5, <1>6, <1>7, <1>8, <1>9, <1>10

-----------------------------------------------------------------------------
(* Replacing a file, and the steps around a call *)

\* Only the holder of the lock is between taking it and giving it up.
LEMMA OneInside ==
  ASSUME StoreInv, NEW p \in Apps, calls[p].at \in Inside, NEW q \in Apps, q # p
  PROVE  calls[q].at \notin Inside
  BY DEF StoreInv, LockSound

\* The backup is replaced by the primary that the change starts from.
LEMMA ReplaceBackupKeeps ==
  ASSUME StoreInv, NEW p \in Apps, faults'.strayed = faults.strayed, ReplaceBackup(p)
  PROVE  StoreInv'
<1> USE DEF At
<1> DEFINE c == [calls[p] EXCEPT !.at = "confirm_backup"]
<1>1. /\ calls[p] \in CallRecord /\ CallSound(calls[p])
      /\ calls[p].at = "replace_backup" /\ calls[p].at \in Inside
      /\ primary' = primary /\ backup' = calls[p].base /\ raced' = {}
      /\ UNCHANGED <<lockfile, holder, trail>>
  BY UnderWay DEF ReplaceBackup, Inside
<1>2. c \in CallRecord /\ calls' = [calls EXCEPT ![p] = c]
  BY <1>1 DEF ReplaceBackup, Move, CallRecord, Stages, StoreInv, StoreTyped
<1>3. /\ c.at = "confirm_backup" /\ c.op = calls[p].op /\ c.book = calls[p].book
      /\ c.mark = calls[p].mark /\ c.base = calls[p].base /\ c.bbase = calls[p].bbase
      /\ c.new = calls[p].new /\ c.result = calls[p].result /\ c.value = calls[p].value
  BY <1>1 DEF CallRecord
<1> HIDE DEF c
<1>4. calls'[p] = c /\ \A q \in Apps : q # p => calls'[q] = calls[q]
  BY <1>2 DEF StoreInv, StoreTyped
<1>5. \A q \in Apps : q # p => calls[q].at \notin Inside
  BY <1>1, OneInside
<1>6. \A q \in Apps : calls'[q].at \notin Replacing /\ (q # p => calls'[q].at \notin Preparing)
  BY <1>3, <1>4, <1>5 DEF Replacing, Preparing, Backing, Inside
<1>7. CallSound(c)
  <2>1. ChangeOf(c, c.base) = ChangeOf(calls[p], calls[p].base)
    BY <1>3 DEF ChangeOf
  <2> QED
    BY <1>1, <1>3, <2>1 DEF CallSound, Prepared, AnswerSound, Backing, Preparing
<1>8. StoreTyped'
  BY <1>1, <1>2 DEF StoreInv, StoreTyped, CallRecord
<1>9. LockSound'
  BY <1>1, <1>3, <1>4 DEF StoreInv, LockSound, Inside
<1>10. CallsSound'
  BY <1>4, <1>7 DEF StoreInv, CallsSound
<1>11. ComparedSound'
  BY <1>1, <1>6 DEF ComparedSound, Compares, Replacing
<1>12. TrailSound'
  <2> SUFFICES ASSUME ~ faults.strayed PROVE TrailSound'
    BY DEF TrailSound
  <2>1. /\ Valid(primary) => primary = trail[2]
        /\ Valid(calls[p].base) => calls[p].base = trail[2]
    BY <1>1 DEF StoreInv, TrailSound, CallSound, Prepared, Preparing, Backing
  <2> QED
    BY <1>1, <1>3, <1>4, <1>6, <2>1 DEF TrailSound, Replacing
<1> QED
  BY <1>8, <1>9, <1>10, <1>11, <1>12 DEF StoreInv

\* The primary is replaced; what it held is in the backup, or could not be read.
LEMMA ReplacePrimaryKeeps ==
  ASSUME StoreInv, NEW p \in Apps, faults'.strayed = faults.strayed, ReplacePrimary(p)
  PROVE  StoreInv'
<1> USE DEF At
<1> DEFINE c == [calls[p] EXCEPT !.at = "confirm_primary"]
<1>1. /\ calls[p] \in CallRecord /\ CallSound(calls[p])
      /\ calls[p].at = "replace_primary" /\ calls[p].at \in Inside
      /\ primary' = calls[p].new /\ backup' = backup /\ raced' = {}
      /\ trail' = <<trail[2], calls[p].new>> /\ UNCHANGED <<lockfile, holder>>
  BY UnderWay DEF ReplacePrimary, Inside
<1>2. c \in CallRecord /\ calls' = [calls EXCEPT ![p] = c]
  BY <1>1 DEF ReplacePrimary, Move, CallRecord, Stages, StoreInv, StoreTyped
<1>3. /\ c.at = "confirm_primary" /\ c.op = calls[p].op /\ c.book = calls[p].book
      /\ c.base = calls[p].base /\ c.result = calls[p].result /\ c.value = calls[p].value
  BY <1>1 DEF CallRecord
<1> HIDE DEF c
<1>4. calls'[p] = c /\ \A q \in Apps : q # p => calls'[q] = calls[q]
  BY <1>2 DEF StoreInv, StoreTyped
<1>5. \A q \in Apps : q # p => calls[q].at \notin Inside
  BY <1>1, OneInside
<1>6. \A q \in Apps : calls'[q].at \notin Replacing /\ calls'[q].at \notin Preparing
  BY <1>3, <1>4, <1>5 DEF Replacing, Preparing, Backing, Inside
<1>7. CallSound(c)
  BY <1>1, <1>3 DEF CallSound, Prepared, AnswerSound, Backing, Preparing
<1>8. StoreTyped'
  BY <1>1, <1>2 DEF StoreInv, StoreTyped, CallRecord
<1>9. LockSound'
  BY <1>1, <1>3, <1>4 DEF StoreInv, LockSound, Inside
<1>10. CallsSound'
  BY <1>4, <1>7 DEF StoreInv, CallsSound
<1>11. ComparedSound'
  BY <1>1, <1>6 DEF ComparedSound, Compares, Replacing
<1>12. TrailSound'
  <2> SUFFICES ASSUME ~ faults.strayed PROVE TrailSound'
    BY DEF TrailSound
  <2>1. Valid(backup) => backup = Guard(calls[p])
    BY <1>1 DEF StoreInv, TrailSound
  <2>2. calls[p].op \in Changes /\ Valid(calls[p].base) => calls[p].base = trail[2]
    BY <1>1 DEF StoreInv, TrailSound, Preparing
  <2>3. calls[p].op \in Changes \cup {"recover"}
    BY <1>1 DEF CallSound, Prepared, Preparing
  <2>4. Valid(backup) => backup \in {trail'[1], trail'[2]}
    BY <1>1, <2>1, <2>2, <2>3 DEF Guard
  <2>5. primary' = trail'[2]
    BY <1>1
  <2> QED
    BY <1>1, <1>6, <2>4, <2>5 DEF TrailSound, Replacing
<1> QED
  BY <1>8, <1>9, <1>10, <1>11, <1>12 DEF StoreInv

\* No call is a call.
LEMMA NoCallFits ==
  /\ NoCall \in CallRecord /\ CallSound(NoCall) /\ NoCall.at = "idle"
  /\ \A p \in Apps : Fits(p, NoCall)
<1>1. /\ NoCall.at = "idle" /\ NoCall.op = "save" /\ NoCall.result = "none"
      /\ NoCall \in CallRecord
  BY StoreAssumption DEF NoCall, CallRecord, Stages, Ops, Results, Content
<1> QED
  BY <1>1 DEF Fits, CallSound, Prepared, AnswerSound, Backing, Preparing

\* A new call, from a process that is in none or whose last one has come back.
LEMMA NewCallKeeps ==
  ASSUME StoreInv, FilesStay, UNCHANGED holder, NEW p \in Apps, calls[p].at \in {"idle", "done"},
         NEW op \in Ops, NEW book \in Books, NEW mark \in 0..MaxMark,
         NEW base \in Content, NEW new \in Content, op = "recover" => ~ Valid(base),
         calls' = [calls EXCEPT ![p] = [NoCall EXCEPT !.at = "open", !.op = op, !.book = book,
                                            !.mark = mark, !.base = base, !.new = new]]
  PROVE  StoreInv'
<1> DEFINE c == [NoCall EXCEPT !.at = "open", !.op = op, !.book = book,
                               !.mark = mark, !.base = base, !.new = new]
<1>1. NoCall \in CallRecord /\ NoCall.result = "none" /\ "open" \in Stages
  BY NoCallFits DEF NoCall, Stages
<1>2. c \in CallRecord
  BY <1>1 DEF CallRecord
<1>3. /\ c.at = "open" /\ c.op = op /\ c.book = book /\ c.base = base /\ c.result = "none"
      /\ calls' = [calls EXCEPT ![p] = c]
  BY <1>1 DEF CallRecord
<1> HIDE DEF c
<1>4. Fits(p, c)
  BY <1>3 DEF Fits, CallSound, Prepared, AnswerSound, Backing, Preparing
<1>5. holder # p
  BY UnderWay DEF Inside
<1> QED
  BY <1>2, <1>3, <1>4, <1>5, CallChangeKeeps DEF FilesStay, Inside, Replacing

\* A call comes back.
LEMMA ReturnKeeps ==
  ASSUME StoreInv, NEW p \in Apps, faults'.strayed = faults.strayed, Return(p)
  PROVE  StoreInv'
<1>1. /\ FilesStay /\ UNCHANGED holder /\ calls[p].at = "done"
      /\ calls' = [calls EXCEPT ![p] = NoCall]
  BY DEF Return, At, FilesStay, StoreInv, StoreTyped
<1>2. holder # p
  BY <1>1, UnderWay DEF Inside
<1> QED
  BY <1>1, <1>2, NoCallFits, CallChangeKeeps DEF FilesStay, Inside, Replacing

\* A process dies, at whatever stage.
LEMMA DieKeeps ==
  ASSUME StoreInv, NEW p \in Apps, faults'.strayed = faults.strayed, Die(p)
  PROVE  StoreInv'
<1>1. /\ UNCHANGED <<primary, backup, lockfile, trail>>
      /\ calls' = [calls EXCEPT ![p] = NoCall]
      /\ holder' = IF holder = p THEN None ELSE holder
      /\ raced' = IF holder = p THEN {} ELSE raced
  BY DEF Die
<1>2. CASE holder # p
  <2>1. calls[p].at \notin Replacing /\ FilesStay /\ UNCHANGED holder
    BY <1>1, <1>2, UnderWay DEF Inside, Replacing, FilesStay, StoreInv, StoreTyped
  <2> QED
    BY <1>1, <1>2, <2>1, NoCallFits, CallChangeKeeps DEF FilesStay, Inside
<1>3. CASE holder = p
  <2>1. calls'[p] = NoCall /\ \A q \in Apps : q # p => calls'[q] = calls[q]
    BY <1>1 DEF StoreInv, StoreTyped
  <2>2. calls[p].at \in Inside /\ raced' = {} /\ holder' = None
    BY <1>1, <1>3, UnderWay
  <2>3. \A q \in Apps : q # p => calls[q].at \notin Inside
    BY <2>2, OneInside
  <2>4. \A q \in Apps : calls'[q].at \notin Inside
    BY <2>1, <2>3, NoCallFits DEF Inside
  <2>5. StoreTyped'
    BY <1>1, <2>2, NoCallFits DEF StoreInv, StoreTyped
  <2>6. LockSound'
    BY <2>2, <2>4, StoreAssumption DEF LockSound
  <2>7. CallsSound'
    BY <2>1, NoCallFits DEF StoreInv, CallsSound
  <2>8. ComparedSound'
    BY <2>2, <2>4 DEF ComparedSound, Compares, Inside, At
  <2>9. TrailSound'
    BY <1>1, <2>4 DEF StoreInv, TrailSound, Inside, Preparing, Backing, At
  <2> QED
    BY <2>5, <2>6, <2>7, <2>8, <2>9 DEF StoreInv
<1> QED
  BY <1>2, <1>3

\* Another program writes a file: a payload of its own makes it stray.
LEMMA WriteKeeps ==
  ASSUME StoreInv, NEW c \in Content, WritePrimary(c) \/ WriteBackup(c),
         faults'.strayed = (faults.strayed \/ Valid(c))
  PROVE  StoreInv'
<1>1. /\ UNCHANGED <<lockfile, holder, calls, trail>>
      /\ \/ primary' = c /\ backup' = backup /\ Racing("primary")
         \/ primary' = primary /\ backup' = c /\ Racing("backup")
  BY DEF WritePrimary, WriteBackup
<1>2. StoreTyped'
  BY <1>1 DEF StoreInv, StoreTyped, Racing
<1>3. LockSound' /\ CallsSound'
  BY <1>1 DEF StoreInv, LockSound, CallsSound
<1>4. ComparedSound'
  <2>1. ASSUME NEW q \in Apps PROVE Compares(q)'
    BY <1>1 DEF StoreInv, ComparedSound, Compares, At, Racing, Guard
  <2>2. ASSUME raced' # {} PROVE \E q \in Apps : calls'[q].at \in Replacing
    BY <1>1, <2>2 DEF StoreInv, ComparedSound, Racing, Replacing
  <2> QED
    BY <2>1, <2>2 DEF ComparedSound
<1>5. TrailSound'
  BY <1>1 DEF StoreInv, TrailSound, At, Guard
<1> QED
  BY <1>2, <1>3, <1>4, <1>5 DEF StoreInv

\* Every step of the protocol keeps the invariant of the store.
LEMMA StoreStepKeeps ==
  ASSUME StoreInv, NEW p \in Apps, faults'.strayed = faults.strayed,
         StoreStep(p) \/ StoreFails(p)
  PROVE  StoreInv'
  BY LockStepKeeps, ReadKeeps, ReadForChangeKeeps, ReadForRecoveryKeeps, CompareKeeps,
     ReplaceBackupKeeps, ReplacePrimaryKeeps DEF StoreStep, StoreFails

\* A first run, and the files of an older version, satisfy it.
LEMMA StoreStarts ==
  ASSUME StoreInit, faults.strayed = FALSE
  PROVE  StoreInv
<1>1. Legacy(0) \in Payload /\ Legacy(1) \in Payload
  BY StoreAssumption DEF Legacy, Payload
<1>2. calls \in [Apps -> CallRecord] /\ \A p \in Apps : calls[p] = NoCall
  BY NoCallFits DEF StoreInit
<1>3. \A p \in Apps : calls[p].at = "idle" /\ CallSound(calls[p])
  BY <1>2, NoCallFits
<1>4. /\ {primary, backup} \subseteq Content /\ trail \in Content \X Content
      /\ ~ Valid(None)
      /\ primary = trail[2] /\ backup = trail[1]
  BY <1>1 DEF StoreInit, Content, Valid
<1>5. lockfile = "absent" /\ holder = None /\ raced = {}
  BY DEF StoreInit
<1>6. StoreTyped
  BY <1>2, <1>4, <1>5 DEF StoreTyped
<1>7. LockSound /\ CallsSound /\ ComparedSound
  BY <1>3, <1>5, StoreAssumption
     DEF LockSound, Inside, CallsSound, ComparedSound, Compares, At
<1>8. TrailSound
  BY <1>3, <1>4 DEF TrailSound, Preparing, Backing, At
<1> QED
  BY <1>6, <1>7, <1>8 DEF StoreInv

-----------------------------------------------------------------------------
(* The flows of the application *)

\* Process p goes on with the flow f and shows s.
Continues(p, f, s) ==
    /\ f \in FlowRecord /\ flow' = [flow EXCEPT ![p] = f]
    /\ s \in Shown \cup {None} /\ shown' = [shown EXCEPT ![p] = s]
    /\ marks' \in 1..MaxMark /\ asked' \in 0..MaxRequests

\* A step of one process keeps the invariant when its flow, its call and the book it
\* shows still belong together.
LEMMA FlowStepKeeps ==
  ASSUME BookInv, NEW p \in Apps, NEW f, NEW s, Continues(p, f, s), StoreInv',
         faults' \in [count : 0..MaxFaults, strayed : BOOLEAN],
         \A q \in Apps : q # p => calls'[q] = calls[q],
         Together(f, calls'[p], s)
  PROVE  BookInv'
<1>1. /\ flow'[p] = f /\ shown'[p] = s
      /\ \A q \in Apps : q # p => flow'[q] = flow[q] /\ shown'[q] = shown[q]
  BY DEF BookInv, FlowTyped, Continues
<1>2. FlowTyped'
  BY DEF BookInv, FlowTyped, Continues
<1>3. FlowsSound'
  BY <1>1 DEF BookInv, FlowsSound
<1> QED
  BY <1>2, <1>3 DEF BookInv

\* The store is in the call op about a book, and its files are as they were.
Starts(p, op, book, mark, base, new) ==
    /\ calls' = [calls EXCEPT ![p] = [NoCall EXCEPT !.at = "open", !.op = op, !.book = book,
                                          !.mark = mark, !.base = base, !.new = new]]
    /\ UNCHANGED <<primary, backup, lockfile, holder, raced, trail>>

\* What a step of a flow asks of the flow alone.
StepFits(f, s) ==
    /\ f.at \in {"has", "restore"} => f.next \in Books
    /\ f.candidate # None => f.next = None
    /\ f.at \in Staging => f.candidate # None \/ s # None
    /\ f.at = "compare" => f.candidate # None
    /\ f.at = "reload" => s # None
    /\ f.at = "ask" => ~ Valid(f.offer[1])

\* A flow that begins a call keeps the invariant.
LEMMA CallBegins ==
  ASSUME BookInv, UNCHANGED faults, NEW p \in Apps, calls[p].at \in {"idle", "done"},
         NEW op \in Ops, NEW book \in Books, NEW mark \in 0..MaxMark,
         NEW base \in Content, NEW new \in Content, op = "recover" => ~ Valid(base),
         Starts(p, op, book, mark, base, new),
         NEW f, NEW s, Continues(p, f, s), StepFits(f, s),
         f.at \notin {"idle", "ask"}, op = CallOf(f.at),
         f.at = "recover" => <<base, new>> = f.offer
  PROVE  BookInv'
<1>1. FilesStay /\ UNCHANGED holder /\ StoreInv
  BY DEF Starts, FilesStay, BookInv, StoreInv, StoreTyped
<1>2. StoreInv'
  BY <1>1, NewCallKeeps DEF Starts
<1>3. /\ calls'[p].at = "open" /\ calls'[p].op = op
      /\ calls'[p].base = base /\ calls'[p].new = new
      /\ \A q \in Apps : q # p => calls'[q] = calls[q]
  BY NoCallFits DEF Starts, BookInv, StoreInv, StoreTyped, CallRecord
<1>4. Together(f, calls'[p], s)
  BY <1>3 DEF Together, StepFits
<1> QED
  BY <1>2, <1>3, <1>4, FlowStepKeeps DEF BookInv, FlowTyped

\* A flow that ends, or waits for the user, keeps it.
LEMMA CallEnds ==
  ASSUME BookInv, UNCHANGED faults, NEW p \in Apps,
         Return(p) \/ (UNCHANGED svars /\ calls[p].at = "idle"),
         NEW f, NEW s, Continues(p, f, s), StepFits(f, s), f.at \in {"idle", "ask"}
  PROVE  BookInv'
<1>1. StoreInv'
  <2>1. CASE Return(p)
    BY <2>1, ReturnKeeps DEF BookInv
  <2>2. CASE UNCHANGED svars
    BY <2>2 DEF BookInv, StoreInv, StoreTyped, LockSound, CallsSound, ComparedSound, Compares, At,
       TrailSound, svars, Guard
  <2> QED
    BY <2>1, <2>2
<1>2. calls'[p].at = "idle" /\ \A q \in Apps : q # p => calls'[q] = calls[q]
  BY NoCallFits DEF Return, svars, BookInv, StoreInv, StoreTyped
<1>3. Together(f, calls'[p], s)
  BY <1>2, Zenon DEF Together, StepFits
<1> QED
  BY <1>1, <1>2, <1>3, FlowStepKeeps DEF BookInv, FlowTyped

\* What is known of a process.
LEMMA Known ==
  ASSUME BookInv, NEW p \in Apps
  PROVE  /\ flow[p] \in FlowRecord /\ shown[p] \in Shown \cup {None} /\ calls[p] \in CallRecord
         /\ Together(flow[p], calls[p], shown[p]) /\ CallSound(calls[p])
         /\ marks \in 1..MaxMark /\ asked \in 0..MaxRequests
         /\ DOMAIN flow = Apps /\ DOMAIN shown = Apps
  BY DEF BookInv, FlowTyped, FlowsSound, StoreInv, StoreTyped, CallsSound

\* A flow that only changes its step.
LEMMA GoesOn ==
  ASSUME BookInv, NEW p \in Apps, NEW step \in Steps,
         flow' = [flow EXCEPT ![p].at = step], UNCHANGED <<shown, marks, asked>>
  PROVE  Continues(p, [flow[p] EXCEPT !.at = step], shown[p])
<1> DEFINE f == [flow[p] EXCEPT !.at = step]
<1>1. f \in FlowRecord
  BY Known DEF FlowRecord
<1>2. flow' = [flow EXCEPT ![p] = f]
  BY Known DEF FlowRecord
<1> HIDE DEF f
<1>3. shown = [shown EXCEPT ![p] = shown[p]]
  BY DEF BookInv, FlowTyped
<1>4. Continues(p, f, shown[p])
  BY <1>1, <1>2, <1>3, Known DEF Continues
<1> QED
  BY <1>4 DEF f

\* No flow is a flow.
LEMMA NoFlowFits ==
  /\ NoFlow \in FlowRecord /\ NoFlow.at = "idle" /\ NoFlow.candidate = None
  /\ NoFlow.next = None /\ \A s : StepFits(NoFlow, s)
<1>1. /\ NoFlow \in FlowRecord /\ NoFlow.at = "idle" /\ NoFlow.candidate = None
      /\ NoFlow.next = None
  BY DEF NoFlow, FlowRecord, Steps, Content
<1> QED
  BY <1>1 DEF StepFits, Staging

\* The steps of a flow, for the checks of the steps to come.
LEMMA CallsOfSteps ==
  /\ CallOf("has") = "restore" /\ CallOf("restore") = "restore"
  /\ CallOf("save") = "save" /\ CallOf("save_again") = "save"
  /\ CallOf("offer") = "offer" /\ CallOf("recover") = "recover"
  /\ CallOf("reload") = "restore_primary" /\ CallOf("compare") = "restore_primary"
  /\ CallOf("remove") = "remove"
  BY DEF CallOf

\* Fields of a flow of which only the step has changed.
LEMMA StepFields ==
  ASSUME NEW f \in FlowRecord, NEW step
  PROVE  /\ [f EXCEPT !.at = step].at = step
         /\ [f EXCEPT !.at = step].candidate = f.candidate
         /\ [f EXCEPT !.at = step].next = f.next /\ [f EXCEPT !.at = step].offer = f.offer
  BY DEF FlowRecord

\* The book that is being saved is one.
LEMMA SavingIsShown ==
  ASSUME BookInv, NEW p \in Apps, flow[p].at \in Staging
  PROVE  /\ Saving(p) \in Shown /\ Saving(p).book \in Books /\ Saving(p).mark \in 0..MaxMark
         /\ Saving(p) # None
<1>1. Saving(p) \in Shown
  BY Known DEF Saving, Together, FlowRecord
<1> QED
  BY <1>1, StoreAssumption, BoundsAssumption DEF Shown

\* The steps that no call waits for: a page, an answer, the end of a flow.
LEMMA TurnKeeps ==
  ASSUME BookInv, NEW p \in Apps, Turn(p)
  PROVE  BookInv'
<1> DEFINE s == [shown[p] EXCEPT !.mark = marks + 1]
<1>1. /\ flow[p].at = "idle" /\ calls[p].at = "idle" /\ shown[p] \in Shown
      /\ marks + 1 \in 1..MaxMark /\ UNCHANGED <<svars, flow, asked, faults>>
      /\ marks' = marks + 1
  BY Known, StoreAssumption DEF Turn, Idle, Is, At
<1>2. s \in Shown /\ shown' = [shown EXCEPT ![p] = s]
  BY <1>1, Known DEF Turn, Shown
<1> HIDE DEF s
<1>3. flow' = [flow EXCEPT ![p] = flow[p]]
  BY <1>1 DEF BookInv, FlowTyped
<1>4. Continues(p, flow[p], s)
  BY <1>1, <1>2, <1>3, Known DEF Continues
<1>5. StepFits(flow[p], s)
  BY <1>1, Known DEF StepFits, Together, Staging
<1> QED
  BY <1>1, <1>4, <1>5, CallEnds

\* The requests of the user.
LEMMA AskKeeps ==
  ASSUME BookInv, NEW p \in Apps, SaveBook(p) \/ OpenBook(p) \/ RemoveBook(p)
  PROVE  BookInv'
<1>1. /\ flow[p].at = "idle" /\ calls[p].at = "idle" /\ asked' \in 0..MaxRequests
      /\ UNCHANGED <<shown, marks, faults>> /\ shown = [shown EXCEPT ![p] = shown[p]]
      /\ None \in Content
  <2>1. Ask(p) /\ UNCHANGED <<shown, marks, faults>>
    BY Zenon DEF SaveBook, OpenBook, RemoveBook
  <2>2. flow[p].at = "idle" /\ calls[p].at = "idle" /\ asked' \in 0..MaxRequests
    BY <2>1, Known, BoundsAssumption DEF Ask, Idle, Is, At
  <2>3. shown = [shown EXCEPT ![p] = shown[p]] /\ None \in Content
    BY DEF BookInv, FlowTyped, Content
  <2> QED
    BY <2>1, <2>2, <2>3
<1>2. CASE SaveBook(p)
  <2>1. PICK next \in {None} \cup Books :
           flow' = [flow EXCEPT ![p] = [NoFlow EXCEPT !.at = "save", !.next = next]]
    BY <1>2 DEF SaveBook
  <2> DEFINE f == [NoFlow EXCEPT !.at = "save", !.next = next]
  <2>2. f \in FlowRecord /\ f.at = "save" /\ f.candidate = None
    BY NoFlowFits DEF FlowRecord, Steps
  <2>3. shown[p] \in Shown /\ shown[p] # None
    BY <1>2, Known DEF SaveBook
  <2>4. Starts(p, "save", shown[p].book, shown[p].mark, None, None)
    BY <1>2 DEF SaveBook, Call, Starts
  <2> HIDE DEF f
  <2>5. Continues(p, f, shown[p])
    BY <1>1, <2>1, <2>2, Known DEF Continues, f
  <2>6. StepFits(f, shown[p])
    BY <2>2, <2>3 DEF StepFits
  <2>7. shown[p].book \in Books /\ shown[p].mark \in 0..MaxMark
    BY <2>3, StoreAssumption DEF Shown
  <2> QED
    BY <1>1, <2>2, <2>4, <2>5, <2>6, <2>7, CallsOfSteps, CallBegins DEF Ops
<1>3. CASE OpenBook(p)
  <2>1. PICK b \in Books :
           /\ flow' = [flow EXCEPT ![p] = [NoFlow EXCEPT !.at = "has", !.next = b]]
           /\ Call(p, "restore", b, 0, None, None)
    BY <1>3 DEF OpenBook
  <2> DEFINE f == [NoFlow EXCEPT !.at = "has", !.next = b]
  <2>2. f \in FlowRecord /\ f.at = "has" /\ f.candidate = None /\ f.next = b
    BY NoFlowFits DEF FlowRecord, Steps
  <2>3. Starts(p, "restore", b, 0, None, None)
    BY <2>1 DEF Call, Starts
  <2> HIDE DEF f
  <2>4. Continues(p, f, shown[p])
    BY <1>1, <2>1, <2>2, Known DEF Continues, f
  <2>5. StepFits(f, shown[p])
    BY <2>2 DEF StepFits, Staging
  <2>6. 0 \in 0..MaxMark
    BY StoreAssumption
  <2> QED
    BY <1>1, <2>2, <2>3, <2>4, <2>5, <2>6, CallsOfSteps, CallBegins DEF Ops
<1>4. CASE RemoveBook(p)
  <2>1. PICK b \in Books : Call(p, "remove", b, 0, None, None)
    BY <1>4 DEF RemoveBook
  <2> DEFINE f == [flow[p] EXCEPT !.at = "remove"]
  <2>2. f.at = "remove" /\ f.candidate = flow[p].candidate /\ f.next = flow[p].next
    BY Known, StepFields
  <2>3. Starts(p, "remove", b, 0, None, None)
    BY <2>1 DEF Call, Starts
  <2>4. flow' = [flow EXCEPT ![p] = f] /\ f \in FlowRecord
    BY <1>4, Known DEF RemoveBook, Goto, FlowRecord, Steps
  <2> HIDE DEF f
  <2>5. Continues(p, f, shown[p])
    BY <1>1, <2>4, Known DEF Continues
  <2>6. StepFits(f, shown[p])
    BY <2>2, Known DEF StepFits, Staging, Together
  <2>7. 0 \in 0..MaxMark
    BY StoreAssumption
  <2> QED
    BY <1>1, <2>2, <2>3, <2>5, <2>6, <2>7, CallsOfSteps, CallBegins DEF Ops
<1> QED
  BY <1>2, <1>3, <1>4

\* An answer of the store after which the flow is over.
LEMMA EndKeeps ==
  ASSUME BookInv, NEW p \in Apps, UNCHANGED <<marks, asked, faults>>, Return(p), End(p),
         NEW s \in Shown \cup {None}, shown' = [shown EXCEPT ![p] = s]
  PROVE  BookInv'
<1>1. Continues(p, NoFlow, s)
  BY NoFlowFits, Known DEF Continues, End
<1> QED
  BY <1>1, NoFlowFits, CallEnds

\* What the next step of a flow asks of it.
Follows(step, f, s) ==
    /\ step \in {"has", "restore"} => f.next \in Books
    /\ step \in Staging => f.candidate # None \/ s # None
    /\ step = "compare" => f.candidate # None
    /\ step = "reload" => s # None

\* An answer of the store after which the flow begins its next call.
LEMMA ThenKeeps ==
  ASSUME BookInv, NEW p \in Apps, UNCHANGED <<marks, asked, faults>>, calls[p].at \in {"idle", "done"},
         NEW step \in Steps \ {"idle", "ask"}, NEW op \in Ops, NEW book \in Books,
         NEW mark \in 0..MaxMark, NEW base \in Content, NEW new \in Content,
         Then(p, step, op, book, mark, base, new), op = CallOf(step),
         op = "recover" => ~ Valid(base),
         step = "recover" => <<base, new>> = flow[p].offer,
         NEW s \in Shown \cup {None}, shown' = [shown EXCEPT ![p] = s],
         Follows(step, flow[p], s)
  PROVE  BookInv'
<1> DEFINE f == [flow[p] EXCEPT !.at = step]
<1>1. /\ f.at = step /\ f.candidate = flow[p].candidate /\ f.next = flow[p].next
      /\ f.offer = flow[p].offer
  BY Known, StepFields
<1>2. flow' = [flow EXCEPT ![p] = f] /\ f \in FlowRecord
  BY Known DEF Then, FlowRecord
<1>3. Starts(p, op, book, mark, base, new)
  BY DEF Then, Starts
<1> HIDE DEF f
<1>4. Continues(p, f, s)
  BY <1>2, Known DEF Continues
<1>5. StepFits(f, s)
  BY <1>1, Known DEF StepFits, Together, Follows
<1> QED
  BY <1>1, <1>3, <1>4, <1>5, CallBegins

\* A book that stays shown.
LEMMA ShownStays ==
  ASSUME BookInv, NEW p \in Apps, shown' = shown
  PROVE  shown[p] \in Shown \cup {None} /\ shown' = [shown EXCEPT ![p] = shown[p]]
  BY DEF BookInv, FlowTyped

\* The candidate is staged, and its save begins.
LEMMA StageKeeps ==
  ASSUME BookInv, NEW p \in Apps, UNCHANGED <<shown, asked, faults>>, marks' \in 1..MaxMark,
         flow[p].at \in {"has", "restore"}, calls[p].at = "done",
         NEW mark \in 1..MaxMark, Stage(p, mark)
  PROVE  BookInv'
<1> DEFINE r == [book |-> flow[p].next, mark |-> mark]
           f == [NoFlow EXCEPT !.at = "save", !.candidate = r]
<1>1. flow[p].next \in Books
  BY Known DEF Together
<1>2. r \in Shown /\ r # None
  BY <1>1, BoundsAssumption DEF Shown
<1>3. flow' = [flow EXCEPT ![p] = f]
  BY DEF Stage
<1>4. Starts(p, "save", flow[p].next, mark, None, None)
  <2>1. NoCall \in CallRecord /\ NoCall.base = None /\ NoCall.new = None
    BY NoCallFits DEF NoCall
  <2>2. \A op, book : [NoCall EXCEPT !.at = "open", !.op = op, !.book = book, !.mark = mark]
           = [NoCall EXCEPT !.at = "open", !.op = op, !.book = book, !.mark = mark,
                            !.base = None, !.new = None]
    BY <2>1 DEF CallRecord
  <2> QED
    BY <2>2 DEF Stage, Starts
<1> HIDE DEF r
<1>5. f \in FlowRecord /\ f.at = "save" /\ f.candidate = r /\ f.next = None
  BY <1>2, NoFlowFits DEF FlowRecord, Steps
<1> HIDE DEF f
<1>6. Continues(p, f, shown[p])
  BY <1>3, <1>5, ShownStays, Known DEF Continues
<1>7. StepFits(f, shown[p])
  BY <1>2, <1>5 DEF StepFits
<1>8. mark \in 0..MaxMark /\ None \in Content
  BY StoreAssumption DEF Content
<1> QED
  BY <1>1, <1>4, <1>5, <1>6, <1>7, <1>8, CallsOfSteps, CallBegins DEF Ops

\* Opening a book: has(), then restore(), then the save of the candidate.
LEMMA OpenKeeps ==
  ASSUME BookInv, NEW p \in Apps, Has(p) \/ Restored(p) \/ HasNot(p) \/ OpenFails(p) \/ Removed(p)
  PROVE  BookInv'
<1> USE DEF Is, At
<1>1. None \in Content /\ 0 \in 0..MaxMark
  BY StoreAssumption DEF Content
<1>2. CASE Has(p)
  <2>1. /\ flow[p].at = "has" /\ calls[p].at = "done" /\ UNCHANGED <<shown, marks, asked, faults>>
        /\ Then(p, "restore", "restore", flow[p].next, 0, None, None)
    BY <1>2 DEF Has, Answered
  <2>2. flow[p].next \in Books /\ Follows("restore", flow[p], shown[p])
    BY <2>1, Known DEF Together, Follows, Staging
  <2>3. "restore" \in Steps \ {"idle", "ask"} /\ "restore" \in Ops
    BY DEF Steps, Ops
  <2> QED
    BY <1>1, <2>1, <2>2, <2>3, ShownStays, CallsOfSteps, ThenKeeps
<1>3. CASE Restored(p)
  <2>1. /\ flow[p].at = "restore" /\ calls[p].at = "done" /\ calls[p].result = "ok"
        /\ UNCHANGED <<shown, marks, asked, faults>> /\ Stage(p, calls[p].value)
    BY <1>3 DEF Restored, Answered
  <2>2. calls[p].op = "restore"
    BY <2>1, Known, CallsOfSteps DEF Together
  <2>3. calls[p].value \in 1..MaxMark
    BY <2>1, <2>2, Known DEF CallSound, AnswerSound, Restores
  <2> QED
    BY <2>1, <2>3, StageKeeps, Known
<1>4. CASE HasNot(p)
  <2>1. /\ flow[p].at = "has" /\ calls[p].at = "done" /\ marks < MaxMark /\ marks' = marks + 1
        /\ UNCHANGED <<shown, asked, faults>> /\ Stage(p, marks + 1)
    BY <1>4 DEF HasNot, Answered
  <2>2. marks + 1 \in 1..MaxMark
    BY <2>1, Known, StoreAssumption
  <2> QED
    BY <2>1, <2>2, StageKeeps
<1>5. CASE OpenFails(p)
  BY <1>5, ShownStays, EndKeeps DEF OpenFails
<1>6. CASE Removed(p)
  BY <1>6, ShownStays, EndKeeps DEF Removed
<1> QED
  BY <1>2, <1>3, <1>4, <1>5, <1>6

\* The answers to a save and to the recovery it may need.
LEMMA PersistKeeps ==
  ASSUME BookInv, NEW p \in Apps,
         Persisted(p) \/ AskForOffer(p) \/ Offered(p) \/ Recovered(p)
  PROVE  BookInv'
<1> USE DEF Is, At
<1>1. None \in Content /\ 0 \in 0..MaxMark
  BY StoreAssumption DEF Content
<1>2. CASE Persisted(p)
  <2>1. /\ flow[p].at \in {"save", "save_again"} /\ calls[p].at = "done"
        /\ UNCHANGED <<marks, asked, faults>> /\ shown' = [shown EXCEPT ![p] = Saving(p)]
        /\ IF flow[p].next # None
           THEN Then(p, "has", "restore", flow[p].next, 0, None, None)
           ELSE Return(p) /\ End(p)
    BY <1>2 DEF Persisted, Answered
  <2>2. Saving(p) \in Shown \cup {None}
    BY <2>1, SavingIsShown DEF Staging
  <2>3. CASE flow[p].next # None
    <3>1. flow[p].next \in Books /\ Follows("has", flow[p], Saving(p))
      BY <2>3, Known DEF FlowRecord, Follows, Staging
    <3>2. "has" \in Steps \ {"idle", "ask"} /\ "restore" \in Ops
      BY DEF Steps, Ops
    <3> QED
      BY <1>1, <2>1, <2>2, <2>3, <3>1, <3>2, CallsOfSteps, ThenKeeps
  <2>4. CASE flow[p].next = None
    BY <2>1, <2>2, <2>4, EndKeeps
  <2> QED
    BY <2>3, <2>4
<1>3. CASE AskForOffer(p)
  <2>1. /\ flow[p].at = "save" /\ calls[p].at = "done" /\ UNCHANGED <<shown, marks, asked, faults>>
        /\ Then(p, "offer", "offer", Saving(p).book, 0, None, None)
    BY <1>3 DEF AskForOffer, Answered
  <2>2. Saving(p).book \in Books /\ Follows("offer", flow[p], shown[p])
    BY <2>1, SavingIsShown, Known DEF Staging, Together, Follows
  <2>3. "offer" \in Steps \ {"idle", "ask"} /\ "offer" \in Ops
    BY DEF Steps, Ops
  <2> QED
    BY <1>1, <2>1, <2>2, <2>3, ShownStays, CallsOfSteps, ThenKeeps
<1>4. CASE Offered(p)
  <2> DEFINE f == [flow[p] EXCEPT !.at = "ask", !.offer = calls[p].value]
  <2>1. /\ flow[p].at = "offer" /\ calls[p].at = "done" /\ calls[p].result = "ok"
        /\ UNCHANGED <<shown, marks, asked, faults>> /\ Return(p)
        /\ flow' = [flow EXCEPT ![p].at = "ask", ![p].offer = calls[p].value]
    BY <1>4 DEF Offered, Answered
  <2>2. calls[p].op = "offer"
    BY <2>1, Known, CallsOfSteps DEF Together
  <2>3. calls[p].value \in Content \X Content /\ ~ Valid(calls[p].value[1])
    BY <2>1, <2>2, Known DEF CallSound, AnswerSound
  <2>4. f \in FlowRecord /\ flow' = [flow EXCEPT ![p] = f]
    <3>1. "ask" \in Steps
      BY DEF Steps
    <3> QED
      BY <2>1, <2>3, <3>1, Known DEF FlowRecord
  <2>5. /\ f.at = "ask" /\ f.candidate = flow[p].candidate /\ f.next = flow[p].next
        /\ f.offer = calls[p].value
    BY Known DEF FlowRecord
  <2> HIDE DEF f
  <2>6. Continues(p, f, shown[p])
    BY <2>1, <2>4, ShownStays, Known DEF Continues
  <2>7. StepFits(f, shown[p])
    BY <2>1, <2>3, <2>5, Known DEF StepFits, Together, Staging
  <2> QED
    BY <2>1, <2>5, <2>6, <2>7, CallEnds
<1>5. CASE Recovered(p)
  <2>1. /\ flow[p].at = "recover" /\ calls[p].at = "done"
        /\ UNCHANGED <<shown, marks, asked, faults>>
        /\ Then(p, "save_again", "save", Saving(p).book, Saving(p).mark, None, None)
    BY <1>5 DEF Recovered, Answered
  <2>2. /\ Saving(p).book \in Books /\ Saving(p).mark \in 0..MaxMark
        /\ Follows("save_again", flow[p], shown[p])
    BY <2>1, SavingIsShown, Known DEF Staging, Together, Follows
  <2>3. "save_again" \in Steps \ {"idle", "ask"} /\ "save" \in Ops
    BY DEF Steps, Ops
  <2> QED
    BY <1>1, <2>1, <2>2, <2>3, ShownStays, CallsOfSteps, ThenKeeps
<1> QED
  BY <1>2, <1>3, <1>4, <1>5

\* What the user answers: the recovery is bound to the files that were shown damaged.
LEMMA AnswersKeeps ==
  ASSUME BookInv, NEW p \in Apps, Answers(p)
  PROVE  BookInv'
<1> USE DEF Is, At
<1>1. CASE Confirm(p)
  <2>1. /\ flow[p].at = "ask" /\ calls[p].at = "idle" /\ UNCHANGED <<shown, marks, asked, faults>>
        /\ Then(p, "recover", "recover", Saving(p).book, 0, flow[p].offer[1], flow[p].offer[2])
    BY <1>1 DEF Confirm
  <2>2. /\ Saving(p).book \in Books /\ Follows("recover", flow[p], shown[p])
        /\ ~ Valid(flow[p].offer[1])
    BY <2>1, SavingIsShown, Known DEF Staging, Together, Follows
  <2>3. /\ flow[p].offer[1] \in Content /\ flow[p].offer[2] \in Content
        /\ <<flow[p].offer[1], flow[p].offer[2]>> = flow[p].offer
    BY Known DEF FlowRecord
  <2>4. 0 \in 0..MaxMark /\ "recover" \in Steps \ {"idle", "ask"} /\ "recover" \in Ops
    BY StoreAssumption DEF Steps, Ops
  <2> QED
    BY <2>1, <2>2, <2>3, <2>4, ShownStays, CallsOfSteps, ThenKeeps
<1>2. CASE Decline(p)
  <2>1. calls[p].at = "idle" /\ UNCHANGED <<svars, shown, marks, asked, faults>> /\ End(p)
    BY <1>2, Known DEF Decline, Together
  <2>2. Continues(p, NoFlow, shown[p])
    BY <2>1, NoFlowFits, ShownStays, Known DEF Continues, End
  <2> QED
    BY <2>1, <2>2, NoFlowFits, CallEnds
<1> QED
  BY <1>1, <1>2 DEF Answers

\* A failed save: the shown book is read again, a candidate compared, or the flow ends.
LEMMA PersistFailsKeeps ==
  ASSUME BookInv, NEW p \in Apps, PersistFails(p) \/ Reloaded(p) \/ Compared(p)
  PROVE  BookInv'
<1> USE DEF Is, At
<1>1. None \in Content /\ 0 \in 0..MaxMark
  BY StoreAssumption DEF Content
<1>2. CASE PersistFails(p)
  <2>1. flow[p].at \in Staging /\ calls[p].at = "done" /\ UNCHANGED <<shown, marks, asked, faults>>
    BY <1>2 DEF PersistFails, Persisting, Staging, Error
  <2>2. flow[p].candidate # None \/ shown[p] # None
    BY <2>1, Known DEF Together
  <2>3. CASE /\ flow[p].candidate = None
             /\ Then(p, "reload", "restore_primary", shown[p].book, 0, None, None)
    <3>1. shown[p].book \in Books /\ Follows("reload", flow[p], shown[p])
      BY <2>2, <2>3, Known DEF Shown, Follows, Staging
    <3>2. "reload" \in Steps \ {"idle", "ask"} /\ "restore_primary" \in Ops
      BY DEF Steps, Ops
    <3> QED
      BY <1>1, <2>1, <2>3, <3>1, <3>2, ShownStays, CallsOfSteps, ThenKeeps
  <2>4. CASE /\ flow[p].candidate # None
             /\ Then(p, "compare", "restore_primary", flow[p].candidate.book, 0, None, None)
    <3>1. flow[p].candidate.book \in Books /\ Follows("compare", flow[p], shown[p])
      BY <2>4, Known DEF FlowRecord, Shown, Follows, Staging
    <3>2. "compare" \in Steps \ {"idle", "ask"} /\ "restore_primary" \in Ops
      BY DEF Steps, Ops
    <3> QED
      BY <1>1, <2>1, <2>4, <3>1, <3>2, ShownStays, CallsOfSteps, ThenKeeps
  <2>5. CASE Return(p) /\ End(p)
    BY <2>1, <2>5, ShownStays, EndKeeps
  <2> QED
    BY <1>2, <2>3, <2>4, <2>5, Zenon DEF PersistFails
<1>3. CASE Reloaded(p)
  <2> DEFINE s == IF calls[p].result # "ok" THEN None ELSE [shown[p] EXCEPT !.mark = calls[p].value]
  <2>1. /\ flow[p].at = "reload" /\ shown' = [shown EXCEPT ![p] = s]
        /\ UNCHANGED <<marks, asked, faults>> /\ Return(p) /\ End(p)
    BY <1>3 DEF Reloaded
  <2>2. shown[p] \in Shown /\ calls[p].op = "restore_primary"
    BY <2>1, Known, CallsOfSteps DEF Together
  <2>3. calls[p].result = "ok" => calls[p].value \in 1..MaxMark
    BY <2>2, Known DEF CallSound, AnswerSound, Restores
  <2>4. s \in Shown \cup {None}
    BY <2>2, <2>3 DEF Shown
  <2> HIDE DEF s
  <2> QED
    BY <2>1, <2>4, EndKeeps
<1>4. CASE Compared(p)
  <2> DEFINE s == IF calls[p].result = "ok" /\ calls[p].value = flow[p].candidate.mark
                  THEN flow[p].candidate ELSE shown[p]
  <2>1. /\ shown' = [shown EXCEPT ![p] = s]
        /\ UNCHANGED <<marks, asked, faults>> /\ Return(p) /\ End(p)
    BY <1>4 DEF Compared
  <2>2. s \in Shown \cup {None}
    BY Known DEF FlowRecord
  <2> HIDE DEF s
  <2> QED
    BY <2>1, <2>2, EndKeeps
<1> QED
  BY <1>2, <1>3, <1>4

-----------------------------------------------------------------------------
(* The invariant *)

\* What a flow relies on of the call it is in: it stays the same call.
SameCall(p) ==
    /\ \A q \in Apps : q # p => calls'[q] = calls[q]
    /\ calls[p].at # "idle" /\ calls'[p].at # "idle" /\ calls'[p].op = calls[p].op
    /\ calls[p].op = "recover" => calls'[p].base = calls[p].base /\ calls'[p].new = calls[p].new

\* A step in the store leaves the call the one it was.
LEMMA StoreStepSame ==
  ASSUME StoreInv, NEW p \in Apps, StoreStep(p) \/ StoreFails(p)
  PROVE  SameCall(p)
<1>1. calls[p] \in CallRecord /\ calls \in [Apps -> CallRecord]
  BY DEF StoreInv, StoreTyped
<1>2. ASSUME calls[p].at # "idle",
             \/ \E stage \in Stages \ {"idle"} : Move(p, stage)
             \/ \E result : Finish(p, result)
             \/ \E value : Answer(p, value)
      PROVE  SameCall(p)
  BY <1>1, <1>2 DEF SameCall, Move, Finish, Answer, CallRecord
<1> USE DEF At
<1>3. CASE OpenLock(p) \/ NotInitialized(p) \/ MarkLock(p) \/ MarkFails(p)
  BY <1>2, <1>3 DEF OpenLock, NotInitialized, MarkLock, MarkFails, Stages
<1>4. CASE TakeLock(p) \/ LockTimesOut(p) \/ Unlock(p)
  BY <1>2, <1>4 DEF TakeLock, LockTimesOut, Unlock, Stages
<1>5. CASE ReadWithFallback(p)
  BY <1>2, <1>5 DEF ReadWithFallback
<1>6. CASE ReadPrimary(p)
  BY <1>2, <1>6 DEF ReadPrimary
<1>7. CASE ReadOffer(p)
  BY <1>2, <1>7 DEF ReadOffer
<1>8. CASE ReadForChange(p)
  <2>1. CASE \E result : Finish(p, result)
    BY <1>2, <1>8, <2>1 DEF ReadForChange
  <2>2. CASE calls' = [calls EXCEPT ![p].base = primary, ![p].new = Changed(calls[p]),
                          ![p].at = IF primary = None THEN "check_primary" ELSE "read_backup"]
    BY <1>1, <1>8, <2>2 DEF ReadForChange, SameCall, CallRecord
  <2> QED
    BY <1>8, <2>1, <2>2 DEF ReadForChange
<1>9. CASE ReadForRecovery(p)
  BY <1>2, <1>9 DEF ReadForRecovery, Stages
<1>10. CASE ReadBackup(p)
  <2>1. CASE \E result : Finish(p, result)
    BY <1>2, <1>10, <2>1 DEF ReadBackup
  <2>2. CASE calls' = [calls EXCEPT ![p].bbase = backup, ![p].at = "check_backup"]
    BY <1>1, <1>10, <2>2 DEF ReadBackup, SameCall, CallRecord
  <2> QED
    BY <1>10, <2>1, <2>2 DEF ReadBackup
<1>11. CASE CheckBackup(p) \/ ReplaceBackup(p) \/ ConfirmBackup(p)
  BY <1>2, <1>11 DEF CheckBackup, ReplaceBackup, ConfirmBackup, Stages
<1>12. CASE CheckPrimary(p) \/ ReplacePrimary(p) \/ ConfirmPrimary(p)
  BY <1>2, <1>12 DEF CheckPrimary, ReplacePrimary, ConfirmPrimary, Stages
<1>13. CASE DiskFails(p)
  BY <1>2, <1>13 DEF DiskFails
<1> QED
  BY <1>3, <1>4, <1>5, <1>6, <1>7, <1>8, <1>9, <1>10, <1>11, <1>12, <1>13
     DEF StoreStep, StoreFails

\* A step in the store keeps the invariant.
LEMMA InStoreKeeps ==
  ASSUME BookInv, NEW p \in Apps, InStore(p) \/ Disk(p)
  PROVE  BookInv'
<1>1. /\ StoreStep(p) \/ StoreFails(p)
      /\ UNCHANGED <<shown, flow, marks, asked>>
      /\ faults'.strayed = faults.strayed
      /\ faults' \in [count : 0..MaxFaults, strayed : BOOLEAN]
  BY BoundsAssumption DEF InStore, Disk, Fault, BookInv, FlowTyped
<1>2. StoreInv' /\ SameCall(p)
  BY <1>1, StoreStepKeeps, StoreStepSame DEF BookInv
<1>3. flow' = [flow EXCEPT ![p] = flow[p]] /\ shown' = [shown EXCEPT ![p] = shown[p]]
  BY <1>1 DEF BookInv, FlowTyped
<1>4. Continues(p, flow[p], shown[p])
  BY <1>1, <1>3, Known DEF Continues
<1>5. Together(flow[p], calls'[p], shown[p])
  <2>1. Together(flow[p], calls[p], shown[p])
    BY Known
  <2>2. flow[p].at = "recover" => calls[p].op = "recover"
    BY <2>1, CallsOfSteps DEF Together
  <2> QED
    BY <1>2, <2>1, <2>2 DEF Together, SameCall
<1> QED
  BY <1>1, <1>2, <1>4, <1>5, FlowStepKeeps DEF SameCall

\* So does the death of a process.
LEMMA CrashKeeps ==
  ASSUME BookInv, NEW p \in Apps, Crash(p)
  PROVE  BookInv'
<1>1. /\ Die(p) /\ UNCHANGED <<marks, asked>>
      /\ flow' = [flow EXCEPT ![p] = NoFlow] /\ shown' = [shown EXCEPT ![p] = None]
      /\ faults'.strayed = faults.strayed
      /\ faults' \in [count : 0..MaxFaults, strayed : BOOLEAN]
  BY BoundsAssumption DEF Crash, Fault, BookInv, FlowTyped
<1>2. StoreInv'
  BY <1>1, DieKeeps DEF BookInv
<1>3. calls'[p] = NoCall /\ \A q \in Apps : q # p => calls'[q] = calls[q]
  BY <1>1 DEF Die, BookInv, StoreInv, StoreTyped
<1>4. Continues(p, NoFlow, None)
  BY <1>1, NoFlowFits, Known DEF Continues
<1>5. Together(NoFlow, NoCall, None)
  BY NoFlowFits, NoCallFits DEF Together, StepFits
<1> QED
  BY <1>1, <1>2, <1>3, <1>4, <1>5, FlowStepKeeps

\* Whatever another program puts there is a content.
LEMMA MeddleWrites ==
  ASSUME BookInv, Meddle
  PROVE  \E c \in Content :
            /\ WritePrimary(c) \/ WriteBackup(c)
            /\ faults'.strayed = (faults.strayed \/ Valid(c))
            /\ faults' \in [count : 0..MaxFaults, strayed : BOOLEAN]
            /\ UNCHANGED <<shown, flow, marks, asked>>
<1>1. \A g \in 1..MaxGeneration : Stray(g) \in Payload
  BY StoreAssumption DEF Stray, Payload
<1>2. PICK c \in {None, Future} \cup Damaged \cup {Stray(g) : g \in 1..MaxGeneration} :
         (WritePrimary(c) \/ WriteBackup(c)) /\ Fault(Valid(c))
  BY DEF Meddle
<1>3. c \in Content
  BY <1>1, <1>2 DEF Content
<1>4. Valid(c) \in BOOLEAN
  BY DEF Valid
<1>5. /\ faults'.strayed = (faults.strayed \/ Valid(c))
      /\ faults' \in [count : 0..MaxFaults, strayed : BOOLEAN]
  BY <1>2, <1>4, BoundsAssumption DEF Fault, BookInv, FlowTyped
<1> QED
  BY <1>2, <1>3, <1>5 DEF Meddle

\* And keeps the invariant.
LEMMA MeddleKeeps ==
  ASSUME BookInv, Meddle
  PROVE  BookInv'
<1>1. PICK c \in Content :
         /\ WritePrimary(c) \/ WriteBackup(c)
         /\ faults'.strayed = (faults.strayed \/ Valid(c))
         /\ faults' \in [count : 0..MaxFaults, strayed : BOOLEAN]
         /\ UNCHANGED <<shown, flow, marks, asked>>
  BY MeddleWrites
<1>2. StoreInv'
  BY <1>1, WriteKeeps DEF BookInv
<1>3. FlowTyped'
  BY <1>1 DEF BookInv, FlowTyped
<1>4. FlowsSound'
  BY <1>1 DEF BookInv, FlowsSound, WritePrimary, WriteBackup
<1> QED
  BY <1>2, <1>3, <1>4 DEF BookInv

\* The invariant holds in the beginning.
LEMMA BookStarts == Init => BookInv
<1> SUFFICES ASSUME Init PROVE BookInv
  OBVIOUS
<1>1. StoreInv
  BY StoreStarts DEF Init
<1>2. FlowTyped
  BY NoFlowFits, StoreAssumption, BoundsAssumption DEF Init, FlowTyped
<1>3. \A p \in Apps : Together(flow[p], calls[p], shown[p])
  <2>1. \A p \in Apps : flow[p] = NoFlow /\ calls[p] = NoCall
    BY DEF Init, StoreInit
  <2> QED
    BY <2>1, NoFlowFits, NoCallFits DEF Together, StepFits
<1> QED
  BY <1>1, <1>2, <1>3 DEF BookInv, FlowsSound

\* Every step keeps it.
LEMMA BookStep == BookInv /\ [Next]_vars => BookInv'
<1> SUFFICES ASSUME BookInv, [Next]_vars PROVE BookInv'
  OBVIOUS
<1>1. ASSUME NEW p \in Apps, Running(p) PROVE BookInv'
  BY <1>1, InStoreKeeps, OpenKeeps, PersistKeeps, PersistFailsKeeps DEF Running
<1>2. ASSUME NEW p \in Apps,
             \/ Turn(p) \/ SaveBook(p) \/ OpenBook(p) \/ RemoveBook(p)
             \/ Answers(p) \/ Disk(p) \/ Crash(p)
      PROVE  BookInv'
  BY <1>2, TurnKeeps, AskKeeps, AnswersKeeps, InStoreKeeps, CrashKeeps
<1>3. CASE UNCHANGED vars
  BY <1>3 DEF vars, svars, BookInv, StoreInv, StoreTyped, LockSound, CallsSound, ComparedSound,
     Compares, TrailSound, At, Guard, FlowTyped, FlowsSound
<1> QED
  BY <1>1, <1>2, <1>3, MeddleKeeps DEF Next

\* The invariant, for any number of processes, books, requests and faults.
THEOREM BookInvariant == Spec => []BookInv
  BY BookStarts, BookStep, PTL DEF Spec

-----------------------------------------------------------------------------
(* The files *)

\* The files are those of a history of saves: everything is of its type, and a backup
\* that can be read is one of the last two contents published, as long as no other
\* program has put a payload of its own there.
THEOREM BookFilesOfOneHistory == Spec => []FilesOfOneHistory
<1>1. BookInv => FilesOfOneHistory
  <2> SUFFICES ASSUME BookInv PROVE FilesOfOneHistory
    OBVIOUS
  <2>1. StoreTypeOK
    BY DEF BookInv, StoreInv, StoreTyped, CallRecord, StoreTypeOK
  <2>2. TypeOK
    <3>1. \A p \in Apps :
             /\ shown[p] \in Shown \cup {None}
             /\ flow[p].at \in Steps
             /\ flow[p].candidate \in Shown \cup {None} /\ flow[p].next \in Books \cup {None}
      BY DEF BookInv, FlowTyped, FlowRecord
    <3>2. /\ marks \in 1..MaxMark /\ asked \in 0..MaxRequests
          /\ faults.count \in 0..MaxFaults /\ faults.strayed \in BOOLEAN
      BY DEF BookInv, FlowTyped
    <3> QED
      BY <2>1, <3>1, <3>2 DEF TypeOK
  <2>3. BackupWithinOneSave
    BY DEF BookInv, StoreInv, TrailSound, BackupWithinOneSave
  <2> QED
    BY <2>2, <2>3 DEF FilesOfOneHistory
<1> QED
  BY <1>1, BookInvariant, PTL

\* Unless something goes wrong, only the two replacements write the files.
LEMMA OnlyReplacementsWrite ==
  ASSUME BookInv, [Next]_vars, faults' = faults, <<primary, backup>>' # <<primary, backup>>
  PROVE  \E p \in Apps : ReplacePrimary(p) \/ ReplaceBackup(p)
<1>1. ASSUME NEW p \in Apps, StoreStep(p)
      PROVE  ReplacePrimary(p) \/ ReplaceBackup(p) \/ UNCHANGED <<primary, backup>>
  BY <1>1 DEF StoreStep, OpenLock, NotInitialized, MarkLock, TakeLock, LockTimesOut,
     ReadWithFallback, ReadPrimary, ReadOffer, ReadForChange, ReadForRecovery, ReadBackup,
     CheckBackup, ConfirmBackup, CheckPrimary, ConfirmPrimary, Unlock
<1>2. ASSUME NEW p \in Apps, Running(p), ~ InStore(p)
      PROVE  UNCHANGED <<primary, backup>>
  BY <1>2, Zenon DEF Running, Has, Restored, HasNot, OpenFails, Persisted, AskForOffer, Offered,
     Recovered, PersistFails, Reloaded, Compared, Removed, Then, Stage, Return
<1>3. ASSUME NEW p \in Apps, Turn(p) \/ SaveBook(p) \/ OpenBook(p) \/ RemoveBook(p) \/ Answers(p)
      PROVE  UNCHANGED <<primary, backup>>
  BY <1>3 DEF Turn, SaveBook, OpenBook, RemoveBook, Call, Answers, Confirm, Decline, Then, svars
<1>4. ASSUME NEW strays, Fault(strays) PROVE FALSE
  <2>1. faults.count \in Nat /\ faults'.count = faults.count + 1
    BY <1>4, BoundsAssumption DEF Fault, BookInv, FlowTyped
  <2> QED
    BY <2>1
<1>5. \A p \in Apps : ~ Disk(p) /\ ~ Crash(p)
  BY <1>4 DEF Disk, Crash
<1>6. ~ Meddle
  BY <1>4 DEF Meddle
<1>7. ASSUME UNCHANGED vars PROVE UNCHANGED <<primary, backup>>
  BY <1>7 DEF vars, svars
<1>8. PICK p \in Apps : Turn(p) \/ SaveBook(p) \/ OpenBook(p) \/ RemoveBook(p)
                        \/ Running(p) \/ Answers(p)
  BY <1>5, <1>6, <1>7 DEF Next
<1>9. InStore(p)
  BY <1>2, <1>3, <1>8
<1> QED
  BY <1>1, <1>9 DEF InStore

\* What a replacement finds, when nobody has written since the last comparison.
LEMMA PrimaryReplaced ==
  ASSUME BookInv, NEW p \in Apps, ReplacePrimary(p), raced = {}
  PROVE  /\ primary = calls[p].base /\ backup = Guard(calls[p]) /\ primary' = calls[p].new
         /\ backup' = backup /\ calls[p] \in CallRecord /\ CallSound(calls[p])
         /\ calls[p].at = "replace_primary" /\ calls[p].op \in Changes \cup {"recover"}
  BY Known DEF ReplacePrimary, BookInv, StoreInv, ComparedSound, Compares, At, CallSound, Prepared,
     Preparing

\* The same of the backup, which is neither newer nor of a later schema.
LEMMA BackupReplaced ==
  ASSUME BookInv, NEW p \in Apps, ReplaceBackup(p), raced = {}
  PROVE  /\ primary = calls[p].base /\ backup = calls[p].bbase /\ primary' = primary
         /\ ~ Ahead(calls[p].bbase, calls[p].base) /\ calls[p].bbase # Future
  BY Known DEF ReplaceBackup, BookInv, StoreInv, ComparedSound, Compares, At, CallSound, Prepared

\* A payload leaves the primary only when the backup holds it: a save publishes over
\* what it has backed up, and a recovery only over what cannot be read.
LEMMA KeepsWhatItReplaces ==
  BookInv /\ [Next]_vars =>
     [faults' = faults /\ primary' # primary /\ Valid(primary) /\ raced = {}
         => backup = primary]_vars
<1> SUFFICES ASSUME BookInv, [Next]_vars, faults' = faults, primary' # primary,
                    Valid(primary), raced = {}
             PROVE  backup = primary
  OBVIOUS
<1>1. PICK p \in Apps : ReplacePrimary(p) \/ ReplaceBackup(p)
  BY OnlyReplacementsWrite
<1>2. ReplacePrimary(p)
  BY <1>1 DEF ReplaceBackup
<1>3. /\ primary = calls[p].base /\ backup = Guard(calls[p])
      /\ calls[p].op \in Changes \cup {"recover"} /\ CallSound(calls[p])
  BY <1>2, PrimaryReplaced
<1>4. calls[p].op # "recover"
  BY <1>3 DEF CallSound, Prepared
<1> QED
  BY <1>3, <1>4 DEF Guard

\* A backup of a newer or a divergent generation is never replaced, nor one of a
\* later schema.
LEMMA KeepsNewerBackups ==
  BookInv /\ [Next]_vars =>
     [faults' = faults /\ backup' # backup /\ raced = {}
         => ~ Ahead(backup, primary) /\ backup # Future]_vars
<1> SUFFICES ASSUME BookInv, [Next]_vars, faults' = faults, backup' # backup, raced = {}
             PROVE  ~ Ahead(backup, primary) /\ backup # Future
  OBVIOUS
<1>1. PICK p \in Apps : ReplacePrimary(p) \/ ReplaceBackup(p)
  BY OnlyReplacementsWrite
<1>2. ReplaceBackup(p)
  BY <1>1 DEF ReplacePrimary
<1> QED
  BY <1>2, BackupReplaced

\* No readable content is lost by a save, and none by the recovery of another one.
THEOREM BookNothingReadableLost == Spec => NothingReadableLost
<1>1. Spec => ReplacedIsKept
  BY BookInvariant, KeepsWhatItReplaces, PTL DEF Spec, ReplacedIsKept
<1>2. Spec => NewerBackupKept
  BY BookInvariant, KeepsNewerBackups, PTL DEF Spec, NewerBackupKept
<1> QED
  BY <1>1, <1>2 DEF NothingReadableLost

\* A recovery publishes the backup that the user was asked about, over the files that
\* the user gave up.
LEMMA RecoversAsAgreed ==
  BookInv /\ [Next]_vars =>
     [\A p \in Apps :
          flow[p].at = "recover" /\ faults' = faults /\ primary' # primary /\ raced = {}
             /\ At(p, "replace_primary") /\ calls'[p].at # "replace_primary"
             => <<primary, primary'>> = flow[p].offer /\ backup = primary']_vars
<1> SUFFICES ASSUME BookInv, [Next]_vars, NEW p \in Apps, flow[p].at = "recover",
                    faults' = faults, primary' # primary, raced = {},
                    At(p, "replace_primary"), calls'[p].at # "replace_primary"
             PROVE  <<primary, primary'>> = flow[p].offer /\ backup = primary'
  OBVIOUS
<1>1. PICK q \in Apps : ReplacePrimary(q) \/ ReplaceBackup(q)
  BY OnlyReplacementsWrite
<1>2. ReplacePrimary(q)
  BY <1>1 DEF ReplaceBackup
<1>3. calls' = [calls EXCEPT ![q].at = "confirm_primary"]
  BY <1>2 DEF ReplacePrimary, Move
<1>4. q = p
  BY <1>3 DEF At, BookInv, StoreInv, StoreTyped
<1>5. calls[p].op = "recover" /\ <<calls[p].base, calls[p].new>> = flow[p].offer
  BY Known, CallsOfSteps DEF Together
<1>6. /\ primary = calls[p].base /\ backup = Guard(calls[p]) /\ primary' = calls[p].new
  BY <1>2, <1>4, PrimaryReplaced
<1> QED
  BY <1>5, <1>6 DEF Guard

\* A change to a content that can be read changes one book, one generation later.
LEMMA ChangesOneBook ==
  BookInv /\ [Next]_vars =>
     [faults' = faults /\ primary' # primary /\ raced = {} /\ Valid(primary)
         => /\ primary'.gen = primary.gen + 1
            /\ Cardinality({b \in Books : primary'.marks[b] # primary.marks[b]}) <= 1]_vars
<1> SUFFICES ASSUME BookInv, [Next]_vars, faults' = faults, primary' # primary,
                    raced = {}, Valid(primary)
             PROVE  /\ primary'.gen = primary.gen + 1
                    /\ Cardinality({b \in Books : primary'.marks[b] # primary.marks[b]}) <= 1
  OBVIOUS
<1>1. PICK p \in Apps : ReplacePrimary(p) \/ ReplaceBackup(p)
  BY OnlyReplacementsWrite
<1>2. ReplacePrimary(p)
  BY <1>1 DEF ReplaceBackup
<1>3. /\ primary = calls[p].base /\ primary' = calls[p].new /\ CallSound(calls[p])
      /\ calls[p].at = "replace_primary" /\ calls[p].op \in Changes \cup {"recover"}
  BY <1>2, PrimaryReplaced
<1>4. primary # None
  BY DEF Valid
<1>5. primary' = [gen |-> primary.gen + 1, legacy |-> FALSE,
                  marks |-> [primary.marks EXCEPT ![calls[p].book] = calls[p].mark]]
  BY <1>3, <1>4 DEF CallSound, Prepared, Preparing, ChangeOf
<1>6. primary \in Payload
  BY ReadablePayload DEF BookInv, StoreInv, StoreTyped
<1>7. {b \in Books : primary'.marks[b] # primary.marks[b]} \subseteq {calls[p].book}
  BY <1>5, <1>6 DEF Payload
<1>8. Cardinality({b \in Books : primary'.marks[b] # primary.marks[b]}) <= 1
  <2>1. IsFiniteSet({calls[p].book}) /\ Cardinality({calls[p].book}) = 1
    BY FS_Singleton
  <2>2. Cardinality({b \in Books : primary'.marks[b] # primary.marks[b]})
            <= Cardinality({calls[p].book})
    BY <1>7, <2>1, FS_Subset
  <2> QED
    BY <2>1, <2>2
<1> QED
  BY <1>5, <1>8

\* Whatever is published is what somebody asked for: the change of one book, or the
\* recovery the user agreed to.
THEOREM BookWritesWhatWasAsked == Spec => WritesWhatWasAsked
<1>1. Spec => RecoveryAsAgreed
  BY BookInvariant, RecoversAsAgreed, PTL DEF Spec, RecoveryAsAgreed
<1>2. Spec => OneBookAtATime
  BY BookInvariant, ChangesOneBook, PTL DEF Spec, OneBookAtATime
<1> QED
  BY <1>1, <1>2 DEF WritesWhatWasAsked

-----------------------------------------------------------------------------
(* The mailbox.  What is proved is of MailboxSpec: whoever calls it, and        *)
(* whenever, the mailbox only takes these steps, so it holds of the pump too.   *)

\* Removing one element of a sequence keeps the order of the others.
LEMMA RemoveAtProperties ==
    ASSUME NEW S, NEW s \in Seq(S), NEW i \in 1..Len(s)
    PROVE  /\ RemoveAt(s, i) \in Seq(S)
           /\ Len(RemoveAt(s, i)) = Len(s) - 1
           /\ \A k \in 1..(Len(s) - 1) :
                 RemoveAt(s, i)[k] = IF k < i THEN s[k] ELSE s[k + 1]
<1> DEFINE before == SubSeq(s, 1, i - 1)
           after  == SubSeq(s, i + 1, Len(s))
<1>0. Len(s) \in Nat /\ i \in Int /\ i >= 1 /\ i <= Len(s)
  OBVIOUS
<1>1. before \in Seq(S) /\ Len(before) = i - 1 /\ \A k \in 1..(i - 1) : before[k] = s[k]
  BY <1>0, SubSeqProperties
<1>2. /\ after \in Seq(S) /\ Len(after) = Len(s) - i
      /\ \A k \in 1..(Len(s) - i) : after[k] = s[i + k]
  BY <1>0, SubSeqProperties
<1>3. RemoveAt(s, i) = before \o after
  BY DEF RemoveAt
<1> HIDE DEF before, after
<1>4. /\ before \o after \in Seq(S)
      /\ Len(before \o after) = Len(before) + Len(after)
      /\ \A k \in 1..(Len(before) + Len(after)) :
            (before \o after)[k] = IF k <= Len(before) THEN before[k] ELSE after[k - Len(before)]
  BY <1>1, <1>2, ConcatProperties
<1>5. Len(before) + Len(after) = Len(s) - 1
  BY <1>0, <1>1, <1>2
<1>6. ASSUME NEW k \in 1..(Len(s) - 1)
      PROVE  (before \o after)[k] = IF k < i THEN s[k] ELSE s[k + 1]
  <2>1. CASE k < i
    BY <2>1, <1>0, <1>1, <1>4, <1>5
  <2>2. CASE ~(k < i)
    <3>1. k - (i - 1) \in 1..(Len(s) - i) /\ i + (k - (i - 1)) = k + 1 /\ ~(k <= i - 1)
      BY <2>2, <1>0
    <3>2. (before \o after)[k] = after[k - (i - 1)]
      BY <3>1, <1>1, <1>4, <1>5
    <3>3. after[k - (i - 1)] = s[i + (k - (i - 1))]
      BY <3>1, <1>2
    <3> QED
      BY <2>2, <3>1, <3>2, <3>3
  <2> QED
    BY <2>1, <2>2
<1> QED
  BY <1>3, <1>4, <1>5, <1>6

-----------------------------------------------------------------------------
(* The inductive invariant: the three properties, and that no event carries a  *)
(* number from the future.                                                     *)

Numbered ==
    /\ \A i \in DOMAIN events : events[i].id <= puts
    /\ \A d \in delivered : d.id <= puts
    /\ \A n \in accepted : n <= puts

MailboxInv == MailboxTypeOK /\ QueueBounded /\ InOrder /\ NoSilentLoss /\ Numbered

\* What replacing old progress leaves: part of the queue, in order, with every
\* event that is not progress, and no progress if the new event is progress.
LEMMA WithoutOldProgressKeeps ==
    ASSUME MailboxTypeOK, QueueBounded, InOrder, NEW kind
    PROVE  LET q == WithoutOldProgress(events, kind)
           IN  /\ q \in Seq(Event)
               /\ Len(q) <= Len(events)
               /\ \A i \in DOMAIN q : \E j \in DOMAIN events : q[i] = events[j]
               /\ \A i, j \in DOMAIN q : i < j => q[i].id < q[j].id
               /\ \A i, j \in DOMAIN q : IsProgress(q[i]) /\ IsProgress(q[j]) => i = j
               /\ kind = "progress" => \A i \in DOMAIN q : ~IsProgress(q[i])
               /\ \A i \in DOMAIN events : ~IsProgress(events[i]) =>
                     \E j \in DOMAIN q : q[j] = events[i]
<1> DEFINE q == WithoutOldProgress(events, kind)
<1>1. CASE kind = "progress" /\ ProgressAt(events) # {}
  <2> DEFINE p == Max(ProgressAt(events))
  <2>1. PICK x \in ProgressAt(events) : TRUE
    BY <1>1
  <2>2. ProgressAt(events) = {x}
    BY <2>1 DEF ProgressAt, QueueBounded
  <2>3. x \in Int
    BY <2>1 DEF ProgressAt, MailboxTypeOK
  <2>4. p = x
    BY <2>2, <2>3 DEF Max
  <2>5. p \in 1..Len(events) /\ IsProgress(events[p])
    BY <2>1, <2>4 DEF ProgressAt, MailboxTypeOK
  <2>6. q = RemoveAt(events, p)
    BY <1>1 DEF WithoutOldProgress
  <2> HIDE DEF p, q
  <2>7. /\ q \in Seq(Event) /\ Len(q) = Len(events) - 1
        /\ \A k \in 1..(Len(events) - 1) :
              q[k] = IF k < p THEN events[k] ELSE events[k + 1]
    BY <2>5, <2>6, RemoveAtProperties DEF MailboxTypeOK
  <2>8. Len(events) \in Nat /\ DOMAIN events = 1..Len(events)
        /\ DOMAIN q = 1..(Len(events) - 1) /\ p \in Int
    BY <2>5, <2>7 DEF MailboxTypeOK
  <2>9. \A i \in DOMAIN q : \E j \in DOMAIN events : q[i] = events[j] /\ j # p
                                                   /\ j = IF i < p THEN i ELSE i + 1
    BY <2>7, <2>8
  <2>10. \A i, j \in DOMAIN q : i < j => q[i].id < q[j].id
    BY <2>7, <2>8, <2>9 DEF InOrder
  <2>11. \A i \in DOMAIN q : ~IsProgress(q[i])
    BY <2>5, <2>8, <2>9 DEF QueueBounded
  <2>12. ASSUME NEW i \in DOMAIN events, ~IsProgress(events[i])
         PROVE  \E j \in DOMAIN q : q[j] = events[i]
    <3>1. i # p
      BY <2>5, <2>12
    <3>2. CASE i < p
      BY <3>2, <2>5, <2>7, <2>8
    <3>3. CASE i > p
      <4>1. i - 1 \in DOMAIN q /\ ~(i - 1 < p) /\ (i - 1) + 1 = i
        BY <3>3, <2>5, <2>8
      <4>2. q[i - 1] = events[i]
        BY <4>1, <2>7, <2>8
      <4> QED
        BY <4>1, <4>2
    <3> QED
      BY <3>1, <3>2, <3>3, <2>8
  <2>13. Len(q) <= Len(events)
    BY <2>7, <2>8
  <2>14. /\ \A i \in DOMAIN q : \E j \in DOMAIN events : q[i] = events[j]
         /\ \A i, j \in DOMAIN q : IsProgress(q[i]) /\ IsProgress(q[j]) => i = j
    BY <2>9, <2>11
  <2> QED
    BY <2>7, <2>10, <2>11, <2>12, <2>13, <2>14 DEF q
<1>2. CASE ~(kind = "progress" /\ ProgressAt(events) # {})
  <2>1. q = events
    BY <1>2 DEF WithoutOldProgress
  <2>2. kind = "progress" => \A i \in DOMAIN events : ~IsProgress(events[i])
    BY <1>2 DEF ProgressAt
  <2>3. events \in Seq(Event) /\ Len(events) <= Len(events)
    BY DEF MailboxTypeOK
  <2> HIDE DEF q
  <2> QED
    BY <2>1, <2>2, <2>3 DEF q, InOrder, QueueBounded
<1> QED
  BY <1>1, <1>2

\* A producer's event keeps the invariant, coalesced, queued or refused.
LEMMA PutKeepsInvariant ==
    ASSUME MailboxInv, NEW kind \in {"progress", "lifecycle"}, Put(kind)
    PROVE  MailboxInv'
<1> DEFINE e == [id |-> puts + 1, kind |-> kind]
           q == WithoutOldProgress(events, kind)
<1>1. e \in Event /\ puts \in Nat /\ events \in Seq(Event) /\ DOMAIN events = 1..Len(events)
      /\ Len(events) \in Nat /\ MaxEvents \in Nat /\ MaxEvents >= 4
  BY MailboxAssumption DEF MailboxInv, MailboxTypeOK, Event, Kinds
<1>2. CASE overflowed
  <2>1. events' = events /\ overflowed' = overflowed /\ accepted' = accepted
        /\ delivered' = delivered /\ puts' = puts + 1
    BY <1>2 DEF Put
  <2>2. puts' \in Nat
    BY <2>1, <1>1
  <2>3. MailboxTypeOK'
    BY <2>1, <2>2 DEF MailboxInv, MailboxTypeOK
  <2>4. QueueBounded' /\ InOrder' /\ NoSilentLoss'
    BY <2>1 DEF MailboxInv, QueueBounded, InOrder, NoSilentLoss
  <2>5. /\ \A i \in DOMAIN events : events[i].id \in Nat
        /\ \A d \in delivered : d.id \in Nat
        /\ accepted \subseteq Nat
    <3>1. \A i \in DOMAIN events : events[i] \in Event
      BY <1>1
    <3>2. delivered \subseteq Event /\ accepted \subseteq Nat
      BY DEF MailboxInv, MailboxTypeOK
    <3> QED
      BY <3>1, <3>2 DEF Event
  <2>6. /\ \A i \in DOMAIN events : events[i].id <= puts
        /\ \A d \in delivered : d.id <= puts
        /\ \A n \in accepted : n <= puts
    BY DEF MailboxInv, Numbered
  <2>7. Numbered'
    <3> HIDE DEF q, e
    <3>1. puts \in Nat
      BY <1>1
    <3>2. \A i \in DOMAIN events : events[i].id <= puts + 1
      BY <3>1, <2>5, <2>6
    <3>3. \A d \in delivered : d.id <= puts + 1
      BY <3>1, <2>5, <2>6
    <3>4. \A n \in accepted : n <= puts + 1
      <4> SUFFICES ASSUME NEW n \in accepted PROVE n <= puts + 1
        OBVIOUS
      <4>1. n \in Nat /\ n <= puts
        BY <2>5, <2>6
      <4> QED
        BY <4>1, <3>1
    <3> QED
      BY <3>2, <3>3, <3>4, <2>1 DEF Numbered
  <2> QED
    BY <2>3, <2>4, <2>7 DEF MailboxInv
<1>3. CASE ~overflowed /\ Full(q)
  <2>1. events' = <<[id |-> puts + 1, kind |-> "overflow"]>> /\ overflowed' = TRUE
        /\ puts' = puts + 1 /\ delivered' = delivered
        /\ accepted' \subseteq accepted \cup {puts + 1} /\ accepted \subseteq Nat
    BY <1>3 DEF Put, Overflow, MailboxInv, MailboxTypeOK
  <2>2. /\ events' \in Seq(Event) /\ Len(events') = 1 /\ DOMAIN events' = {1}
        /\ events'[1] = [id |-> puts + 1, kind |-> "overflow"]
        /\ ToSet(events') = {[id |-> puts + 1, kind |-> "overflow"]}
    <3>1. [id |-> puts + 1, kind |-> "overflow"] \in Event
      BY <1>1 DEF Event, Kinds
    <3>2. DOMAIN events' = {1} /\ events'[1] = [id |-> puts + 1, kind |-> "overflow"]
      BY <2>1
    <3> QED
      BY <3>1, <3>2, <2>1 DEF ToSet
  <2>3. MailboxTypeOK'
    BY <2>1, <2>2, <1>1 DEF MailboxInv, MailboxTypeOK
  <2>4. QueueBounded'
    BY <2>1, <2>2, <1>1 DEF QueueBounded
  <2>5. InOrder'
    BY <2>1, <2>2, <1>1 DEF MailboxInv, MailboxTypeOK, Event, Numbered, InOrder
  <2>6. NoSilentLoss'
    BY <2>1, <2>2, <1>1 DEF MailboxInv, Numbered, NoSilentLoss
  <2>7. Numbered'
    BY <2>1, <2>2, <1>1 DEF MailboxInv, MailboxTypeOK, Event, Numbered
  <2> QED
    BY <2>3, <2>4, <2>5, <2>6, <2>7 DEF MailboxInv
<1>4. CASE ~overflowed /\ ~Full(q)
  <2>1. events' = Append(q, e) /\ overflowed' = FALSE /\ puts' = puts + 1 /\ delivered' = delivered
        /\ accepted' = IF kind = "lifecycle" THEN accepted \cup {puts + 1} ELSE accepted
    BY <1>4 DEF Put, Enqueue
  <2>2. /\ q \in Seq(Event)
        /\ \A i \in DOMAIN q : \E j \in DOMAIN events : q[i] = events[j]
        /\ \A i, j \in DOMAIN q : i < j => q[i].id < q[j].id
        /\ \A i, j \in DOMAIN q : IsProgress(q[i]) /\ IsProgress(q[j]) => i = j
        /\ kind = "progress" => \A i \in DOMAIN q : ~IsProgress(q[i])
        /\ \A i \in DOMAIN events : ~IsProgress(events[i]) => \E j \in DOMAIN q : q[j] = events[i]
    BY WithoutOldProgressKeeps DEF MailboxInv
  <2>3. Len(q) < MaxEvents
    BY <1>1, <1>4, <2>2 DEF Full
  <2> HIDE DEF q
  <2>4. DOMAIN q = 1..Len(q) /\ Len(q) \in Nat
    BY <2>2
  <2>5. /\ events' \in Seq(Event) /\ Len(events') = Len(q) + 1
        /\ DOMAIN events' = 1..(Len(q) + 1)
        /\ events'[Len(q) + 1] = e
        /\ \A i \in 1..Len(q) : events'[i] = q[i]
    BY <2>1, <2>2, <2>4, <1>1
  <2>6. \A i \in DOMAIN events : events[i] \in Event /\ events[i].id <= puts
                               /\ events[i].kind # "overflow"
    BY <1>1, <1>4 DEF MailboxInv, Numbered, QueueBounded
  <2>7. \A i \in 1..Len(q) : q[i] \in Event /\ q[i].id <= puts /\ q[i].kind # "overflow"
    BY <2>2, <2>4, <2>6
  <2>8. e.id = puts + 1 /\ e.kind = kind /\ kind # "overflow"
    OBVIOUS
  <2> HIDE DEF e
  <2>9. MailboxTypeOK'
    <3>1. puts' \in Nat
      BY <2>1, <1>1
    <3>3. overflowed' \in BOOLEAN
      BY <2>1
    <3>2. accepted' \subseteq Nat /\ delivered' \subseteq Event
      BY <2>1, <1>1 DEF MailboxInv, MailboxTypeOK
    <3> QED
      BY <3>1, <3>2, <3>3, <2>5 DEF MailboxTypeOK
  <2>10. QueueBounded'
    <3>1. Len(events') <= MaxEvents
      BY <2>3, <2>4, <2>5, <1>1
    <3>2. ASSUME NEW i \in DOMAIN events', NEW j \in DOMAIN events',
                 IsProgress(events'[i]), IsProgress(events'[j])
          PROVE  i = j
      BY <3>2, <2>2, <2>4, <2>5, <2>8 DEF IsProgress
    <3>3. \A i \in DOMAIN events' : events'[i].kind # "overflow"
      BY <2>4, <2>5, <2>7, <2>8
    <3> QED
      BY <3>1, <3>2, <3>3, <2>1 DEF QueueBounded, IsProgress
  <2>11. InOrder'
    <3>1. \A i, j \in DOMAIN events' : i < j => events'[i].id < events'[j].id
      <4> SUFFICES ASSUME NEW i \in DOMAIN events', NEW j \in DOMAIN events', i < j
                   PROVE  events'[i].id < events'[j].id
        OBVIOUS
      <4>1. CASE j = Len(q) + 1
        <5>1. i \in 1..Len(q)
          BY <4>1, <2>4, <2>5
        <5> QED
          BY <5>1, <4>1, <2>5, <2>7, <2>8, <1>1, SMTT(30) DEF Event
      <4>2. CASE j # Len(q) + 1
        BY <4>2, <2>2, <2>4, <2>5
      <4> QED
        BY <4>1, <4>2
    <3>2. \A i \in DOMAIN events', d \in delivered : d.id < events'[i].id
      <4> SUFFICES ASSUME NEW i \in DOMAIN events', NEW d \in delivered
                   PROVE  d.id < events'[i].id
        OBVIOUS
      <4>0. d.id \in Nat
        BY DEF MailboxInv, MailboxTypeOK, Event
      <4>1. CASE i = Len(q) + 1
        BY <4>0, <4>1, <2>5, <2>8, <1>1 DEF MailboxInv, Numbered
      <4>2. CASE i # Len(q) + 1
        BY <4>2, <2>2, <2>4, <2>5 DEF MailboxInv, InOrder
      <4> QED
        BY <4>1, <4>2
    <3> QED
      BY <3>1, <3>2, <2>1 DEF InOrder
  <2>12. NoSilentLoss'
    <3>1. ToSet(events') = {events'[i] : i \in DOMAIN events'} /\ ToSet(events) = {events[i] : i \in DOMAIN events}
      BY DEF ToSet
    <3>2. ASSUME NEW x \in ToSet(events), x.kind # "progress"
          PROVE  x \in ToSet(events')
      <4>1. PICK j \in 1..Len(q) : q[j] = x
        BY <3>1, <3>2, <2>2, <2>4 DEF IsProgress
      <4> QED
        BY <4>1, <3>1, <2>4, <2>5
    <3>3. e \in ToSet(events')
      BY <3>1, <2>4, <2>5
    <3> SUFFICES ASSUME NEW n \in accepted'
                 PROVE  \E x \in delivered' \cup ToSet(events') :
                          \/ x = [id |-> n, kind |-> "lifecycle"]
                          \/ x.kind = "overflow" /\ x.id >= n
      BY DEF NoSilentLoss
    <3>4. CASE n \in accepted
      BY <3>4, <3>2, <2>1 DEF MailboxInv, NoSilentLoss
    <3>5. CASE n \notin accepted
      BY <3>3, <3>5, <2>1 DEF e
    <3> QED
      BY <3>4, <3>5
  <2>13. Numbered'
    <3>1. \A i \in DOMAIN events' : events'[i].id <= puts'
      <4> SUFFICES ASSUME NEW i \in DOMAIN events'
                   PROVE  events'[i].id <= puts'
        OBVIOUS
      <4>1. CASE i = Len(q) + 1
        BY <4>1, <2>1, <2>5, <2>8, <1>1
      <4>2. CASE i # Len(q) + 1
        BY <4>2, <2>1, <2>4, <2>5, <2>7, <1>1 DEF Event
      <4> QED
        BY <4>1, <4>2
    <3>2. \A d \in delivered' : d.id <= puts'
      BY <2>1, <1>1 DEF MailboxInv, MailboxTypeOK, Event, Numbered
    <3>3. \A n \in accepted' : n <= puts'
      BY <2>1, <1>1 DEF MailboxInv, MailboxTypeOK, Numbered
    <3> QED
      BY <3>1, <3>2, <3>3 DEF Numbered
  <2> QED
    BY <2>9, <2>10, <2>11, <2>12, <2>13 DEF MailboxInv
<1> QED
  BY <1>2, <1>3, <1>4

\* So does handing a batch to the consumer.
LEMMA DeliverKeepsInvariant ==
    ASSUME MailboxInv, Deliver
    PROVE  MailboxInv'
<1>1. /\ events' = <<>> /\ overflowed' = FALSE /\ puts' = puts /\ accepted' = accepted
      /\ delivered' = delivered \cup ToSet(events)
  BY DEF Deliver
<1>2. events \in Seq(Event) /\ ToSet(events) = {events[i] : i \in DOMAIN events}
  BY DEF MailboxInv, MailboxTypeOK, ToSet
<1>3. ToSet(events) \subseteq Event
  BY <1>2
<1>4. MailboxTypeOK'
  <2>1. events' \in Seq(Event)
    BY <1>1
  <2>2. overflowed' \in BOOLEAN
    BY <1>1
  <2>3. delivered' \subseteq Event
    BY <1>1, <1>3 DEF MailboxInv, MailboxTypeOK
  <2> QED
    BY <1>1, <2>1, <2>2, <2>3 DEF MailboxInv, MailboxTypeOK
<1>5. QueueBounded' /\ InOrder'
  BY <1>1, MailboxAssumption DEF QueueBounded, InOrder
<1>6. NoSilentLoss'
  <2>1. ToSet(events') = {}
    BY <1>1 DEF ToSet
  <2> QED
    BY <1>1, <2>1 DEF MailboxInv, NoSilentLoss
<1>7. Numbered'
  BY <1>1, <1>2 DEF MailboxInv, Numbered
<1> QED
  BY <1>4, <1>5, <1>6, <1>7 DEF MailboxInv

\* Every state of the mailbox satisfies the invariant, whatever its capacity
\* and whoever puts and delivers.
THEOREM MailboxInvariant == MailboxSpec => []MailboxInv
<1>1. MailboxInit => MailboxInv
  <2> SUFFICES ASSUME MailboxInit PROVE MailboxInv
    OBVIOUS
  <2>1. events = <<>> /\ overflowed = FALSE /\ puts = 0 /\ accepted = {} /\ delivered = {}
    BY DEF MailboxInit
  <2>2. events \in Seq(Event) /\ Len(events) = 0 /\ DOMAIN events = {}
    BY <2>1
  <2>5. overflowed \in BOOLEAN
    BY <2>1
  <2>3. MailboxTypeOK
    BY <2>1, <2>2, <2>5 DEF MailboxTypeOK
  <2>4. QueueBounded /\ InOrder /\ NoSilentLoss /\ Numbered
    BY <2>1, <2>2, MailboxAssumption DEF QueueBounded, InOrder, NoSilentLoss, Numbered
  <2> QED
    BY <2>3, <2>4 DEF MailboxInv
<1>2. MailboxInv /\ [MailboxStep]_mvars => MailboxInv'
  <2> SUFFICES ASSUME MailboxInv, [MailboxStep]_mvars PROVE MailboxInv'
    OBVIOUS
  <2>1. CASE Deliver
    BY <2>1, DeliverKeepsInvariant
  <2>2. ASSUME NEW kind \in {"progress", "lifecycle"}, Put(kind) PROVE MailboxInv'
    BY <2>2, PutKeepsInvariant
  <2>3. CASE UNCHANGED mvars
    BY <2>3 DEF mvars, MailboxInv, MailboxTypeOK, QueueBounded, InOrder, NoSilentLoss, Numbered
  <2> QED
    BY <2>1, <2>2, <2>3 DEF MailboxStep
<1> QED
  BY <1>1, <1>2, PTL DEF MailboxSpec

\* The queue stays within max_events, with at most one progress event, and a
\* flagged overflow is exactly one queued overflow event.
THEOREM MailboxBounded == MailboxSpec => []QueueBounded
<1>1. MailboxInv => QueueBounded
  BY DEF MailboxInv
<1> QED
  BY <1>1, MailboxInvariant, PTL

\* Replacing progress, overflowing and delivering never present events out of
\* the order in which the workers put them.
THEOREM MailboxInOrder == MailboxSpec => []InOrder
<1>1. MailboxInv => InOrder
  BY DEF MailboxInv
<1> QED
  BY <1>1, MailboxInvariant, PTL

\* A lifecycle event is delivered or queued, or an overflow event put after it is.
THEOREM MailboxNoSilentLoss == MailboxSpec => []NoSilentLoss
<1>1. MailboxInv => NoSilentLoss
  BY DEF MailboxInv
<1> QED
  BY <1>1, MailboxInvariant, PTL

-----------------------------------------------------------------------------
(* The pump *)

\* No thread, timer or callback touches the mailbox except through its operations.
LEMMA PumpStepsAreMailboxSteps == [PumpNext]_uiVars => [MailboxStep]_mvars
<1> SUFFICES ASSUME [PumpNext]_uiVars PROVE MailboxStep \/ UNCHANGED mvars
  OBVIOUS
<1>1. CASE UNCHANGED uiVars
  BY <1>1 DEF uiVars
<1>2. ASSUME NEW w \in Workers, Emit(w) \/ WorkerStep(w)
      PROVE  MailboxStep \/ UNCHANGED mvars
  <2>1. CASE PutEvent(w)
    BY <2>1 DEF PutEvent, MailboxStep
  <2>2. CASE Emit(w) \/ RequestWakeup(w) \/ Post(w) \/ ScheduleAfterFailedPost(w)
    BY <2>2 DEF Emit, RequestWakeup, Post, ScheduleAfterFailedPost
  <2> QED
    BY <1>2, <2>1, <2>2 DEF WorkerStep
<1>3. ASSUME NEW r \in Timers, TimerStep(r)
      PROVE  MailboxStep \/ UNCHANGED mvars
  BY <1>3 DEF TimerStep, TimerFires, RetryPendingWakeup, RequestWakeup, Post
<1>4. ASSUME NEW t \in Threads, PostFails(t)
      PROVE  MailboxStep \/ UNCHANGED mvars
  BY <1>4 DEF PostFails
<1>5. CASE UiDelivers
  BY <1>5 DEF UiDelivers, MailboxStep
<1>6. CASE OwnerAsync
  BY <1>6 DEF OwnerAsync, MailboxStep
<1>7. CASE RunPosted \/ UiFails \/ Recover \/ Close \/ Resume
  BY <1>7 DEF RunPosted, UiFails, Recover, Close, Resume
<1> QED
  BY <1>1, <1>2, <1>3, <1>4, <1>5, <1>6, <1>7 DEF PumpNext, UiStep

\* The pump, its workers and timers and the UI thread use the mailbox as the
\* mailbox expects, so what is proved of the mailbox holds of them together.
THEOREM PumpImplementsMailbox == PumpSpec => MailboxSpec
<1>1. PumpInit => MailboxInit
  BY DEF PumpInit
<1> QED
  BY <1>1, PumpStepsAreMailboxSteps, PTL DEF PumpSpec, MailboxSpec

\* However workers, retries, deliveries and refused shutdowns interleave, the
\* queue keeps its bound and its one progress event.
THEOREM PumpQueueBounded == PumpSpec => []QueueBounded
BY PumpImplementsMailbox, MailboxBounded, PTL

\* ... events are presented in the order in which they were put, ...
THEOREM PumpInOrder == PumpSpec => []InOrder
BY PumpImplementsMailbox, MailboxInOrder, PTL

\* ... and no lifecycle event of a file operation disappears without an overflow
\* event in its place.
THEOREM PumpNoSilentLoss == PumpSpec => []NoSilentLoss
BY PumpImplementsMailbox, MailboxNoSilentLoss, PTL

\* Together: the pump reads from a bounded, ordered queue that drops no lifecycle
\* event silently.
THEOREM PumpQueueFaithful == PumpSpec => []QueueFaithful
BY PumpQueueBounded, PumpInOrder, PumpNoSilentLoss, PTL DEF QueueFaithful

-----------------------------------------------------------------------------
(* Only an open pump raises the flag or starts a timer. *)

\* A closed pump starts no timer.
LEMMA ScheduleKeepsClosed ==
    ASSUME NEW where, ScheduleRetry(where), closed
    PROVE  UNCHANGED retryTimer
BY DEF ScheduleRetry, ShouldSchedule

\* Every step keeps resume() from being refused.
LEMMA ResumeStaysPossible ==
    ASSUME ResumeNotRefused, [PumpNext]_uiVars
    PROVE  ResumeNotRefused'
<1>1. CASE UNCHANGED uiVars
  BY <1>1 DEF uiVars, pvars, ResumeNotRefused
<1>2. ASSUME NEW w \in Workers, Emit(w) \/ WorkerStep(w)
      PROVE  ResumeNotRefused'
  <2>1. CASE ScheduleAfterFailedPost(w)
    BY <2>1, ScheduleKeepsClosed DEF ScheduleAfterFailedPost, ResumeNotRefused
  <2>2. CASE Emit(w) \/ PutEvent(w) \/ RequestWakeup(w) \/ Post(w)
    BY <2>2 DEF Emit, PutEvent, RequestWakeup, Post, ResumeNotRefused
  <2> QED
    BY <1>2, <2>1, <2>2 DEF WorkerStep
<1>3. ASSUME NEW r \in Timers, TimerStep(r)
      PROVE  ResumeNotRefused'
  BY <1>3 DEF TimerStep, TimerFires, RetryPendingWakeup, ForgetTimer, RequestWakeup, Post,
              ResumeNotRefused
<1>4. ASSUME NEW t \in Threads, PostFails(t)
      PROVE  ResumeNotRefused'
  BY <1>4 DEF PostFails, ResumeNotRefused
<1>5. CASE UiFails
  BY <1>5, ScheduleKeepsClosed DEF UiFails, ResumeNotRefused
<1>6. CASE RunPosted \/ UiDelivers \/ Recover \/ OwnerAsync \/ Resume
  BY <1>6 DEF RunPosted, ClearPending, UiDelivers, Recover, OwnerAsync, Resume, ResumeNotRefused
<1>7. CASE Close
  BY <1>7 DEF Close, CancelTimers, ResumeNotRefused
<1> QED
  BY <1>1, <1>2, <1>3, <1>4, <1>5, <1>6, <1>7 DEF PumpNext, UiStep

\* A pump that has been closed can be opened again: a worker between its put and
\* its post, a timer that has fired and a delivery that fails leave neither the
\* pending flag nor a timer behind that resume_after_refused_shutdown would
\* refuse.
THEOREM PumpResumeNotRefused == PumpSpec => []ResumeNotRefused
<1>1. PumpInit => ResumeNotRefused
  BY DEF PumpInit, ResumeNotRefused
<1>2. ResumeNotRefused /\ [PumpNext]_uiVars => ResumeNotRefused'
  BY ResumeStaysPossible
<1> QED
  BY <1>1, <1>2, PTL DEF PumpSpec

-----------------------------------------------------------------------------
(* Type correctness, and nobody forgets an event.                              *)

Places == {"idle", "putting", "requesting", "posting", "failed", "sleeping", "fired"}

\* The pump's half of PumpTypeOK, with RetryIsAlive.
PumpShape ==
    /\ at \in [Threads -> Places]
    /\ wakeupPending \in BOOLEAN
    /\ posted \in Seq(BOOLEAN)
    /\ retryTimer \in Timers \cup {NoTimer}
    /\ retryTimer # NoTimer => at[retryTimer] \in {"sleeping", "fired"}
    /\ closed \in BOOLEAN
    /\ uiAt \in {"idle", "ready", "lastReady"}
    /\ failures \in 0..MaxFailures
    /\ closes \in 0..MaxCloses

\* A raised flag stands for a callback that is posted or about to be.
FlagMeansPost == wakeupPending => posted # <<>> \/ \E t \in Threads : at[t] = "posting"

\* A retry in any stage shows that something has failed.
RetryMeansFailure ==
    \/ \E r \in Timers : at[r] # "idle"
    \/ \E t \in Threads : at[t] = "failed"
    \/ \E i \in DOMAIN posted : posted[i] = FALSE
    \/ uiAt = "lastReady"
    => failures >= 1

WayInv == PumpShape /\ FlagMeansPost /\ RetryMeansFailure /\ EventsOnTheirWay

\* Scheduling a retry keeps the types.
LEMMA ScheduleShape ==
    ASSUME PumpShape,
           NEW where \in [Threads -> Places], \A r \in Timers : where[r] = at[r],
           ScheduleRetry(where)
    PROVE  /\ at' \in [Threads -> Places]
           /\ retryTimer' \in Timers \cup {NoTimer}
           /\ retryTimer' # NoTimer => at'[retryTimer'] \in {"sleeping", "fired"}
           /\ \A t \in Threads : where[t] = "posting" => at'[t] = "posting"
           /\ events # <<>> /\ ~closed => \E r \in Timers : at'[r] # "idle"
<1>1. CASE ShouldSchedule
  <2>1. PICK r \in Timers : /\ at[r] = "idle"
                            /\ retryTimer' = r
                            /\ at' = [where EXCEPT ![r] = "sleeping"]
    BY <1>1 DEF ScheduleRetry
  <2>2. r \in Threads /\ "sleeping" \in Places
    BY DEF Threads, Places
  <2>3. at' \in [Threads -> Places] /\ at'[r] = "sleeping"
    BY <2>1, <2>2
  <2>4. \A t \in Threads : where[t] = "posting" => at'[t] = "posting"
    BY <2>1, <2>2
  <2> QED
    BY <2>1, <2>3, <2>4
<1>2. CASE ~ShouldSchedule
  <2>1. at' = where /\ retryTimer' = retryTimer
    BY <1>2 DEF ScheduleRetry
  <2>2. retryTimer # NoTimer => retryTimer \in Timers /\ where[retryTimer] \in {"sleeping", "fired"}
    BY DEF PumpShape
  <2>3. events # <<>> /\ ~closed => retryTimer # NoTimer
    BY <1>2 DEF ShouldSchedule
  <2> QED
    BY <2>1, <2>2, <2>3 DEF PumpShape
<1> QED
  BY <1>1, <1>2

\* Every step keeps an event on its way to the consumer.
LEMMA WayStep ==
    ASSUME WayInv, [PumpNext]_uiVars
    PROVE  WayInv'
<1>0. PumpShape /\ FlagMeansPost /\ RetryMeansFailure /\ EventsOnTheirWay
  BY DEF WayInv
<1>1. CASE UNCHANGED uiVars
  BY <1>0, <1>1 DEF uiVars, pvars, mvars, WayInv, PumpShape, FlagMeansPost, RetryMeansFailure, EventsOnTheirWay
<1>2. ASSUME NEW w \in Workers, Emit(w)
      PROVE  WayInv'
  <2>1. PumpShape'
    BY <1>0, <1>2, PumpAssumption DEF Emit, Goes, mvars, Threads, Places, PumpShape
  <2>2. FlagMeansPost'
    BY <1>0, <1>2, PumpAssumption DEF Emit, Goes, mvars, Threads, Places, PumpShape, FlagMeansPost
  <2>3. RetryMeansFailure'
    BY <1>0, <1>2, PumpAssumption DEF Emit, Goes, mvars, Threads, Places, PumpShape, RetryMeansFailure
  <2>4. EventsOnTheirWay'
    BY <1>0, <1>2, PumpAssumption DEF Emit, Goes, mvars, Threads, Places, PumpShape, EventsOnTheirWay
  <2> QED
    BY <2>1, <2>2, <2>3, <2>4 DEF WayInv
<1>3. ASSUME NEW w \in Workers, PutEvent(w)
      PROVE  WayInv'
  <2>1. PumpShape'
    BY <1>0, <1>3, PumpAssumption DEF PutEvent, Goes, mvars, Threads, Places, PumpShape
  <2>2. FlagMeansPost'
    BY <1>0, <1>3, PumpAssumption DEF PutEvent, Goes, mvars, Threads, Places, PumpShape, FlagMeansPost
  <2>3. RetryMeansFailure'
    BY <1>0, <1>3, PumpAssumption DEF PutEvent, Goes, mvars, Threads, Places, PumpShape, RetryMeansFailure
  <2>4. EventsOnTheirWay'
    BY <1>0, <1>3, PumpAssumption DEF PutEvent, Goes, mvars, Threads, Places, PumpShape, EventsOnTheirWay
  <2> QED
    BY <2>1, <2>2, <2>3, <2>4 DEF WayInv
<1>4. ASSUME NEW t \in Threads, RequestWakeup(t)
      PROVE  WayInv'
  <2>1. PumpShape'
    BY <1>0, <1>4, PumpAssumption DEF RequestWakeup, Goes, mvars, Threads, Places, PumpShape
  <2>2. FlagMeansPost'
    BY <1>0, <1>4, PumpAssumption DEF RequestWakeup, Goes, mvars, Threads, Places, PumpShape, FlagMeansPost
  <2>3. RetryMeansFailure'
    BY <1>0, <1>4, PumpAssumption DEF RequestWakeup, Goes, mvars, Threads, Places, PumpShape, RetryMeansFailure
  <2>4. EventsOnTheirWay'
    <3>1. CASE closed \/ ~wakeupPending
      BY <3>1, <1>0, <1>4 DEF RequestWakeup, Goes, mvars, PumpShape, EventsOnTheirWay
    <3>2. CASE ~closed /\ wakeupPending
      BY <3>2, <1>0, <1>4 DEF RequestWakeup, Goes, mvars, PumpShape, FlagMeansPost,
         EventsOnTheirWay
    <3> QED
      BY <3>1, <3>2
  <2> QED
    BY <2>1, <2>2, <2>3, <2>4 DEF WayInv
<1>5. ASSUME NEW t \in Threads, Post(t)
      PROVE  WayInv'
  <2>1. PumpShape'
    BY <1>0, <1>5, PumpAssumption DEF Post, Goes, mvars, Threads, Places, PumpShape
  <2>2. FlagMeansPost'
    BY <1>0, <1>5, PumpAssumption DEF Post, Goes, mvars, Threads, Places, PumpShape, FlagMeansPost
  <2>3. RetryMeansFailure'
    <3>1. /\ posted' = Append(posted, t \in Workers) /\ posted \in Seq(BOOLEAN)
          /\ at[t] = "posting" /\ at' = [at EXCEPT ![t] = "idle"]
          /\ failures' = failures /\ uiAt' = uiAt /\ at \in [Threads -> Places]
      BY <1>0, <1>5 DEF Post, Goes, PumpShape
    <3>2. CASE t \in Timers
      BY <3>1, <3>2, <1>0 DEF RetryMeansFailure
    <3>3. CASE t \in Workers
      <4>1. \A i \in DOMAIN posted' : posted'[i] = FALSE => i \in DOMAIN posted /\ posted[i] = FALSE
        <5>1. posted' = Append(posted, TRUE)
          BY <3>1, <3>3
        <5> QED
          BY <5>1, <3>1
      <4> QED
        BY <4>1, <3>1, <1>0 DEF RetryMeansFailure
    <3> QED
      BY <3>2, <3>3 DEF Threads
  <2>4. EventsOnTheirWay'
    BY <1>0, <1>5, PumpAssumption DEF Post, Goes, mvars, Threads, Places, PumpShape, EventsOnTheirWay
  <2> QED
    BY <2>1, <2>2, <2>3, <2>4 DEF WayInv
<1>6. ASSUME NEW t \in Threads, PostFails(t)
      PROVE  WayInv'
  <2>1. PumpShape'
    <3>1. failures' \in 0..MaxFailures
      BY <1>0, <1>6, PumpAssumption DEF PostFails, PumpShape
    <3>2. at' \in [Threads -> Places]
      BY <1>0, <1>6 DEF PostFails, Goes, Places, PumpShape
    <3>3. retryTimer # NoTimer => at'[retryTimer] = at[retryTimer]
      BY <1>0, <1>6 DEF PostFails, Goes, PumpShape, Threads
    <3> QED
      BY <3>1, <3>2, <3>3, <1>0, <1>6 DEF PostFails, PumpShape
  <2>2. FlagMeansPost'
    BY <1>0, <1>6, PumpAssumption DEF PostFails, Goes, mvars, Threads, Places, PumpShape, FlagMeansPost
  <2>3. RetryMeansFailure'
    BY <1>0, <1>6, PumpAssumption DEF PostFails, Goes, mvars, Threads, Places, PumpShape, RetryMeansFailure
  <2>4. EventsOnTheirWay'
    <3>1. CASE t \in Workers
      <4>1. at'[t] # "idle"
        BY <3>1, <1>0, <1>6 DEF PostFails, Goes, PumpShape
      <4> QED
        BY <4>1 DEF EventsOnTheirWay
    <3>2. CASE t \in Timers
      <4>1. failures >= 1 /\ failures \in Int /\ failures' = failures + 1
        BY <3>2, <1>0, <1>6 DEF PostFails, PumpShape, RetryMeansFailure
      <4> QED
        BY <4>1 DEF EventsOnTheirWay
    <3> QED
      BY <3>1, <3>2 DEF Threads
  <2> QED
    BY <2>1, <2>2, <2>3, <2>4 DEF WayInv
<1>7. ASSUME NEW w \in Workers, ScheduleAfterFailedPost(w)
      PROVE  WayInv'
  <2> DEFINE where == [at EXCEPT ![w] = "idle"]
  <2>a. where \in [Threads -> Places] /\ \A r \in Timers : where[r] = at[r]
    BY <1>0, PumpAssumption DEF PumpShape, Threads, Places
  <2>b. ScheduleRetry(where)
    BY <1>7 DEF ScheduleAfterFailedPost
  <2>c. /\ at' \in [Threads -> Places]
        /\ retryTimer' \in Timers \cup {NoTimer}
        /\ retryTimer' # NoTimer => at'[retryTimer'] \in {"sleeping", "fired"}
        /\ \A t \in Threads : where[t] = "posting" => at'[t] = "posting"
        /\ events # <<>> /\ ~closed => \E r \in Timers : at'[r] # "idle"
    BY <1>0, <2>a, <2>b, ScheduleShape
  <2>1. PumpShape'
    BY <2>c, <1>0, <1>7, PumpAssumption DEF ScheduleAfterFailedPost, mvars, Threads, Places, PumpShape
  <2>2. FlagMeansPost'
    BY <2>c, <1>0, <1>7, PumpAssumption DEF ScheduleAfterFailedPost, mvars, Threads, Places, PumpShape, FlagMeansPost
  <2>3. RetryMeansFailure'
    BY <2>c, <1>0, <1>7, PumpAssumption DEF ScheduleAfterFailedPost, mvars, Threads, Places, PumpShape, RetryMeansFailure
  <2>4. EventsOnTheirWay'
    BY <2>c, <1>0, <1>7, PumpAssumption DEF ScheduleAfterFailedPost, mvars, Threads, Places, PumpShape, EventsOnTheirWay
  <2> QED
    BY <2>1, <2>2, <2>3, <2>4 DEF WayInv
<1>8. ASSUME NEW r \in Timers, TimerFires(r) \/ RetryPendingWakeup(r)
      PROVE  WayInv'
  <2>1. PumpShape'
    BY <1>0, <1>8, PumpAssumption DEF TimerFires, RetryPendingWakeup, ForgetTimer, Goes, mvars, Threads, Places, PumpShape
  <2>2. FlagMeansPost'
    BY <1>0, <1>8, PumpAssumption DEF TimerFires, RetryPendingWakeup, ForgetTimer, Goes, mvars, Threads, Places, PumpShape, FlagMeansPost
  <2>3. RetryMeansFailure'
    BY <1>0, <1>8, PumpAssumption DEF TimerFires, RetryPendingWakeup, ForgetTimer, Goes, mvars, Threads, Places, PumpShape, RetryMeansFailure
  <2>4. EventsOnTheirWay'
    BY <1>0, <1>8, PumpAssumption DEF TimerFires, RetryPendingWakeup, ForgetTimer, Goes, mvars, Threads, Places, PumpShape, EventsOnTheirWay
  <2> QED
    BY <2>1, <2>2, <2>3, <2>4 DEF WayInv
<1>9. CASE RunPosted
  <2>1. PumpShape'
    <3>1. posted' \in Seq(BOOLEAN)
      <4>1. posted \in Seq(BOOLEAN) /\ posted # <<>> /\ posted' = Tail(posted)
        BY <1>0, <1>9 DEF RunPosted, PumpShape
      <4> QED
        BY <4>1
    <3> QED
      BY <3>1, <1>0, <1>9 DEF RunPosted, ClearPending, PumpShape
  <2>2. FlagMeansPost'
    BY <1>0, <1>9, PumpAssumption DEF RunPosted, ClearPending, mvars, Threads, Places, PumpShape, FlagMeansPost
  <2>3. RetryMeansFailure'
    <3>1. posted \in Seq(BOOLEAN) /\ posted # <<>> /\ posted' = Tail(posted)
      BY <1>0, <1>9 DEF RunPosted, PumpShape
    <3>2. \A i \in DOMAIN posted' : i + 1 \in DOMAIN posted /\ posted'[i] = posted[i + 1]
      BY <3>1
    <3>3. 1 \in DOMAIN posted /\ Head(posted) = posted[1] /\ Head(posted) \in BOOLEAN
      BY <3>1
    <3>4. uiAt' = "lastReady" => posted[1] = FALSE
      BY <3>3, <1>9 DEF RunPosted
    <3> QED
      BY <3>2, <3>3, <3>4, <1>0, <1>9 DEF RunPosted, RetryMeansFailure
  <2>4. EventsOnTheirWay'
    BY <1>0, <1>9, PumpAssumption DEF RunPosted, ClearPending, mvars, Threads, Places, PumpShape, EventsOnTheirWay
  <2> QED
    BY <2>1, <2>2, <2>3, <2>4 DEF WayInv
<1>10. CASE UiDelivers \/ Recover \/ OwnerAsync \/ Resume
  <2>1. PumpShape'
    BY <1>0, <1>10, PumpAssumption DEF UiDelivers, Deliver, Recover, OwnerAsync, Resume, mvars, Threads, Places, PumpShape
  <2>2. FlagMeansPost'
    BY <1>0, <1>10, PumpAssumption DEF UiDelivers, Deliver, Recover, OwnerAsync, Resume, mvars, Threads, Places, PumpShape, FlagMeansPost
  <2>3. RetryMeansFailure'
    BY <1>0, <1>10, PumpAssumption DEF UiDelivers, Deliver, Recover, OwnerAsync, Resume, mvars, Threads, Places, PumpShape, RetryMeansFailure
  <2>4. EventsOnTheirWay'
    BY <1>0, <1>10, PumpAssumption DEF UiDelivers, Deliver, Recover, OwnerAsync, Resume, mvars, Threads, Places, PumpShape, EventsOnTheirWay
  <2> QED
    BY <2>1, <2>2, <2>3, <2>4 DEF WayInv
<1>11. CASE UiFails
  <2>1. /\ failures \in Int /\ failures >= 0 /\ failures' = failures + 1
        /\ failures' \in 0..MaxFailures /\ uiAt' = "idle"
        /\ UNCHANGED <<events, wakeupPending, posted, closed, closes>>
    BY <1>0, <1>11, PumpAssumption DEF UiFails, mvars, PumpShape
  <2>2. CASE uiAt = "ready"
    <3>1. ScheduleRetry(at)
      BY <2>2, <1>11 DEF UiFails
    <3>2. /\ at' \in [Threads -> Places]
          /\ retryTimer' \in Timers \cup {NoTimer}
          /\ retryTimer' # NoTimer => at'[retryTimer'] \in {"sleeping", "fired"}
          /\ \A t \in Threads : at[t] = "posting" => at'[t] = "posting"
          /\ events # <<>> /\ ~closed => \E r \in Timers : at'[r] # "idle"
      BY <3>1, <1>0, ScheduleShape DEF PumpShape
    <3>3. PumpShape' /\ FlagMeansPost'
      BY <2>1, <3>2, <1>0 DEF PumpShape, FlagMeansPost
    <3>4. RetryMeansFailure'
      BY <2>1 DEF RetryMeansFailure
    <3>5. EventsOnTheirWay'
      BY <2>1, <3>2 DEF EventsOnTheirWay, Threads
    <3> QED
      BY <3>3, <3>4, <3>5 DEF WayInv
  <2>3. CASE uiAt # "ready"
    <3>1. UNCHANGED <<at, retryTimer>> /\ uiAt = "lastReady"
      BY <2>3, <1>0, <1>11 DEF UiFails, PumpShape
    <3>2. PumpShape' /\ FlagMeansPost'
      BY <2>1, <3>1, <1>0 DEF PumpShape, FlagMeansPost
    <3>3. failures >= 1
      BY <3>1, <1>0 DEF RetryMeansFailure
    <3>4. RetryMeansFailure' /\ EventsOnTheirWay'
      BY <2>1, <3>3 DEF RetryMeansFailure, EventsOnTheirWay
    <3> QED
      BY <3>2, <3>4 DEF WayInv
  <2> QED
    BY <2>2, <2>3
<1>12. CASE Close
  <2>1. PumpShape'
    <3>1. at' \in [Threads -> Places]
      BY <1>0, <1>12 DEF Close, CancelTimers, PumpShape, Places
    <3>2. closes' \in 0..MaxCloses
      BY <1>0, <1>12, PumpAssumption DEF Close, PumpShape
    <3> QED
      BY <3>1, <3>2, <1>0, <1>12 DEF Close, CancelTimers, PumpShape
  <2>2. FlagMeansPost'
    BY <1>0, <1>12, PumpAssumption DEF Close, CancelTimers, mvars, Threads, Places, PumpShape, FlagMeansPost
  <2>3. RetryMeansFailure'
    BY <1>0, <1>12, PumpAssumption DEF Close, CancelTimers, mvars, Threads, Places, PumpShape, RetryMeansFailure
  <2>4. EventsOnTheirWay'
    BY <1>0, <1>12, PumpAssumption DEF Close, CancelTimers, mvars, Threads, Places, PumpShape, EventsOnTheirWay
  <2> QED
    BY <2>1, <2>2, <2>3, <2>4 DEF WayInv
<1> QED
  BY <1>1, <1>2, <1>3, <1>4, <1>5, <1>6, <1>7, <1>8, <1>9, <1>10, <1>11, <1>12
  DEF PumpNext, WorkerStep, TimerStep, UiStep, Threads

\* So it is in every reachable state.
LEMMA WayInvariant == PumpSpec => []WayInv
<1>1. PumpInit => WayInv
  <2> SUFFICES ASSUME PumpInit PROVE WayInv
    OBVIOUS
  <2>1. PumpShape
    <3>1. 0 \in 0..MaxFailures /\ 0 \in 0..MaxCloses
      BY PumpAssumption
    <3>2. <<>> \in Seq(BOOLEAN)
      OBVIOUS
    <3>3. at \in [Threads -> Places] /\ wakeupPending \in BOOLEAN /\ closed \in BOOLEAN
      BY DEF PumpInit, Places
    <3> QED
      BY <3>1, <3>2, <3>3 DEF PumpInit, PumpShape
  <2>2. FlagMeansPost /\ RetryMeansFailure
    BY DEF PumpInit, Threads, FlagMeansPost, RetryMeansFailure
  <2>3. EventsOnTheirWay
    BY DEF PumpInit, MailboxInit, EventsOnTheirWay
  <2> QED
    BY <2>1, <2>2, <2>3 DEF WayInv
<1>2. WayInv /\ [PumpNext]_uiVars => WayInv'
  BY WayStep
<1> QED
  BY <1>1, <1>2, PTL DEF PumpSpec

\* The pump and its mailbox keep their types, whatever the number of threads.
THEOREM PumpTypeCorrect == PumpSpec => []PumpTypeOK
<1>1. MailboxInv /\ WayInv => PumpTypeOK
  BY DEF MailboxInv, WayInv, PumpShape, Places, PumpTypeOK
<1> QED
  BY <1>1, PumpImplementsMailbox, MailboxInvariant, WayInvariant, PTL

\* Whatever a timer that has fired races with, neither its reference nor the pending
\* flag outlives it: a close can be taken back, and a later failure be retried.
THEOREM PumpRetriesLeaveNothing == PumpSpec => []RetriesLeaveNothing
<1>1. WayInv => RetryIsAlive
  BY DEF WayInv, PumpShape, RetryIsAlive
<1>2. ResumeNotRefused /\ RetryIsAlive => RetriesLeaveNothing
  BY DEF RetriesLeaveNothing
<1> QED
  BY <1>1, <1>2, PumpResumeNotRefused, WayInvariant, PTL

\* No interleaving of workers, posts, retries, refused shutdowns and resumes
\* leaves an event in an open mailbox with nobody on the way to deliver it, as
\* long as at most one post or delivery has failed.
THEOREM PumpForgetsNoEvent == PumpSpec => []EventsOnTheirWay
BY WayInvariant, PTL DEF WayInv

================================================================================
