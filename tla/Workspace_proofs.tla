--------------------------- MODULE Workspace_proofs ---------------------------
(***************************************************************************)
(* Proofs about the parts that work on files, for every value of their     *)
(* constants. SettingsManager: a change of a setting reaches its file or   *)
(* is still on its way; SettingsInv says which write of the queue carries  *)
(* the last value of a field that is marked as modified. EventsWatcher:    *)
(* the schedule follows the files, and an event that is not periodic is    *)
(* executed once at most; EventsInv says of each file that no change met   *)
(* while it was read which call, timer and map entry it may have, and of   *)
(* each content who holds it until its work goes to the channel.           *)
(***************************************************************************)
EXTENDS SettingsManager, EventsWatcher, SequenceTheorems, FiniteSetTheorems, TLAPS

-----------------------------------------------------------------------------
(* Settings: types *)

Writes == [scope : SettingsScopes, snapshot : [Fields -> Other..MaxSets], fields : SUBSET Fields]

\* What is known of the types, in one place.
SettingsTypes ==
  /\ disk \in [SettingsScopes -> [state : {"absent", "json", "broken"},
                                  at : [Fields -> Other..MaxSets]]]
  /\ memory \in [SettingsScopes -> [Fields -> Other..MaxSets]]
  /\ modified \in [SettingsScopes -> SUBSET Fields]
  /\ missing \in BOOLEAN
  /\ sets \in 0..MaxSets /\ edits \in 0..MaxEdits /\ faults \in 0..MaxFaults
  /\ \A i \in 1..Len(writeQueue) : writeQueue[i].fields # {}
  /\ writeQueue \in Seq(Writes)
  /\ wanted \in [SettingsScopes -> [Fields -> Other..MaxSets]]
  /\ loadError \in [SettingsScopes -> BOOLEAN]
  /\ theirs \subseteq SettingsScopes \X Fields

\* What is known of one field of one file.
OursAt(s, f) == disk[s].at[f] \in {wanted[s][f], Other} \/ UnderWay(s, f)

MarkedAt(s, f) ==
  /\ f \in modified[s] => memory[s][f] = wanted[s][f]
  /\ <<s, f>> \notin excused => LastWriteIsWanted(s, f) /\ MarkIsCarried(s, f)

TheirsAt(s, f) ==
  <<s, f>> \in theirs =>
    /\ f \notin modified[s] /\ \A i \in 1..Len(writeQueue) : ~Carries(i, s, f)
    /\ disk[s].at[f] = Other

MissingAt(s, f) ==
  /\ disk[s].state = "absent" => disk[s].at[f] = Unset
  /\ missing /\ writeQueue[1].scope = s => UnderWay(s, f)

ByField ==
  \A s \in SettingsScopes, f \in Fields :
    OursAt(s, f) /\ MarkedAt(s, f) /\ TheirsAt(s, f) /\ MissingAt(s, f)

\* The invariant speaks of the pairs of a scope and a field one by one: its three quantified
\* conjuncts are those of every pair.
LEMMA InvByField == SettingsInv <=> SettingsTypes /\ ByField
<1>1. ASSUME SettingsInv PROVE SettingsTypes /\ ByField
  <2>1. SettingsTypes
    BY <1>1 DEF SettingsInv, SettingsTypes, SettingsTypeOK, Writes
  <2>2. ASSUME NEW s \in SettingsScopes, NEW f \in Fields
        PROVE  OursAt(s, f) /\ MarkedAt(s, f) /\ TheirsAt(s, f) /\ MissingAt(s, f)
    <3>1. OursAt(s, f)
      BY <1>1 DEF SettingsInv, ChangesPersist, OursPersist, OursAt
    <3>2. MarkedAt(s, f)
      BY <1>1 DEF SettingsInv, MarkedAt
    <3>3. \A change \in theirs : disk[change[1]].at[change[2]] = Other
      BY <1>1 DEF SettingsInv, ChangesPersist, TheirsPersist
    <3>4. <<s, f>> \in theirs => disk[s].at[f] = Other
      BY <3>3
    <3>5. TheirsAt(s, f)
      BY <1>1, <3>4 DEF SettingsInv, TheirsAt
    <3>6. MissingAt(s, f)
      BY <1>1 DEF SettingsInv, MissingAt
    <3> QED
      BY <3>1, <3>2, <3>5, <3>6
  <2> QED
    BY <2>1, <2>2 DEF ByField
<1>2. ASSUME SettingsTypes, ByField PROVE SettingsInv
  <2>0. \A s \in SettingsScopes, f \in Fields :
          OursAt(s, f) /\ MarkedAt(s, f) /\ TheirsAt(s, f) /\ MissingAt(s, f)
    BY <1>2 DEF ByField
  <2>1. OursPersist
    <3>1. \A s \in SettingsScopes, f \in Fields : OursAt(s, f)
      BY <2>0
    <3> QED
      BY <3>1 DEF OursAt, OursPersist
  <2>2. TheirsPersist
    <3> SUFFICES ASSUME NEW change \in theirs PROVE disk[change[1]].at[change[2]] = Other
      BY DEF TheirsPersist
    <3>1. PICK s \in SettingsScopes, f \in Fields : change = <<s, f>>
      BY <1>2 DEF SettingsTypes
    <3> QED
      BY <1>2, <3>1 DEF ByField, TheirsAt
  <2>3. \A s \in SettingsScopes, f \in Fields :
       /\ f \in modified[s] => memory[s][f] = wanted[s][f]
       /\ <<s, f>> \notin excused => LastWriteIsWanted(s, f) /\ MarkIsCarried(s, f)
       /\ <<s, f>> \in theirs =>
            f \notin modified[s] /\ \A i \in 1..Len(writeQueue) : ~Carries(i, s, f)
       /\ disk[s].state = "absent" => disk[s].at[f] = Unset
       /\ missing /\ writeQueue[1].scope = s => UnderWay(s, f)
    <3>1. \A s \in SettingsScopes, f \in Fields : MarkedAt(s, f) /\ TheirsAt(s, f)
      BY <2>0
    <3>2. \A s \in SettingsScopes, f \in Fields : MissingAt(s, f)
      BY <2>0
    <3> QED
      BY <3>1, <3>2, Zenon DEF MarkedAt, TheirsAt, MissingAt
  <2> QED
    BY <1>2, <2>1, <2>2, <2>3 DEF SettingsInv, SettingsTypes, SettingsTypeOK, Writes, ChangesPersist
<1> QED
  BY <1>1, <1>2

\* A manager that has just loaded a file agrees with it in every scope and field.
LEMMA SettingsInitInv == SettingsInit => SettingsInv
<1> SUFFICES ASSUME SettingsInit PROVE SettingsTypes /\ ByField
  BY InvByField
<1>1. Blank \in [Fields -> Other..MaxSets] /\ 0 \in 0..MaxSets /\ 0 \in 0..MaxEdits /\ 0 \in 0..MaxFaults
  BY SettingsAssumption DEF Blank, Unset, Other
<1>2. PICK state \in [SettingsScopes -> {"absent", "json", "broken"}] :
        /\ disk = [s \in SettingsScopes |-> [state |-> state[s], at |-> Blank]]
        /\ loadError = [s \in SettingsScopes |-> state[s] = "broken"]
  BY DEF SettingsInit
<1>3. /\ memory = [s \in SettingsScopes |-> Blank]
      /\ modified = [s \in SettingsScopes |-> {}]
      /\ writeQueue = <<>> /\ missing = FALSE
      /\ sets = 0 /\ edits = 0 /\ faults = 0
      /\ wanted = [s \in SettingsScopes |-> Blank]
      /\ excused = {} /\ theirs = {}
  BY DEF SettingsInit
<1>4. writeQueue \in Seq(Writes) /\ Len(writeQueue) = 0
  BY <1>3
<1>5. SettingsTypes
  <2>1. disk \in [SettingsScopes -> [state : {"absent", "json", "broken"},
                                     at : [Fields -> Other..MaxSets]]]
    BY <1>1, <1>2
  <2>2. loadError \in [SettingsScopes -> BOOLEAN]
    BY <1>2
  <2>3. missing \in BOOLEAN
    BY <1>3
  <2> QED
    BY <1>1, <1>3, <1>4, <2>1, <2>2, <2>3 DEF SettingsTypes
<1>6. ByField
  <2>1. \A s \in SettingsScopes, f \in Fields : disk[s].at[f] = Unset
    BY <1>2 DEF Blank
  <2> QED
    BY <1>3, <1>4, <2>1
    DEF ByField, OursAt, UnderWay, MarkedAt, TheirsAt, MissingAt, LastWriteIsWanted, MarkIsCarried, Blank
<1> QED
  BY <1>5, <1>6

-----------------------------------------------------------------------------
(* Settings: the queue of writes *)

\* The queue without its head: what is carried by the others.
LEMMA TailOfWrites ==
  ASSUME SettingsTypes, writeQueue # <<>>, writeQueue' = Tail(writeQueue)
  PROVE  /\ Len(writeQueue) \in Nat \ {0} /\ Len(writeQueue') = Len(writeQueue) - 1
         /\ writeQueue' \in Seq(Writes) /\ writeQueue[1] \in Writes
         /\ Head(writeQueue) = writeQueue[1]
         /\ \A i \in 1..Len(writeQueue') : writeQueue'[i] = writeQueue[i + 1]
         /\ \A i \in 1..Len(writeQueue') : writeQueue'[i].fields # {}
         /\ \A i \in 2..Len(writeQueue) : i - 1 \in 1..Len(writeQueue') /\ writeQueue'[i - 1] = writeQueue[i]
<1>1. /\ writeQueue' \in Seq(Writes) /\ Len(writeQueue) \in Nat \ {0}
      /\ Len(writeQueue') = Len(writeQueue) - 1
      /\ \A i \in 1..Len(writeQueue') : writeQueue'[i] = writeQueue[i + 1]
      /\ Head(writeQueue) = writeQueue[1]
  BY HeadTailProperties DEF SettingsTypes
<1>2. writeQueue[1] \in Writes
  BY <1>1, ElementOfSeq DEF SettingsTypes
<1>3. \A i \in 2..Len(writeQueue) : i - 1 \in 1..Len(writeQueue') /\ (i - 1) + 1 = i
  BY <1>1
<1>4. \A i \in 2..Len(writeQueue) : writeQueue'[i - 1] = writeQueue[i]
  BY <1>1, <1>3
<1>5. \A i \in 1..Len(writeQueue') : i + 1 \in 1..Len(writeQueue)
  BY <1>1
<1>6. \A i \in 1..Len(writeQueue') : writeQueue'[i].fields # {}
  <2>1. \A i \in 1..Len(writeQueue) : writeQueue[i].fields # {}
    BY DEF SettingsTypes
  <2> QED
    BY <1>1, <1>5, <2>1
<1> QED
  BY <1>1, <1>2, <1>3, <1>4, <1>6

\* Taking the head away leaves the last write of a field, and the last write of
\* a scope, what they were.
LEMMA TailKeeps ==
  ASSUME SettingsTypes, writeQueue # <<>>, writeQueue' = Tail(writeQueue),
         NEW s \in SettingsScopes, NEW f \in Fields, wanted' = wanted
  PROVE  /\ LastWriteIsWanted(s, f) => LastWriteIsWanted(s, f)'
         /\ MarkIsCarried(s, f) /\ (f \in modified'[s] => f \in modified[s]) => MarkIsCarried(s, f)'
         /\ \A i \in 1..Len(writeQueue') : Carries(i, s, f)' => Carries(i + 1, s, f)
         /\ \A i \in 2..Len(writeQueue) : Carries(i, s, f) => Carries(i - 1, s, f)'
<1>1. /\ Len(writeQueue) \in Nat \ {0} /\ Len(writeQueue') = Len(writeQueue) - 1
      /\ \A i \in 1..Len(writeQueue') : writeQueue'[i] = writeQueue[i + 1]
      /\ \A i \in 2..Len(writeQueue) : i - 1 \in 1..Len(writeQueue') /\ writeQueue'[i - 1] = writeQueue[i]
  BY TailOfWrites
<1>2. /\ \A i \in 1..Len(writeQueue') : i + 1 \in 2..Len(writeQueue) /\ i + 1 \in 1..Len(writeQueue)
      /\ \A i \in 1..Len(writeQueue') : \A j \in (i + 1)..Len(writeQueue) :
           j \in 2..Len(writeQueue) /\ j - 1 \in i..Len(writeQueue')
  BY <1>1
<1>3. \A i \in 1..Len(writeQueue') : Carries(i, s, f)' => Carries(i + 1, s, f)
  BY <1>1 DEF Carries
<1>4. \A i \in 2..Len(writeQueue) : Carries(i, s, f) => Carries(i - 1, s, f)'
  BY <1>1 DEF Carries
<1>5. ASSUME LastWriteIsWanted(s, f) PROVE LastWriteIsWanted(s, f)'
  <2> SUFFICES ASSUME NEW i \in 1..Len(writeQueue'), Carries(i, s, f)'
               PROVE  \E j \in i..Len(writeQueue') :
                        Carries(j, s, f)' /\ writeQueue'[j].snapshot[f] = wanted[s][f]
    BY DEF LastWriteIsWanted
  <2>1. PICK j \in (i + 1)..Len(writeQueue) :
          Carries(j, s, f) /\ writeQueue[j].snapshot[f] = wanted[s][f]
    BY <1>2, <1>3, <1>5 DEF LastWriteIsWanted
  <2>2. j - 1 \in i..Len(writeQueue') /\ j \in 2..Len(writeQueue)
    BY <1>2
  <2> QED
    BY <1>1, <1>4, <2>1, <2>2
<1>6. ASSUME MarkIsCarried(s, f), f \in modified'[s] => f \in modified[s]
      PROVE  MarkIsCarried(s, f)'
  <2> SUFFICES ASSUME NEW i \in 1..Len(writeQueue'), writeQueue'[i].scope = s, f \in modified[s]
               PROVE  \E j \in i..Len(writeQueue') : Carries(j, s, f)'
    BY <1>6 DEF MarkIsCarried
  <2>1. PICK j \in (i + 1)..Len(writeQueue) : Carries(j, s, f)
    BY <1>1, <1>2, <1>6 DEF MarkIsCarried
  <2>2. j - 1 \in i..Len(writeQueue') /\ j \in 2..Len(writeQueue)
    BY <1>2
  <2> QED
    BY <1>4, <2>1, <2>2
<1> QED
  BY <1>3, <1>4, <1>5, <1>6

-----------------------------------------------------------------------------
(* Settings: steps *)

\* A setter: its change is in memory, marked, and carried by the write that is
\* put last, or excused.
LEMMA SetStep ==
  ASSUME SettingsTypes, ByField, NEW scope \in SettingsScopes, NEW field \in Fields, Set(scope, field)
  PROVE  SettingsTypes' /\ ByField'
<1> DEFINE value  == sets + 1
           fresh  == [memory[scope] EXCEPT ![field] = value]
           marked == modified[scope] \cup {field}
           write  == [scope |-> scope, snapshot |-> fresh, fields |-> marked]
<1>1. /\ sets < MaxSets /\ sets' = value
      /\ memory' = [memory EXCEPT ![scope] = fresh]
      /\ modified' = [modified EXCEPT ![scope] = marked]
      /\ wanted' = [wanted EXCEPT ![scope][field] = value]
      /\ theirs' = theirs \ {<<scope, field>>}
      /\ missing = FALSE
      /\ UNCHANGED <<disk, loadError, missing, edits, faults>>
  BY DEF Set
<1>2. \/ /\ loadError[scope]
         /\ excused' = excused \cup {<<scope, field>>}
         /\ writeQueue' = writeQueue
      \/ /\ excused' = excused \ {<<scope, field>>}
         /\ writeQueue' = Append(writeQueue, write)
  BY DEF Set
<1>3. value \in 0..MaxSets /\ value \in Other..MaxSets
  BY <1>1, SettingsAssumption DEF SettingsTypes, Other
<1> HIDE DEF value
<1>4. fresh \in [Fields -> Other..MaxSets] /\ fresh[field] = value
      /\ \A f \in Fields \ {field} : fresh[f] = memory[scope][f]
  BY <1>3 DEF SettingsTypes
<1>5. marked \in SUBSET Fields /\ field \in marked
  BY DEF SettingsTypes
<1> HIDE DEF fresh, marked
<1>6. /\ write \in Writes /\ write.fields # {}
      /\ write.scope = scope /\ write.snapshot = fresh /\ write.fields = marked
  BY <1>4, <1>5 DEF Writes
<1> HIDE DEF write
<1>7. /\ writeQueue \in Seq(Writes) /\ Len(writeQueue) \in Nat
      /\ \A i \in 1..Len(writeQueue) : writeQueue[i].fields # {}
  <2>1. writeQueue \in Seq(Writes) /\ \A i \in 1..Len(writeQueue) : writeQueue[i].fields # {}
    BY DEF SettingsTypes
  <2> QED
    BY <2>1
<1>8. /\ Append(writeQueue, write) \in Seq(Writes)
      /\ Len(Append(writeQueue, write)) = Len(writeQueue) + 1
      /\ \A i \in 1..Len(writeQueue) : Append(writeQueue, write)[i] = writeQueue[i]
      /\ Append(writeQueue, write)[Len(writeQueue) + 1] = write
  BY <1>6, <1>7, AppendProperties
<1>9. \A i \in 1..(Len(writeQueue) + 1) : i \in 1..Len(writeQueue) \/ i = Len(writeQueue) + 1
  BY <1>7
<1>10. SettingsTypes'
  <2>1. /\ memory' \in [SettingsScopes -> [Fields -> Other..MaxSets]]
        /\ modified' \in [SettingsScopes -> SUBSET Fields]
        /\ wanted' \in [SettingsScopes -> [Fields -> Other..MaxSets]]
    BY <1>1, <1>3, <1>4, <1>5 DEF SettingsTypes
  <2>2. writeQueue' \in Seq(Writes) /\ \A i \in 1..Len(writeQueue') : writeQueue'[i].fields # {}
    <3>1. CASE writeQueue' = writeQueue
      BY <1>7, <3>1
    <3>2. CASE writeQueue' = Append(writeQueue, write)
      BY <1>6, <1>7, <1>8, <1>9, <3>2
    <3> QED
      BY <1>2, <3>1, <3>2
  <2> QED
    BY <1>1, <1>3, <2>1, <2>2 DEF SettingsTypes
<1>11. ASSUME NEW s \in SettingsScopes, NEW f \in Fields
       PROVE  OursAt(s, f)' /\ MarkedAt(s, f)' /\ TheirsAt(s, f)' /\ MissingAt(s, f)'
  <2>0. MissingAt(s, f)'
    BY <1>1 DEF ByField, MissingAt
  <2>1. OursAt(s, f) /\ MarkedAt(s, f) /\ TheirsAt(s, f) /\ MissingAt(s, f)
    BY DEF ByField
  <2>2. CASE s = scope /\ f = field
    <3>1. wanted'[s][f] = value /\ memory'[s][f] = value /\ f \in modified'[s]
      BY <1>1, <1>4, <1>5, <2>2 DEF SettingsTypes
    <3>2. <<s, f>> \notin theirs'
      BY <1>1, <2>2
    <3>3. OursAt(s, f)' /\ TheirsAt(s, f)'
      BY <3>1, <3>2 DEF OursAt, UnderWay, TheirsAt
    <3>4. CASE excused' = excused \cup {<<scope, field>>}
      BY <2>0, <2>2, <3>1, <3>3, <3>4 DEF MarkedAt
    <3>5. CASE writeQueue' = Append(writeQueue, write)
      <4> PICK n \in Nat : n = Len(writeQueue) + 1
        BY <1>7
      <4>1. /\ Len(writeQueue') = n /\ n \in Nat
            /\ Carries(n, s, f)' /\ writeQueue'[n].snapshot[f] = value
        BY <1>4, <1>5, <1>6, <1>7, <1>8, <2>2, <3>5 DEF Carries
      <4>2. \A i \in 1..n : n \in i..n
        BY <4>1
      <4>3. LastWriteIsWanted(s, f)'
        BY <3>1, <4>1, <4>2 DEF LastWriteIsWanted
      <4>4. MarkIsCarried(s, f)'
        BY <4>1, <4>2 DEF MarkIsCarried
      <4> QED
        BY <2>0, <3>1, <3>3, <4>3, <4>4 DEF MarkedAt
    <3> QED
      BY <1>2, <3>4, <3>5
  <2>3. CASE ~(s = scope /\ f = field)
    <3>1. /\ wanted'[s][f] = wanted[s][f] /\ memory'[s][f] = memory[s][f]
          /\ f \in modified'[s] <=> f \in modified[s]
          /\ <<s, f>> \in excused' <=> <<s, f>> \in excused
          /\ <<s, f>> \in theirs' <=> <<s, f>> \in theirs
          /\ disk' = disk
      <4>1. <<s, f>> # <<scope, field>>
        BY <2>3
      <4>2. wanted'[s][f] = wanted[s][f]
        BY <1>1, <2>3 DEF SettingsTypes
      <4>3. memory'[s][f] = memory[s][f]
        BY <1>1, <1>4, <2>3 DEF SettingsTypes
      <4>4. f \in modified'[s] <=> f \in modified[s]
        BY <1>1, <2>3 DEF SettingsTypes, marked
      <4> QED
        BY <1>1, <1>2, <4>1, <4>2, <4>3, <4>4
    <3>2. CASE writeQueue' = writeQueue
      <4>1. \A i : Carries(i, s, f)' <=> Carries(i, s, f)
        BY <3>2 DEF Carries
      <4>2. (LastWriteIsWanted(s, f) <=> LastWriteIsWanted(s, f)')
            /\ (MarkIsCarried(s, f) <=> MarkIsCarried(s, f)')
        BY <3>1, <3>2, <4>1 DEF LastWriteIsWanted, MarkIsCarried
      <4> QED
        BY <2>0, <2>1, <3>1, <3>2, <4>1, <4>2 DEF OursAt, UnderWay, MarkedAt, TheirsAt
    <3>3. CASE writeQueue' = Append(writeQueue, write)
      <4> PICK n \in Nat : n = Len(writeQueue) + 1
        BY <1>7
      <4>1. /\ Len(writeQueue') = n /\ n \in Nat /\ writeQueue'[n] = write
            /\ \A i \in 1..Len(writeQueue) : i \in 1..n /\ writeQueue'[i] = writeQueue[i]
            /\ \A i \in 1..n : n \in i..n
            /\ \A i \in 1..n : i \in 1..Len(writeQueue) \/ i = n
            /\ \A i \in 1..Len(writeQueue) : \A j \in i..Len(writeQueue) :
                 j \in i..n /\ j \in 1..Len(writeQueue)
        BY <1>7, <1>8, <3>3
      <4>2. \A i \in 1..Len(writeQueue) : Carries(i, s, f)' <=> Carries(i, s, f)
        BY <4>1 DEF Carries
      <4>3. Carries(n, s, f)' <=> s = scope /\ f \in modified[s]
        BY <1>1, <1>6, <2>3, <4>1 DEF Carries, SettingsTypes, marked
      <4>4. Carries(n, s, f)' => f \in modified[s] /\ writeQueue'[n].snapshot[f] = wanted[s][f]
        BY <1>4, <1>6, <2>1, <2>3, <4>1, <4>3 DEF MarkedAt
      <4>5. OursAt(s, f)'
        BY <2>1, <3>1, <4>1, <4>2 DEF OursAt, UnderWay
      <4>6. TheirsAt(s, f)'
        BY <2>1, <3>1, <4>1, <4>2, <4>3 DEF TheirsAt
      <4>7. ASSUME LastWriteIsWanted(s, f) PROVE LastWriteIsWanted(s, f)'
        <5> SUFFICES ASSUME NEW i \in 1..n, Carries(i, s, f)'
                     PROVE  \E j \in i..n : Carries(j, s, f)'
                                            /\ writeQueue'[j].snapshot[f] = wanted[s][f]
          BY <3>1, <4>1 DEF LastWriteIsWanted
        <5>1. CASE i = n
          BY <4>1, <4>4, <5>1
        <5>2. CASE i \in 1..Len(writeQueue)
          <6>1. PICK j \in i..Len(writeQueue) :
                  Carries(j, s, f) /\ writeQueue[j].snapshot[f] = wanted[s][f]
            BY <4>2, <4>7, <5>2 DEF LastWriteIsWanted
          <6> QED
            BY <4>1, <4>2, <5>2, <6>1
        <5> QED
          BY <4>1, <5>1, <5>2
      <4>8. ASSUME MarkIsCarried(s, f) PROVE MarkIsCarried(s, f)'
        <5> SUFFICES ASSUME f \in modified[s], NEW i \in 1..n, writeQueue'[i].scope = s
                     PROVE  \E j \in i..n : Carries(j, s, f)'
          BY <3>1, <4>1 DEF MarkIsCarried
        <5>1. CASE s = scope
          BY <4>1, <4>3, <5>1
        <5>2. CASE s # scope
          <6>1. i \in 1..Len(writeQueue)
            BY <1>6, <4>1, <5>2
          <6>2. PICK j \in i..Len(writeQueue) : Carries(j, s, f)
            BY <4>1, <4>8, <6>1 DEF MarkIsCarried
          <6> QED
            BY <4>1, <4>2, <6>1, <6>2
        <5> QED
          BY <5>1, <5>2
      <4> QED
        BY <2>0, <2>1, <3>1, <4>5, <4>6, <4>7, <4>8 DEF MarkedAt
    <3> QED
      BY <1>2, <3>2, <3>3
  <2> QED
    BY <2>2, <2>3
<1> QED
  BY <1>10, <1>11 DEF ByField

\* A write that succeeds: the file has what it carries; a field whose mark it
\* clears without carrying it is carried by a later write.
LEMMA SettingsWriteStep ==
  ASSUME SettingsTypes, ByField, Write
  PROVE  SettingsTypes' /\ ByField'
<1>1. PICK write : write = writeQueue[1]
  OBVIOUS
<1>2. /\ writeQueue # <<>> /\ writeQueue' = Tail(writeQueue)
      /\ Head(writeQueue) = write /\ write \in Writes
      /\ Len(writeQueue) \in Nat \ {0} /\ 1 \in 1..Len(writeQueue)
      /\ writeQueue' \in Seq(Writes)
      /\ \A i \in 1..Len(writeQueue') : writeQueue'[i].fields # {}
  BY <1>1, TailOfWrites DEF Write
<1>3. /\ disk' = [disk EXCEPT ![write.scope] =
                    [state |-> "json", at |-> Merged(write, TextRead(write))]]
      /\ modified' = [modified EXCEPT ![write.scope] = {}]
      /\ missing' = FALSE
      /\ theirs' = IF missing THEN theirs \ Of(write.scope, Fields) ELSE theirs
      /\ UNCHANGED <<memory, loadError, sets, edits, faults, wanted, excused>>
  BY <1>2 DEF Write, MarksAfter
<1>4. /\ write.scope \in SettingsScopes /\ write.fields \in SUBSET Fields
      /\ write.snapshot \in [Fields -> Other..MaxSets]
  BY <1>2 DEF Writes
<1>5. disk[write.scope] \in [state : {"absent", "json", "broken"}, at : [Fields -> Other..MaxSets]]
  BY <1>4 DEF SettingsTypes
<1>6. /\ TextRead(write) \in [Fields -> Other..MaxSets]
      /\ Merged(write, TextRead(write)) \in [Fields -> Other..MaxSets]
  <2>1. TextRead(write) \in [Fields -> Other..MaxSets]
    BY <1>5, SettingsAssumption DEF TextRead, Blank, Unset, Other
  <2> QED
    BY <1>4, <2>1 DEF Merged
<1>7. SettingsTypes'
  <2>1. disk' \in [SettingsScopes -> [state : {"absent", "json", "broken"},
                                      at : [Fields -> Other..MaxSets]]]
    BY <1>3, <1>4, <1>6 DEF SettingsTypes
  <2>2. modified' \in [SettingsScopes -> SUBSET Fields]
    BY <1>3, <1>4 DEF SettingsTypes
  <2> QED
    BY <1>2, <1>3, <2>1, <2>2 DEF SettingsTypes
<1>8. ASSUME NEW s \in SettingsScopes, NEW f \in Fields
      PROVE  OursAt(s, f)' /\ MarkedAt(s, f)' /\ TheirsAt(s, f)' /\ MissingAt(s, f)'
  <2>1. OursAt(s, f) /\ MarkedAt(s, f) /\ TheirsAt(s, f) /\ MissingAt(s, f)
    BY DEF ByField
  <2>2. /\ disk'[s].at[f] = IF Carries(1, s, f) THEN write.snapshot[f]
                            ELSE IF missing /\ s = write.scope THEN Unset ELSE disk[s].at[f]
        /\ f \in modified'[s] <=> s # write.scope /\ f \in modified[s]
        /\ disk'[s].state = "absent" => disk'[s] = disk[s]
        /\ <<s, f>> \in theirs' => <<s, f>> \in theirs /\ ~(missing /\ s = write.scope)
    <3>1. f \in modified'[s] <=> s # write.scope /\ f \in modified[s]
      BY <1>3, <1>4 DEF SettingsTypes
    <3>2. CASE s = write.scope
      <4>1. disk'[s] = [state |-> "json", at |-> Merged(write, TextRead(write))]
        BY <1>3, <1>4, <3>2 DEF SettingsTypes
      <4>2. Carries(1, s, f) <=> f \in write.fields
        BY <1>1, <3>2 DEF Carries
      <4>3. <<s, f>> \in Of(write.scope, Fields)
        BY <3>2 DEF Of
      <4> QED
        BY <1>3, <3>1, <3>2, <4>1, <4>2, <4>3 DEF Merged, TextRead, Blank
    <3>3. CASE s # write.scope
      <4>1. disk'[s] = disk[s] /\ ~Carries(1, s, f)
        BY <1>1, <1>3, <1>4, <3>3 DEF SettingsTypes, Carries
      <4> QED
        BY <1>3, <3>1, <3>3, <4>1
    <3> QED
      BY <3>2, <3>3
  <2>3. /\ LastWriteIsWanted(s, f) => LastWriteIsWanted(s, f)'
        /\ MarkIsCarried(s, f) => MarkIsCarried(s, f)'
        /\ \A i \in 1..Len(writeQueue') : Carries(i, s, f)' => Carries(i + 1, s, f)
        /\ \A i \in 2..Len(writeQueue) : Carries(i, s, f) => Carries(i - 1, s, f)'
    BY <1>2, <1>3, <2>2, TailKeeps
  <2>4. /\ Len(writeQueue') = Len(writeQueue) - 1
        /\ \A i \in 2..Len(writeQueue) : i - 1 \in 1..Len(writeQueue') /\ writeQueue'[i - 1] = writeQueue[i]
        /\ \A i \in 1..Len(writeQueue') : i + 1 \in 1..Len(writeQueue)
    BY <1>2, TailOfWrites
  <2>5. ASSUME NEW i \in 1..Len(writeQueue), Carries(i, s, f),
               writeQueue[i].snapshot[f] = wanted[s][f]
        PROVE  OursAt(s, f)'
    <3>1. CASE i = 1
      BY <1>1, <1>3, <2>2, <2>5, <3>1 DEF OursAt, UnderWay
    <3>2. CASE i # 1
      <4>1. i \in 2..Len(writeQueue)
        BY <1>2, <3>2
      <4> QED
        BY <1>3, <2>3, <2>4, <2>5, <4>1 DEF OursAt, UnderWay
    <3> QED
      BY <3>1, <3>2
  <2>6. ASSUME NEW i \in 1..Len(writeQueue), Carries(i, s, f), <<s, f>> \notin excused
        PROVE  OursAt(s, f)'
    <3>1. PICK j \in i..Len(writeQueue) :
            Carries(j, s, f) /\ writeQueue[j].snapshot[f] = wanted[s][f]
      BY <2>1, <2>6 DEF MarkedAt, LastWriteIsWanted
    <3>2. j \in 1..Len(writeQueue)
      BY <1>2
    <3> QED
      BY <2>5, <3>1, <3>2
  <2>7. OursAt(s, f)'
    <3>1. CASE <<s, f>> \in excused \/ wanted[s][f] = Unset
      BY <1>3, <3>1 DEF OursAt, UnderWay
    <3>2. CASE disk[s].at[f] \in {wanted[s][f], Other} /\ <<s, f>> \notin excused
               /\ ~(missing /\ s = write.scope)
      BY <1>2, <1>3, <2>2, <2>6, <3>2 DEF OursAt, UnderWay
    <3>3. CASE f \in modified[s] /\ <<s, f>> \notin excused
      <4>1. CASE s # write.scope
        BY <2>2, <3>3, <4>1 DEF OursAt, UnderWay
      <4>2. CASE s = write.scope
        <5>1. PICK j \in 1..Len(writeQueue) : Carries(j, s, f)
          BY <1>1, <1>2, <2>1, <3>3, <4>2 DEF MarkedAt, MarkIsCarried
        <5> QED
          BY <2>6, <3>3, <5>1
      <4> QED
        BY <4>1, <4>2
    <3>4. CASE missing /\ s = write.scope
      BY <1>1, <2>1, <2>5, <3>1, <3>3, <3>4 DEF MissingAt, UnderWay
    <3> QED
      BY <2>1, <2>5, <3>1, <3>2, <3>3, <3>4 DEF OursAt, UnderWay
  <2>8. MarkedAt(s, f)'
    BY <1>3, <2>1, <2>2, <2>3 DEF MarkedAt
  <2>9. TheirsAt(s, f)'
    BY <1>2, <1>3, <2>1, <2>2, <2>3, <2>4 DEF TheirsAt
  <2>10. MissingAt(s, f)'
    BY <1>3, <2>1, <2>2 DEF MissingAt
  <2> QED
    BY <2>7, <2>8, <2>9, <2>10
<1> QED
  BY <1>7, <1>8 DEF ByField

\* A write that fails, whether it leaves the file as it was or empty: a field it
\* carried is still marked, or excused.
LEMMA FailedWriteStep ==
  ASSUME SettingsTypes, ByField, WriteFails \/ WriteTruncates
  PROVE  SettingsTypes' /\ ByField'
<1>1. PICK write : write = writeQueue[1]
  OBVIOUS
<1>2. /\ writeQueue # <<>> /\ writeQueue' = Tail(writeQueue)
      /\ Head(writeQueue) = write /\ write \in Writes
      /\ Len(writeQueue) \in Nat \ {0} /\ 1 \in 1..Len(writeQueue)
      /\ writeQueue' \in Seq(Writes)
      /\ \A i \in 1..Len(writeQueue') : writeQueue'[i].fields # {}
  <2>1. writeQueue # <<>> /\ writeQueue' = Tail(writeQueue)
    BY DEF WriteFails, WriteTruncates
  <2>2. /\ writeQueue' \in Seq(Writes) /\ writeQueue[1] \in Writes
        /\ Len(writeQueue) \in Nat \ {0}
        /\ Head(writeQueue) = writeQueue[1]
        /\ \A i \in 1..Len(writeQueue') : writeQueue'[i].fields # {}
    BY <2>1, TailOfWrites
  <2> QED
    BY <1>1, <2>1, <2>2
<1>3. /\ faults' \in 0..MaxFaults /\ missing' = FALSE
      /\ UNCHANGED <<modified, memory, loadError, sets, edits, wanted>>
  <2>1. missing' = FALSE /\ UNCHANGED <<modified, memory, loadError, sets, edits, wanted>>
    BY DEF WriteFails, WriteTruncates, MarksAfter
  <2>2. faults' = faults \/ (faults < MaxFaults /\ faults' = faults + 1)
    BY DEF WriteFails, WriteTruncates
  <2>3. faults \in 0..MaxFaults
    BY DEF SettingsTypes
  <2> QED
    BY <2>1, <2>2, <2>3, SettingsAssumption
<1>4. write.scope \in SettingsScopes /\ write.fields \in SUBSET Fields
  BY <1>2 DEF Writes
<1>5. \/ /\ disk' = disk /\ theirs' = theirs
         /\ excused' = excused \cup Of(write.scope, write.fields \ modified[write.scope])
      \/ /\ disk' = [disk EXCEPT ![write.scope] = [state |-> "json", at |-> Blank]]
         /\ theirs' = theirs \ Of(write.scope, Fields)
         /\ excused' = excused \cup Of(write.scope, Fields \ modified[write.scope])
  BY <1>2 DEF WriteFails, WriteTruncates
<1>6. SettingsTypes'
  <2>1. Blank \in [Fields -> Other..MaxSets]
    BY SettingsAssumption DEF Blank, Unset, Other
  <2>2. disk' \in [SettingsScopes -> [state : {"absent", "json", "broken"},
                                      at : [Fields -> Other..MaxSets]]]
    <3>1. [state |-> "json", at |-> Blank] \in
            [state : {"absent", "json", "broken"}, at : [Fields -> Other..MaxSets]]
      BY <2>1
    <3> QED
      BY <1>4, <1>5, <3>1 DEF SettingsTypes
  <2>3. theirs' \subseteq SettingsScopes \X Fields
    BY <1>5 DEF SettingsTypes
  <2> QED
    BY <1>2, <1>3, <2>2, <2>3 DEF SettingsTypes
<1>7. ASSUME NEW s \in SettingsScopes, NEW f \in Fields
      PROVE  OursAt(s, f)' /\ MarkedAt(s, f)' /\ TheirsAt(s, f)' /\ MissingAt(s, f)'
  <2>1. OursAt(s, f) /\ MarkedAt(s, f) /\ TheirsAt(s, f) /\ MissingAt(s, f)
    BY DEF ByField
  <2>2. /\ <<s, f>> \in excused => <<s, f>> \in excused'
        /\ <<s, f>> \in theirs' => <<s, f>> \in theirs
        /\ Carries(1, s, f) => f \in modified[s] \/ <<s, f>> \in excused'
        /\ disk'[s].at[f] # disk[s].at[f] =>
             (f \in modified[s] \/ <<s, f>> \in excused') /\ <<s, f>> \notin theirs'
        /\ disk'[s].state = "absent" => disk'[s] = disk[s]
    <3>1. Carries(1, s, f) <=> s = write.scope /\ f \in write.fields
      BY <1>1 DEF Carries
    <3>2. \/ disk'[s] = disk[s]
          \/ /\ s = write.scope /\ theirs' = theirs \ Of(write.scope, Fields)
             /\ excused' = excused \cup Of(write.scope, Fields \ modified[write.scope])
      BY <1>4, <1>5 DEF SettingsTypes
    <3>6. disk'[s].state = "absent" => disk'[s] = disk[s]
      BY <1>4, <1>5 DEF SettingsTypes
    <3>3. <<s, f>> \in Of(write.scope, Fields) <=> s = write.scope
      BY DEF Of
    <3>4. s = write.scope => (<<s, f>> \in Of(write.scope, Fields \ modified[write.scope]) <=> f \notin modified[s])
      BY DEF Of
    <3>5. s = write.scope => (<<s, f>> \in Of(write.scope, write.fields \ modified[write.scope])
                               <=> f \in write.fields /\ f \notin modified[s])
      BY DEF Of
    <3> QED
      BY <1>5, <3>1, <3>2, <3>3, <3>4, <3>5, <3>6
  <2>3. /\ LastWriteIsWanted(s, f) => LastWriteIsWanted(s, f)'
        /\ MarkIsCarried(s, f) => MarkIsCarried(s, f)'
        /\ \A i \in 1..Len(writeQueue') : Carries(i, s, f)' => Carries(i + 1, s, f)
        /\ \A i \in 2..Len(writeQueue) : Carries(i, s, f) => Carries(i - 1, s, f)'
    BY <1>2, <1>3, TailKeeps
  <2>4. /\ Len(writeQueue') = Len(writeQueue) - 1
        /\ \A i \in 2..Len(writeQueue) : i - 1 \in 1..Len(writeQueue') /\ writeQueue'[i - 1] = writeQueue[i]
        /\ \A i \in 1..Len(writeQueue') : i + 1 \in 1..Len(writeQueue)
    BY <1>2, TailOfWrites
  <2>5. ASSUME NEW i \in 1..Len(writeQueue), Carries(i, s, f),
               writeQueue[i].snapshot[f] = wanted[s][f]
        PROVE  OursAt(s, f)'
    <3>1. CASE i = 1
      BY <1>3, <2>2, <2>5, <3>1 DEF OursAt, UnderWay
    <3>2. CASE i # 1
      <4>1. i \in 2..Len(writeQueue)
        BY <1>2, <3>2
      <4> QED
        BY <1>3, <2>3, <2>4, <2>5, <4>1 DEF OursAt, UnderWay
    <3> QED
      BY <3>1, <3>2
  <2>6. OursAt(s, f)'
    BY <1>3, <2>1, <2>2, <2>5 DEF OursAt, UnderWay
  <2>7. MarkedAt(s, f)'
    BY <1>3, <2>1, <2>2, <2>3 DEF MarkedAt
  <2>8. TheirsAt(s, f)'
    BY <1>2, <1>3, <2>1, <2>2, <2>3, <2>4 DEF TheirsAt
  <2>9. MissingAt(s, f)'
    BY <1>3, <2>1, <2>2 DEF MissingAt
  <2> QED
    BY <2>6, <2>7, <2>8, <2>9
<1> QED
  BY <1>6, <1>7 DEF ByField

\* reload(): what was marked is excused, what waits is still written.
LEMMA ReloadStep ==
  ASSUME SettingsTypes, ByField, Reload
  PROVE  SettingsTypes' /\ ByField'
<1>1. PICK locked \in SUBSET SettingsScopes :
        LET fails == {s \in SettingsScopes : disk[s].state = "broken"} \cup locked
        IN  /\ missing = FALSE
            /\ faults + Cardinality(locked) <= MaxFaults
            /\ faults' = faults + Cardinality(locked)
            /\ memory' = [s \in SettingsScopes |-> IF s \in fails THEN memory[s] ELSE disk[s].at]
            /\ loadError' = [s \in SettingsScopes |-> s \in fails]
            /\ modified' = [s \in SettingsScopes |-> {}]
            /\ excused' = excused \cup UNION {Of(s, modified[s]) : s \in SettingsScopes}
            /\ UNCHANGED <<disk, writeQueue, missing, sets, edits, wanted, theirs>>
  BY DEF Reload
<1>2. SettingsTypes'
  <2>1. faults' \in 0..MaxFaults
    <3>1. IsFiniteSet(locked)
      <4>1. IsFiniteSet(SettingsScopes)
        <5>1. IsFiniteSet({"global"})
          BY FS_Singleton
        <5>2. SettingsScopes = {"global"} \cup {"project"}
          BY DEF SettingsScopes
        <5> QED
          BY <5>1, <5>2, FS_AddElement
      <4> QED
        BY <4>1, FS_Subset
    <3>2. Cardinality(locked) \in Nat
      BY <3>1, FS_CardinalityType
    <3> QED
      BY <1>1, <3>2, SettingsAssumption DEF SettingsTypes
  <2>2. memory' \in [SettingsScopes -> [Fields -> Other..MaxSets]]
    BY <1>1 DEF SettingsTypes
  <2>3. modified' \in [SettingsScopes -> SUBSET Fields] /\ loadError' \in [SettingsScopes -> BOOLEAN]
    BY <1>1
  <2> QED
    BY <1>1, <2>1, <2>2, <2>3 DEF SettingsTypes
<1>3. ASSUME NEW s \in SettingsScopes, NEW f \in Fields
      PROVE  OursAt(s, f)' /\ MarkedAt(s, f)' /\ TheirsAt(s, f)' /\ MissingAt(s, f)'
  <2>1. OursAt(s, f) /\ MarkedAt(s, f) /\ TheirsAt(s, f) /\ MissingAt(s, f)
    BY DEF ByField
  <2>2. /\ f \notin modified'[s]
        /\ <<s, f>> \in excused => <<s, f>> \in excused'
        /\ f \in modified[s] => <<s, f>> \in excused'
        /\ missing = FALSE /\ UNCHANGED <<disk, writeQueue, missing, wanted, theirs>>
    BY <1>1 DEF Of
  <2>3. \A i : Carries(i, s, f)' <=> Carries(i, s, f)
    BY <2>2 DEF Carries
  <2> QED
    BY <2>1, <2>2, <2>3 DEF OursAt, UnderWay, MarkedAt, TheirsAt, MissingAt, LastWriteIsWanted, MarkIsCarried
<1> QED
  BY <1>2, <1>3 DEF ByField

\* Another process changes a field: it is theirs unless a change of ours is
\* under way.
LEMMA OtherChangesStep ==
  ASSUME SettingsTypes, ByField, NEW scope \in SettingsScopes, NEW field \in Fields,
         OtherChanges(scope, field)
  PROVE  SettingsTypes' /\ ByField'
<1>1. /\ edits < MaxEdits /\ edits' = edits + 1
      /\ disk' = [disk EXCEPT ![scope] =
                    [state |-> "json", at |-> [disk[scope].at EXCEPT ![field] = Other]]]
      /\ theirs' = theirs \cup
           (IF field \in modified[scope] \/ \E i \in 1..Len(writeQueue) : Carries(i, scope, field)
            THEN {} ELSE {<<scope, field>>})
      /\ UNCHANGED <<memory, modified, loadError, writeQueue, missing, sets, faults, wanted, excused>>
  BY DEF OtherChanges, Carries
<1>2. Other \in Other..MaxSets
  BY SettingsAssumption DEF Other
<1>3. disk[scope].at \in [Fields -> Other..MaxSets]
  BY DEF SettingsTypes
<1>4. SettingsTypes'
  <2>1. disk' \in [SettingsScopes -> [state : {"absent", "json", "broken"},
                                      at : [Fields -> Other..MaxSets]]]
    BY <1>1, <1>2, <1>3 DEF SettingsTypes
  <2>2. edits' \in 0..MaxEdits
    BY <1>1, SettingsAssumption DEF SettingsTypes
  <2>3. theirs' \subseteq SettingsScopes \X Fields
    BY <1>1 DEF SettingsTypes
  <2> QED
    BY <1>1, <2>1, <2>2, <2>3 DEF SettingsTypes
<1>5. ASSUME NEW s \in SettingsScopes, NEW f \in Fields
      PROVE  OursAt(s, f)' /\ MarkedAt(s, f)' /\ TheirsAt(s, f)' /\ MissingAt(s, f)'
  <2>1. OursAt(s, f) /\ MarkedAt(s, f) /\ TheirsAt(s, f) /\ MissingAt(s, f)
    BY DEF ByField
  <2>2. disk'[s].at[f] = disk[s].at[f] \/ disk'[s].at[f] = Other
    BY <1>1, <1>3 DEF SettingsTypes
  <2>3. \A i : Carries(i, s, f)' <=> Carries(i, s, f)
    BY <1>1 DEF Carries
  <2>4. OursAt(s, f)'
    BY <1>1, <2>1, <2>2, <2>3 DEF OursAt, UnderWay
  <2>5. MarkedAt(s, f)'
    BY <1>1, <2>1, <2>3 DEF MarkedAt, LastWriteIsWanted, MarkIsCarried
  <2>6. TheirsAt(s, f)'
    <3>1. CASE <<s, f>> \in theirs
      BY <1>1, <2>1, <2>2, <2>3, <3>1 DEF TheirsAt
    <3>2. CASE <<s, f>> \notin theirs
      <4> SUFFICES ASSUME <<s, f>> \in theirs' PROVE TheirsAt(s, f)'
        BY DEF TheirsAt
      <4>1. /\ s = scope /\ f = field
            /\ ~(field \in modified[scope] \/ \E i \in 1..Len(writeQueue) : Carries(i, scope, field))
        BY <1>1, <3>2
      <4>2. disk'[s].at[f] = Other
        BY <1>1, <1>3, <4>1 DEF SettingsTypes
      <4> QED
        BY <1>1, <2>3, <4>1, <4>2 DEF TheirsAt
    <3> QED
      BY <3>1, <3>2
  <2>7. MissingAt(s, f)'
    <3>1. disk'[s].state = "absent" => disk'[s] = disk[s]
      BY <1>1 DEF SettingsTypes
    <3>2. UnderWay(s, f) => UnderWay(s, f)'
      BY <1>1, <2>3 DEF UnderWay
    <3> QED
      BY <1>1, <2>1, <3>1, <3>2 DEF MissingAt
  <2> QED
    BY <2>4, <2>5, <2>6, <2>7
<1> QED
  BY <1>4, <1>5 DEF ByField

\* What leaves every field as it is: a file is broken or mended.
LEMMA SameFieldsStep ==
  ASSUME SettingsTypes, ByField,
         UNCHANGED settingsVars \/ \E s \in SettingsScopes : OtherBreaks(s) \/ OtherMends(s)
  PROVE  SettingsTypes' /\ ByField'
<1>1. /\ UNCHANGED <<memory, modified, loadError, writeQueue, missing, sets, faults, wanted, excused, theirs>>
      /\ edits' = edits \/ (edits < MaxEdits /\ edits' = edits + 1)
      /\ \/ disk' = disk
         \/ \E s \in SettingsScopes : \E state \in {"json", "broken"} :
              disk' = [disk EXCEPT ![s].state = state]
  <2>1. CASE UNCHANGED settingsVars
    BY <2>1 DEF settingsVars
  <2>2. ASSUME NEW s \in SettingsScopes, OtherBreaks(s) \/ OtherMends(s)
        PROVE  <1>1!1 /\ <1>1!2 /\ <1>1!3
    BY <2>2 DEF OtherBreaks, OtherMends
  <2> QED
    BY <2>1, <2>2
<1>2. disk' \in [SettingsScopes -> [state : {"absent", "json", "broken"},
                                    at : [Fields -> Other..MaxSets]]]
      /\ \A s \in SettingsScopes : /\ disk'[s].at = disk[s].at
                                   /\ disk'[s].state = "absent" => disk[s].state = "absent"
  <2>1. CASE disk' = disk
    BY <2>1 DEF SettingsTypes
  <2>2. ASSUME NEW r \in SettingsScopes, NEW state \in {"json", "broken"},
               disk' = [disk EXCEPT ![r].state = state]
        PROVE  <1>2!1 /\ <1>2!2
    <3>1. /\ \A s \in SettingsScopes \ {r} : disk'[s] = disk[s]
          /\ disk'[r].at = disk[r].at /\ disk'[r].state # "absent"
      BY <2>2 DEF SettingsTypes
    <3>2. <1>2!1
      BY <2>2 DEF SettingsTypes
    <3> QED
      BY <3>1, <3>2
  <2> QED
    BY <1>1, <2>1, <2>2
<1>3. edits' \in 0..MaxEdits
  BY <1>1, SettingsAssumption DEF SettingsTypes
<1>4. SettingsTypes'
  BY <1>1, <1>2, <1>3 DEF SettingsTypes
<1>5. ByField'
  <2>1. \A i, s, f : Carries(i, s, f)' <=> Carries(i, s, f)
    BY <1>1 DEF Carries
  <2> QED
    <3> SUFFICES ASSUME NEW s \in SettingsScopes, NEW f \in Fields
                 PROVE  OursAt(s, f)' /\ MarkedAt(s, f)' /\ TheirsAt(s, f)' /\ MissingAt(s, f)'
      BY DEF ByField
    <3>1. OursAt(s, f) /\ MarkedAt(s, f) /\ TheirsAt(s, f) /\ MissingAt(s, f)
      BY DEF ByField
    <3>2. disk'[s].at = disk[s].at /\ (disk'[s].state = "absent" => disk[s].state = "absent")
      BY <1>2
    <3>3. UnderWay(s, f) => UnderWay(s, f)'
      BY <1>1, <2>1 DEF UnderWay
    <3> QED
      BY <1>1, <2>1, <3>1, <3>2, <3>3
      DEF OursAt, UnderWay, MarkedAt, TheirsAt, MissingAt, LastWriteIsWanted, MarkIsCarried
<1> QED
  BY <1>4, <1>5

\* A write that finds no file: what the file says is nothing, so that every
\* change of the user is under way.
LEMMA LooksStep ==
  ASSUME SettingsTypes, ByField, LooksForFile
  PROVE  SettingsTypes' /\ ByField'
<1>1. /\ missing' = TRUE /\ disk[writeQueue[1].scope].state = "absent"
      /\ UNCHANGED <<disk, memory, modified, loadError, writeQueue, sets, edits, faults, wanted,
                     excused, theirs>>
  <2>1. Head(writeQueue) = writeQueue[1]
    BY HeadTailProperties DEF LooksForFile, SettingsTypes
  <2> QED
    BY <2>1 DEF LooksForFile
<1>2. SettingsTypes'
  BY <1>1 DEF SettingsTypes
<1>3. ASSUME NEW s \in SettingsScopes, NEW f \in Fields
      PROVE  OursAt(s, f)' /\ MarkedAt(s, f)' /\ TheirsAt(s, f)' /\ MissingAt(s, f)'
  <2>1. OursAt(s, f) /\ MarkedAt(s, f) /\ TheirsAt(s, f) /\ MissingAt(s, f)
    BY DEF ByField
  <2>2. \A i : Carries(i, s, f)' <=> Carries(i, s, f)
    BY <1>1 DEF Carries
  <2>3. OursAt(s, f)' /\ MarkedAt(s, f)' /\ TheirsAt(s, f)'
    BY <1>1, <2>1, <2>2 DEF OursAt, UnderWay, MarkedAt, TheirsAt, LastWriteIsWanted, MarkIsCarried
  <2>4. CASE s = writeQueue[1].scope
    <3>1. disk[s].at[f] = Unset
      BY <1>1, <2>1, <2>4 DEF MissingAt
    <3>2. disk[s].at[f] # Other
      BY <3>1 DEF Unset, Other
    <3>3. UnderWay(s, f)
      BY <2>1, <3>1, <3>2 DEF OursAt, UnderWay
    <3>4. UnderWay(s, f)'
      BY <1>1, <2>2, <3>3 DEF UnderWay
    <3> QED
      BY <1>1, <2>1, <2>3, <3>4 DEF MissingAt
  <2>5. CASE s # writeQueue[1].scope
    BY <1>1, <2>1, <2>3, <2>5 DEF MissingAt
  <2> QED
    BY <2>4, <2>5
<1> QED
  BY <1>2, <1>3 DEF ByField

\* Every step keeps the invariant.
LEMMA SettingsNextInv == SettingsInv /\ [SettingsNext]_settingsVars => SettingsInv'
<1> SUFFICES ASSUME SettingsTypes, ByField, [SettingsNext]_settingsVars
             PROVE  SettingsTypes' /\ ByField'
  <2>1. SettingsTypes' /\ ByField' => SettingsInv'
    BY InvByField, PTL
  <2> QED
    BY <2>1, InvByField
<1> QED
  BY SetStep, LooksStep, SettingsWriteStep, FailedWriteStep, ReloadStep, OtherChangesStep, SameFieldsStep DEF SettingsNext

\* Whatever setters, writes, failures, reloads and changes by others come
\* together: a change of the user is in the file, or on its way, or replaced by
\* another process, or lost in one of the ways the module names; and a field
\* that another process changed keeps its value, unless this one had just found
\* that there was no file (settings-manager.ts, withLock, persistScopedSettings,
\* enqueueWrite, reload).
THEOREM ChangesPersistAlways == SettingsSpec => []ChangesPersist
<1>1. SettingsInv => ChangesPersist
  BY DEF SettingsInv
<1> QED
  BY <1>1, SettingsInitInv, SettingsNextInv, PTL DEF SettingsSpec

-----------------------------------------------------------------------------
(* Event files: the queue of a channel *)

\* A sequence over a set is one over a larger set.
LEMMA SeqOfMore ==
  ASSUME NEW A, NEW B, A \subseteq B, NEW q \in Seq(A)
  PROVE  q \in Seq(B)
  OBVIOUS

\* v is one of the works of q.
Waits(q, v) == \E i \in 1..Len(q) : q[i] = v

\* v waits once at most, or was taken once.
SingleIn(q, n, v) ==
  /\ \A i, j \in 1..Len(q) : q[i] = v /\ q[j] = v => i = j
  /\ n <= 1
  /\ n = 1 => ~Waits(q, v)

\* v waits or was taken.
Spent(v) == ran[v] = 1 \/ Waits(queue, v)

\* What OnceAtMost says of the files, of the queue, and of both.
LEMMA OnceByParts ==
  ASSUME NEW v
  PROVE  OnceAtMost(v) <=>
           /\ \A f, g \in EventFiles : Holds(f, v) /\ Holds(g, v) => f = g
           /\ SingleIn(queue, ran[v], v)
           /\ Spent(v) => \A f \in EventFiles : ~Holds(f, v)
  BY DEF OnceAtMost, SingleIn, Spent, Waits

\* The first work of q is taken: it is still executed once at most.
LEMMA TakesHead ==
  ASSUME NEW V, NEW q \in Seq(V), q # <<>>, ran \in Seq(Nat), V \subseteq 1..Len(ran),
         queue' = Tail(q), ran' = [ran EXCEPT ![Head(q)] = @ + 1]
  PROVE  /\ queue' \in Seq(V) /\ ran' \in Seq(Nat) /\ Len(ran') = Len(ran)
         /\ Head(q) \in V
         /\ \A v \in V : SingleIn(q, ran[v], v) =>
              /\ SingleIn(queue', ran'[v], v)
              /\ ran'[v] = 1 \/ Waits(queue', v) => ran[v] = 1 \/ Waits(q, v)
<1>1. /\ Len(q) \in Nat \ {0} /\ queue' \in Seq(V) /\ Len(queue') = Len(q) - 1
      /\ \A i \in 1..Len(queue') : queue'[i] = q[i + 1]
      /\ Head(q) = q[1] /\ q[1] \in V
  BY HeadTailProperties, ElementOfSeq
<1>2. /\ \A i \in 1..Len(queue') : i + 1 \in 1..Len(q) /\ i + 1 # 1
      /\ \A i, j \in 1..Len(queue') : i + 1 = j + 1 => i = j
      /\ 1 \in 1..Len(q)
  BY <1>1
<1>3. /\ ran' \in Seq(Nat) /\ Len(ran') = Len(ran)
      /\ \A v \in V : ran[v] \in Nat /\ ran'[v] = IF v = q[1] THEN ran[v] + 1 ELSE ran[v]
  <2>1. q[1] \in 1..Len(ran) /\ \A v \in V : v \in 1..Len(ran)
    BY <1>1
  <2>2. \A i \in 1..Len(ran) : ran[i] \in Nat
    BY ElementOfSeq
  <2>3. ran' = [ran EXCEPT ![q[1]] = ran[q[1]] + 1] /\ ran[q[1]] + 1 \in Nat
    BY <1>1, <2>1, <2>2
  <2> QED
    BY <2>1, <2>2, <2>3, ExceptSeq
<1>4. ASSUME NEW v \in V, SingleIn(q, ran[v], v)
      PROVE  /\ SingleIn(queue', ran'[v], v)
             /\ ran'[v] = 1 \/ Waits(queue', v) => ran[v] = 1 \/ Waits(q, v)
  <2>1. \A i \in 1..Len(queue') : queue'[i] = v => q[i + 1] = v /\ i + 1 \in 1..Len(q)
    BY <1>1, <1>2
  <2>2. Waits(queue', v) => Waits(q, v) /\ q[1] # v
    BY <1>2, <1>4, <2>1 DEF Waits, SingleIn
  <2>3. q[1] = v => Waits(q, v)
    BY <1>2 DEF Waits
  <2>4. \A i, j \in 1..Len(queue') : queue'[i] = v /\ queue'[j] = v => i = j
    BY <1>2, <1>4, <2>1 DEF SingleIn
  <2>5. ran'[v] <= 1 /\ (ran'[v] = 1 => ran[v] = 1 \/ q[1] = v)
    BY <1>3, <1>4, <2>3 DEF SingleIn
  <2>6. ran'[v] = 1 => ~Waits(queue', v)
    BY <1>4, <2>2, <2>5 DEF SingleIn
  <2> QED
    BY <2>2, <2>3, <2>4, <2>5, <2>6 DEF SingleIn
<1> QED
  BY <1>1, <1>3, <1>4

\* The part of the shape that is about the queue.
QueueShape ==
  /\ queue \in Seq(1..Len(versions)) /\ running \subseteq 1..Len(versions)
  /\ ran \in Seq(Nat) /\ Len(ran) = Len(versions)
  /\ Cardinality(running) <= 1
  /\ IsFiniteSet(running)

\* A set of one work.
LEMMA OneRuns ==
  ASSUME NEW v
  PROVE  IsFiniteSet({v}) /\ Cardinality({v}) <= 1
<1>1. IsFiniteSet({v}) /\ Cardinality({v}) = 1
  BY FS_Singleton
<1> QED
  BY <1>1

\* enqueueEvent(): the work x is taken, waits or is discarded.
LEMMA EnqueueStep ==
  ASSUME QueueShape, NEW x \in 1..Len(versions), Enqueue(x), Len(versions') = Len(versions)
  PROVE  /\ QueueShape'
         /\ \A v \in 1..Len(versions) :
              SingleIn(queue, ran[v], v) /\ (v = x => ~Spent(v)) =>
                SingleIn(queue', ran'[v], v) /\ (Spent(v)' => Spent(v) \/ v = x)
<1> DEFINE V == 1..Len(versions)
<1>1. PICK works : works = Append(queue, x)
  OBVIOUS
<1>2. /\ works \in Seq(V) /\ works # <<>> /\ Len(works) = Len(queue) + 1 /\ Len(queue) \in Nat
      /\ \A i \in 1..Len(queue) : works[i] = queue[i]
      /\ works[Len(queue) + 1] = x
  <2>1. queue \in Seq(V)
    BY DEF QueueShape
  <2> HIDE DEF V
  <2>2. x \in V
    BY DEF V
  <2> QED
    BY <1>1, <2>1, <2>2, AppendProperties
<1>3. /\ \A i \in 1..Len(works) : i \in 1..Len(queue) \/ i = Len(queue) + 1
      /\ \A i \in 1..Len(queue) : i \in 1..Len(works)
      /\ Len(queue) + 1 \in 1..Len(works)
  BY <1>2
<1>4. ASSUME NEW v \in V, SingleIn(queue, ran[v], v), v = x => ~Spent(v)
      PROVE  SingleIn(works, ran[v], v) /\ (Waits(works, v) => Waits(queue, v) \/ v = x)
  <2>1. Waits(works, v) => Waits(queue, v) \/ v = x
    BY <1>2, <1>3 DEF Waits
  <2>2. \A i, j \in 1..Len(works) : works[i] = v /\ works[j] = v => i = j
    <3> SUFFICES ASSUME NEW i \in 1..Len(works), NEW j \in 1..Len(works), works[i] = v, works[j] = v
                 PROVE  i = j
      OBVIOUS
    <3>1. CASE v = x
      <4>1. \A k \in 1..Len(queue) : queue[k] # v
        BY <1>4, <3>1 DEF Spent, Waits
      <4> QED
        BY <1>2, <1>3, <4>1
    <3>2. CASE v # x
      BY <1>2, <1>3, <1>4, <3>2 DEF SingleIn
    <3> QED
      BY <3>1, <3>2
  <2> QED
    BY <1>4, <2>1, <2>2 DEF SingleIn, Spent
<1>5. CASE UNCHANGED <<queue, running, ran>>
  BY <1>5 DEF QueueShape, Spent, Waits
<1>6. CASE Starts(works) /\ running' = running \cup {Head(works)} /\ queue' = Tail(works)
           /\ ran' = [ran EXCEPT ![Head(works)] = @ + 1]
  <2>1. ran \in Seq(Nat) /\ V \subseteq 1..Len(ran)
    BY DEF QueueShape
  <2>2. /\ queue' \in Seq(V) /\ ran' \in Seq(Nat) /\ Len(ran') = Len(ran)
        /\ Head(works) \in V
        /\ \A v \in V : SingleIn(works, ran[v], v) =>
             /\ SingleIn(queue', ran'[v], v)
             /\ ran'[v] = 1 \/ Waits(queue', v) => ran[v] = 1 \/ Waits(works, v)
    <3> HIDE DEF V
    <3> QED
      BY <1>2, <1>6, <2>1, TakesHead
  <2>3. running = {} /\ running' = {Head(works)}
    BY <1>6 DEF Starts
  <2>4. QueueShape'
    BY <2>1, <2>2, <2>3, OneRuns DEF QueueShape
  <2> QED
    BY <1>4, <2>2, <2>4 DEF Spent
<1>7. CASE queue' = works /\ UNCHANGED <<running, ran>>
  <2>1. QueueShape'
    BY <1>2, <1>7 DEF QueueShape
  <2> QED
    BY <1>4, <1>7, <2>1 DEF Spent
<1> QED
  BY <1>1, <1>5, <1>6, <1>7 DEF Enqueue

\* processNext() after a work that returned or threw.
LEMMA WorkEndsStep ==
  ASSUME QueueShape, NEW version \in running, WorkEnds(version)
  PROVE  /\ QueueShape'
         /\ \A v \in 1..Len(versions) : SingleIn(queue, ran[v], v) =>
              SingleIn(queue', ran'[v], v) /\ (Spent(v)' => Spent(v))
<1> DEFINE V == 1..Len(versions)
<1>1. versions' = versions
  BY DEF WorkEnds
<1>2. running \ {version} = {}
  <2>1. running = {} \/ \E w : running = {w}
    <3>1. Cardinality(running) = 0 \/ Cardinality(running) = 1
      BY FS_CardinalityType DEF QueueShape
    <3>2. Cardinality(running) = 0 => running = {}
      BY FS_EmptySet DEF QueueShape
    <3> QED
      BY <3>1, <3>2, FS_Singleton DEF QueueShape
  <2> QED
    BY <2>1
<1>3. CASE queue = <<>>
  <2>1. running' = {} /\ UNCHANGED <<queue, ran>>
    BY <1>2, <1>3 DEF WorkEnds
  <2>2. IsFiniteSet({}) /\ Cardinality({}) <= 1
    BY FS_EmptySet
  <2>3. QueueShape'
    BY <1>1, <2>1, <2>2 DEF QueueShape
  <2> QED
    BY <2>1, <2>3 DEF Spent, Waits
<1>4. CASE queue # <<>>
  <2>1. /\ running' = {Head(queue)} /\ queue' = Tail(queue)
        /\ ran' = [ran EXCEPT ![Head(queue)] = @ + 1]
    BY <1>2, <1>4 DEF WorkEnds
  <2>2. ran \in Seq(Nat) /\ V \subseteq 1..Len(ran) /\ queue \in Seq(V)
    BY DEF QueueShape
  <2>3. /\ queue' \in Seq(V) /\ ran' \in Seq(Nat) /\ Len(ran') = Len(ran)
        /\ Head(queue) \in V
        /\ \A v \in V : SingleIn(queue, ran[v], v) =>
             /\ SingleIn(queue', ran'[v], v)
             /\ ran'[v] = 1 \/ Waits(queue', v) => ran[v] = 1 \/ Waits(queue, v)
    <3> HIDE DEF V
    <3> QED
      BY <1>4, <2>1, <2>2, TakesHead
  <2>4. QueueShape'
    BY <1>1, <2>1, <2>3, OneRuns DEF QueueShape
  <2> QED
    BY <2>3, <2>4 DEF Spent
<1> QED
  BY <1>3, <1>4

-----------------------------------------------------------------------------
(* Event files: the parts of the invariant *)

FileShape ==
  /\ versions \in Seq([kind : EventKinds \cup {"partial"}, stale : BOOLEAN])
  /\ content \in [EventFiles -> 0..Len(versions)]
  /\ notified \subseteq EventFiles /\ debouncing \subseteq EventFiles
  /\ watching \in BOOLEAN
  /\ stuck \subseteq 1..Len(versions)

ReadShape ==
  \A r \in reads :
    /\ r = [file |-> r.file, call |-> r.call, try |-> r.try, phase |-> r.phase,
            version |-> r.version]
    /\ r.file \in EventFiles /\ r.version \in 0..Len(versions)

TimerShape ==
  /\ timers \in [EventFiles -> [oneShot : Nat, periodic : Nat]]
  /\ nextTimer \in Nat \ {0}
  /\ live \subseteq [number : 1..(nextTimer - 1), file : EventFiles, version : 1..Len(versions)]

AllCalm == \A f \in EventFiles \ raced : Calm(f)

AllOnce ==
  raced = {} => \A v \in 1..Len(versions) \ stuck :
    versions[v].kind \in {"immediate", "oneShot"} => OnceAtMost(v)

\* The invariant is the conjunction of its parts; what runs is finite.
LEMMA EventsInvByParts ==
  EventsInv <=> /\ FileShape /\ ReadShape /\ TimerShape /\ QueueShape
                /\ TimersAreTold /\ AllCalm /\ AllOnce
<1>1. ASSUME versions \in Seq([kind : EventKinds \cup {"partial"}, stale : BOOLEAN]),
             running \subseteq 1..Len(versions)
      PROVE  IsFiniteSet(running)
  <2>1. Len(versions) \in Nat
    BY <1>1, LenProperties
  <2>2. IsFiniteSet(1..Len(versions))
    BY <2>1, FS_Interval
  <2> QED
    BY <1>1, <2>2, FS_Subset
<1> QED
  BY <1>1 DEF EventsInv, EventsShape, FileShape, ReadShape, TimerShape, QueueShape, AllCalm,
              AllOnce

-----------------------------------------------------------------------------
(* Event files: what a step leaves alone *)

\* Nothing of f changes that Calm(f) speaks of.
SameFor(f) ==
  /\ {r \in reads : r.file = f}' = {r \in reads : r.file = f}
  /\ LiveOf(f)' = LiveOf(f)
  /\ watching' = watching
  /\ f \in known => f \in known'
  /\ timers'[f] = timers[f]
  /\ content'[f] = content[f]
  /\ stuck \subseteq stuck'
  /\ f \in notified' \cup debouncing' <=> f \in notified \cup debouncing
  /\ \A t \in LiveOf(f) : versions'[t.version] = versions[t.version]

\* A calm file that a step leaves alone stays calm.
LEMMA CalmKept ==
  ASSUME NEW f, SameFor(f), Calm(f)
  PROVE  Calm(f)'
<1>1. \A r : r \in reads' /\ r.file = f <=> r \in reads /\ r.file = f
  BY DEF SameFor
<1>2. \A t : t \in LiveOf(f)' <=> t \in LiveOf(f)
  BY DEF SameFor
<1>3. Reading(f)' <=> Reading(f)
  BY <1>1 DEF Reading
<1>4. (\A r, q \in reads : r.file = f /\ q.file = f => r = q)'
  BY <1>1 DEF Calm
<1>5. (\A t, u \in LiveOf(f) : t = u)'
  BY <1>2 DEF Calm
<1>6. (\A t \in LiveOf(f) : /\ watching /\ f \in known /\ ~Reading(f)
                            /\ t.number = timers[f][versions[t.version].kind])'
  BY <1>2, <1>3 DEF Calm, SameFor
<1>7. (~watching => ~Reading(f) /\ f \notin notified \cup debouncing)'
  BY <1>3 DEF Calm, SameFor
<1>8. (watching /\ f \notin notified \cup debouncing =>
         /\ \A r \in reads : r.file = f /\ r.phase = "read" => r.version = content[f]
         /\ \A t \in LiveOf(f) : t.version = content[f]
         /\ ~Reading(f) /\ content[f] \notin stuck \cup {Absent} => LiveOf(f) # {})'
  BY <1>1, <1>2, <1>3 DEF Calm, SameFor
<1> QED
  BY <1>4, <1>5, <1>6, <1>7, <1>8 DEF Calm

\* A file without a timer, that is not read or only just begun to be, is calm
\* when a change is to be handled or nothing is left of it.
LEMMA CalmWithoutTimer ==
  ASSUME NEW f, LiveOf(f) = {}, \A r, q \in reads : r.file = f /\ q.file = f => r = q,
         watching \/ ~Reading(f), watching \/ f \notin notified \cup debouncing,
         \A r \in reads : r.file = f /\ r.phase = "read" => r.version = content[f],
         Reading(f) \/ content[f] = Absent \/ ~watching
  PROVE  Calm(f)
  BY DEF Calm

\* A calm file that is read has no timer, and one call reads it.
LEMMA CalmWhileRead ==
  ASSUME NEW f, Calm(f), NEW read \in reads, read.file = f
  PROVE  /\ LiveOf(f) = {} /\ watching
         /\ \A r \in reads : r.file = f => r = read
  BY DEF Calm, Reading

\* No version finds a new holder, and the channel is left alone.
LEMMA OnceKept ==
  ASSUME AllOnce, raced' = {} => raced = {}, UNCHANGED <<versions, queue, ran>>,
         stuck \subseteq stuck',
         \A f \in EventFiles, v \in 1..Len(versions) : Holds(f, v)' => Holds(f, v)
  PROVE  AllOnce'
  BY DEF AllOnce, OnceAtMost

\* The same when the work of version x goes to the channel.
LEMMA OnceEnqueued ==
  ASSUME AllOnce, QueueShape, UNCHANGED <<versions, raced>>, stuck \subseteq stuck',
         NEW x \in 1..Len(versions), Enqueue(x),
         \A f \in EventFiles, v \in 1..Len(versions) : Holds(f, v)' => Holds(f, v),
         raced = {} /\ versions[x].kind \in {"immediate", "oneShot"} /\ x \notin stuck' =>
           /\ \E f \in EventFiles : Holds(f, x)
           /\ \A f \in EventFiles : ~Holds(f, x)'
  PROVE  AllOnce' /\ QueueShape'
<1>1. /\ QueueShape'
      /\ \A v \in 1..Len(versions) :
           SingleIn(queue, ran[v], v) /\ (v = x => ~Spent(v)) =>
             SingleIn(queue', ran'[v], v) /\ (Spent(v)' => Spent(v) \/ v = x)
  BY EnqueueStep
<1>2. ASSUME raced = {}, NEW v \in 1..Len(versions) \ stuck',
             versions[v].kind \in {"immediate", "oneShot"}
      PROVE  OnceAtMost(v)'
  <2>1. /\ \A f, g \in EventFiles : Holds(f, v) /\ Holds(g, v) => f = g
        /\ SingleIn(queue, ran[v], v)
        /\ Spent(v) => \A f \in EventFiles : ~Holds(f, v)
    BY <1>2, OnceByParts DEF AllOnce
  <2>2. v = x => ~Spent(v)
    BY <1>2, <2>1
  <2>3. SingleIn(queue', ran'[v], v) /\ (Spent(v)' => Spent(v) \/ v = x)
    BY <1>1, <2>1, <2>2
  <2>4. Spent(v)' => \A f \in EventFiles : ~Holds(f, v)'
    BY <1>2, <2>1, <2>3
  <2>5. \A f, g \in EventFiles : Holds(f, v)' /\ Holds(g, v)' => f = g
    BY <2>1
  <2>6. SingleIn(queue, ran[v], v)'
    BY <2>3 DEF SingleIn, Waits
  <2>7. (/\ \A f, g \in EventFiles : Holds(f, v) /\ Holds(g, v) => f = g
         /\ SingleIn(queue, ran[v], v)
         /\ Spent(v) => \A f \in EventFiles : ~Holds(f, v))'
    BY <2>4, <2>5, <2>6
  <2>8. (OnceAtMost(v) <=>
           /\ \A f, g \in EventFiles : Holds(f, v) /\ Holds(g, v) => f = g
           /\ SingleIn(queue, ran[v], v)
           /\ Spent(v) => \A f \in EventFiles : ~Holds(f, v))'
    BY OnceByParts, PTL
  <2> QED
    BY <2>7, <2>8
<1> QED
  BY <1>1, <1>2 DEF AllOnce

\* No number is tracked or live that was not before.
LEMMA ToldKept ==
  ASSUME TimersAreTold, TimerShape, nextTimer' = nextTimer, live' \subseteq live,
         \A f \in EventFiles : Tracked(f)' \subseteq Tracked(f) \cup {0},
         \A t \in live' : versions'[t.version] = versions[t.version],
         \A r \in reads' : r.phase = "sleeping" => ~IsEvent(r.version)'
  PROVE  TimersAreTold'
<1>1. 0 < nextTimer /\ \A t \in live : t.number # 0
  BY DEF TimerShape
<1>2. \A f \in EventFiles : \A n \in Tracked(f)' : n < nextTimer'
  BY <1>1 DEF TimersAreTold
<1>3. \A t \in live' :
        /\ versions'[t.version].kind \in {"oneShot", "periodic"}
        /\ \A f \in EventFiles : t.number \in Tracked(f)' => t.file = f
  BY <1>1 DEF TimersAreTold
<1> QED
  BY <1>2, <1>3 DEF TimersAreTold

-----------------------------------------------------------------------------
(* Event files: the steps *)

Parts ==
  /\ FileShape /\ ReadShape /\ TimerShape /\ QueueShape
  /\ TimersAreTold /\ AllCalm /\ AllOnce

\* A file is written: its new version has one holder.
LEMMA WriteStep ==
  ASSUME Parts, NEW file \in EventFiles, WriteEvent(file)
  PROVE  Parts'
<1> DEFINE n == Len(versions) + 1
<1>1. PICK kind \in EventKinds \cup {"partial"} :
        versions' = Append(versions, [kind |-> kind, stale |-> FALSE])
  BY DEF WriteEvent
<1>2. /\ versions' \in Seq([kind : EventKinds \cup {"partial"}, stale : BOOLEAN])
      /\ Len(versions') = n /\ Len(versions) \in Nat
      /\ \A v \in 1..Len(versions) : versions'[v] = versions[v]
  <2>1. [kind |-> kind, stale |-> FALSE] \in [kind : EventKinds \cup {"partial"}, stale : BOOLEAN]
    OBVIOUS
  <2> QED
    BY <1>1, <2>1, AppendProperties, LenProperties DEF Parts, FileShape
<1>3. /\ content' = [content EXCEPT ![file] = n]
      /\ ran' = Append(ran, 0)
      /\ notified' = IF watching THEN notified \cup {file} ELSE notified
      /\ UNCHANGED <<debouncing, reads, known, timers, live, nextTimer, watching, queue, running,
                     touches, raced, stuck>>
  BY DEF WriteEvent
<1>4. /\ content' \in [EventFiles -> 0..n] /\ content'[file] = n
      /\ \A f \in EventFiles \ {file} : content'[f] = content[f]
      /\ content \in [EventFiles -> 0..Len(versions)]
      /\ \A v \in 1..Len(versions) : v \in 1..n
      /\ \A v \in 0..Len(versions) : v \in 0..n /\ v # n
      /\ \A v \in 1..n : v = n \/ v \in 1..Len(versions)
      /\ n \in 1..n
  BY <1>2, <1>3 DEF Parts, FileShape
<1>5. /\ ran' \in Seq(Nat) /\ Len(ran') = n /\ ran'[n] = 0
      /\ \A v \in 1..Len(versions) : ran'[v] = ran[v]
  BY <1>2, <1>3, AppendProperties DEF Parts, QueueShape
<1>6. FileShape'
  <2>1. stuck' \subseteq 1..n
    BY <1>3, <1>4 DEF Parts, FileShape
  <2> QED
    BY <1>2, <1>3, <1>4, <2>1 DEF Parts, FileShape
<1>7. ReadShape'
  BY <1>2, <1>3, <1>4 DEF Parts, ReadShape
<1>8. TimerShape'
  BY <1>2, <1>3, <1>4 DEF Parts, TimerShape
<1>9. QueueShape'
  <2>1. queue \in Seq(1..n)
    <3>1. 1..Len(versions) \subseteq 1..n /\ queue \in Seq(1..Len(versions))
      BY <1>4 DEF Parts, QueueShape
    <3> QED
      BY <3>1, SeqOfMore
  <2> QED
    BY <1>2, <1>3, <1>4, <1>5, <2>1 DEF Parts, QueueShape
<1>10. \A t \in live : t.version \in 1..Len(versions)
  BY DEF Parts, TimerShape
<1>11. TimersAreTold'
  <2>1. \A r \in reads : r.version \in 0..Len(versions)
    BY DEF Parts, ReadShape
  <2>2. \A v \in 0..Len(versions) : IsEvent(v)' <=> IsEvent(v)
    BY <1>2 DEF IsEvent, Absent
  <2>3. \A r \in reads' : r.phase = "sleeping" => ~IsEvent(r.version)'
    BY <1>3, <2>1, <2>2 DEF Parts, TimersAreTold
  <2>4. \A f \in EventFiles : Tracked(f)' \subseteq Tracked(f) \cup {0}
    BY <1>3 DEF Tracked
  <2>5. \A t \in live' : versions'[t.version] = versions[t.version]
    BY <1>2, <1>3, <1>10
  <2> QED
    BY <1>3, <2>3, <2>4, <2>5, ToldKept DEF Parts
<1>12. AllCalm'
  <2> SUFFICES ASSUME NEW f \in EventFiles \ raced
               PROVE  Calm(f)'
    BY <1>3 DEF AllCalm
  <2>1. Calm(f)
    BY DEF Parts, AllCalm
  <2>2. CASE f # file
    <3>1. SameFor(f)
      BY <1>2, <1>3, <1>4, <1>10, <2>2 DEF SameFor, LiveOf
    <3> QED
      BY <2>1, <3>1, CalmKept
  <2>3. CASE f = file
    BY <1>2, <1>3, <1>10, <2>1, <2>3 DEF Calm, Reading, LiveOf
  <2> QED
    BY <2>2, <2>3
<1>13. AllOnce'
  <2> SUFFICES ASSUME raced = {}, NEW v \in (1..n) \ stuck,
                      versions'[v].kind \in {"immediate", "oneShot"}
               PROVE  OnceAtMost(v)'
    BY <1>2, <1>3 DEF AllOnce
  <2>1. \A r \in reads : r.version \in 0..Len(versions)
    BY DEF Parts, ReadShape
  <2>2. CASE v = n
    <3>1. \A f \in EventFiles : Holds(f, v)' => f = file
      BY <1>3, <1>4, <1>10, <2>1, <2>2 DEF Holds
    <3>2. \A i \in 1..Len(queue) : queue[i] # v
      <4>1. \A i \in 1..Len(queue) : queue[i] \in 1..Len(versions)
        BY ElementOfSeq DEF Parts, QueueShape
      <4> QED
        BY <1>2, <2>2, <4>1
    <3> QED
      BY <1>3, <1>5, <2>2, <3>1, <3>2 DEF OnceAtMost
  <2>3. CASE v \in 1..Len(versions)
    <3>1. OnceAtMost(v)
      BY <1>2, <2>3 DEF Parts, AllOnce
    <3>2. v # n
      BY <1>2, <2>3
    <3>3. \A f \in EventFiles : Holds(f, v)' => Holds(f, v)
      BY <1>3, <1>4, <3>2 DEF Holds
    <3> QED
      BY <1>3, <1>5, <2>3, <3>1, <3>3 DEF OnceAtMost
  <2> QED
    BY <1>4, <2>2, <2>3
<1> QED
  BY <1>6, <1>7, <1>8, <1>9, <1>11, <1>12, <1>13 DEF Parts

\* Files and notifications change, calls and timers do not.
LEMMA NoticeStep ==
  ASSUME Parts, NEW file \in EventFiles,
         RemoveEvent(file) \/ Touch(file) \/ Notify(file)
  PROVE  Parts'
<1>1. UNCHANGED <<versions, reads, known, timers, live, nextTimer, watching, queue, running, ran,
                  raced, stuck>>
  BY DEF RemoveEvent, Touch, Notify
<1>2. \/ /\ content' = [content EXCEPT ![file] = Absent] /\ debouncing' = debouncing
         /\ notified' = IF watching THEN notified \cup {file} ELSE notified
      \/ /\ UNCHANGED <<content, debouncing>> /\ watching /\ notified' = notified \cup {file}
      \/ /\ UNCHANGED content /\ file \in notified
         /\ notified' \cup debouncing' = notified \cup debouncing
         /\ notified' \subseteq notified \cup debouncing
         /\ debouncing' \subseteq notified \cup debouncing
  BY DEF RemoveEvent, Touch, Notify
<1>3. /\ content \in [EventFiles -> 0..Len(versions)]
      /\ \A f \in EventFiles : f # file => content'[f] = content[f]
      /\ content' = content \/ content'[file] = Absent
      /\ content' \in [EventFiles -> 0..Len(versions)]
  <2>1. 0 \in 0..Len(versions) /\ content \in [EventFiles -> 0..Len(versions)]
    BY LenProperties DEF Parts, FileShape
  <2> QED
    BY <1>2, <2>1 DEF Absent
<1>4. FileShape'
  BY <1>1, <1>2, <1>3 DEF Parts, FileShape
<1>5. ReadShape' /\ TimerShape' /\ QueueShape'
  BY <1>1 DEF Parts, ReadShape, TimerShape, QueueShape
<1>6. TimersAreTold'
  BY <1>1 DEF Parts, TimersAreTold, Tracked, IsEvent
<1>7. AllCalm'
  <2> SUFFICES ASSUME NEW f \in EventFiles \ raced
               PROVE  Calm(f)'
    BY <1>1 DEF AllCalm
  <2>1. Calm(f)
    BY DEF Parts, AllCalm
  <2>2. CASE f # file \/ (UNCHANGED content /\ file \in notified)
    <3>1. SameFor(f)
      BY <1>1, <1>2, <1>3, <2>2 DEF SameFor, LiveOf
    <3> QED
      BY <2>1, <3>1, CalmKept
  <2>3. CASE f = file /\ notified' = IF watching THEN notified \cup {file} ELSE notified
    <3>1. debouncing' = debouncing \/ watching'
      BY <1>1, <1>2, <2>1, <2>3 DEF Calm
    <3> QED
      BY <1>1, <2>1, <2>3, <3>1 DEF Calm, Reading, LiveOf
  <2> QED
    BY <1>2, <2>2, <2>3
<1>8. AllOnce'
  <2>1. \A f \in EventFiles, v \in 1..Len(versions) : Holds(f, v)' => Holds(f, v)
    BY <1>1, <1>3 DEF Holds, Absent
  <2> QED
    BY <1>1, <2>1, OnceKept DEF Parts
<1> QED
  BY <1>4, <1>5, <1>6, <1>7, <1>8 DEF Parts

\* The pause after a change is over: the file is read unless it is gone.
LEMMA ChangeStep ==
  ASSUME Parts, NEW file \in EventFiles, HandleFileChange(file)
  PROVE  Parts'
<1>1. /\ file \in debouncing
      /\ debouncing' = debouncing \ {file}
      /\ raced' = IF Reading(file) THEN raced \cup {file} ELSE raced
      /\ UNCHANGED <<versions, content, notified, nextTimer, watching, queue, running, touches,
                     ran, stuck>>
  BY DEF HandleFileChange
<1>2. \/ live' = Cancelled(file) /\ timers' = [timers EXCEPT ![file] = NoTimers]
      \/ file \notin known /\ UNCHANGED <<live, timers>>
  BY DEF HandleFileChange
<1>3. \/ content[file] = Absent /\ known' = known \ {file} /\ reads' = reads
      \/ /\ content[file] # Absent /\ known' = known
         /\ reads' = reads \cup {FirstTry(file, FreeCall)}
  BY DEF HandleFileChange
<1>4. PICK call : call = FreeCall
  OBVIOUS
<1> DEFINE new == FirstTry(file, call)
<1>5. /\ new = [file |-> file, call |-> call, try |-> 1, phase |-> "reading", version |-> 0]
      /\ new.file = file /\ new.version = 0 /\ new.phase = "reading"
  BY DEF FirstTry, Absent
<1>6. /\ \A r \in reads' : r \in reads \/ r = new
      /\ reads \subseteq reads'
      /\ content[file] # Absent => new \in reads'
      /\ content[file] = Absent => reads' = reads
  BY <1>3, <1>4
<1>7. /\ \A f \in EventFiles : Tracked(f)' \subseteq Tracked(f) \cup {0}
      /\ \A f \in EventFiles : f # file => timers'[f] = timers[f]
      /\ timers' \in [EventFiles -> [oneShot : Nat, periodic : Nat]]
  BY <1>2 DEF Parts, TimerShape, Tracked, NoTimers
<1>8. live' \subseteq live
  BY <1>2 DEF Cancelled
<1>9. FileShape' /\ QueueShape'
  BY <1>1 DEF Parts, FileShape, QueueShape
<1>10. ReadShape'
  <2>1. 0 \in 0..Len(versions)
    BY LenProperties DEF Parts, FileShape
  <2> QED
    BY <1>1, <1>5, <1>6, <2>1 DEF Parts, ReadShape
<1>11. TimerShape'
  BY <1>1, <1>7, <1>8 DEF Parts, TimerShape
<1>12. TimersAreTold'
  <2>1. \A r \in reads' : r.phase = "sleeping" => ~IsEvent(r.version)'
    BY <1>1, <1>5, <1>6 DEF Parts, TimersAreTold, IsEvent
  <2> QED
    BY <1>1, <1>7, <1>8, <2>1, ToldKept DEF Parts
<1>13. AllCalm'
  <2> SUFFICES ASSUME NEW f \in EventFiles \ raced'
               PROVE  Calm(f)'
    BY DEF AllCalm
  <2>1. f \notin raced /\ Calm(f)
    BY <1>1 DEF Parts, AllCalm
  <2>2. CASE f # file
    <3>1. LiveOf(f)' = LiveOf(f)
      BY <1>2, <2>2 DEF Parts, TimersAreTold, LiveOf, Cancelled
    <3>2. {r \in reads : r.file = f}' = {r \in reads : r.file = f}
      BY <1>5, <1>6, <2>2
    <3>3. f \in known => f \in known'
      BY <1>3, <2>2
    <3>4. f \in notified' \cup debouncing' <=> f \in notified \cup debouncing
      BY <1>1, <2>2
    <3>5. SameFor(f)
      BY <1>1, <1>7, <2>2, <3>1, <3>2, <3>3, <3>4 DEF SameFor
    <3> QED
      BY <2>1, <3>5, CalmKept
  <2>3. CASE f = file
    <3>1. ~Reading(file)
      BY <1>1, <2>3
    <3>2. watching
      BY <1>1, <2>1, <2>3 DEF Calm
    <3>3. (LiveOf(f) = {})'
      <4>1. \A t \in LiveOf(f) : f \in known /\ t.number \in Tracked(f)
        <5>1. \A t \in LiveOf(f) : versions[t.version].kind \in {"oneShot", "periodic"}
          BY DEF Parts, TimersAreTold, LiveOf
        <5> QED
          BY <2>1, <5>1 DEF Calm, Tracked
      <4> QED
        BY <1>2, <2>3, <4>1 DEF LiveOf, Cancelled
    <3>4. (\A r, q \in reads : r.file = f /\ q.file = f => r = q)'
      BY <1>6, <2>3, <3>1 DEF Reading
    <3>5. (\A r \in reads : r.file = f /\ r.phase = "read" => r.version = content[f])'
      BY <1>5, <1>6, <2>3, <3>1 DEF Reading
    <3>6. (Reading(f) \/ content[f] = Absent)'
      BY <1>1, <1>5, <1>6, <2>3 DEF Reading
    <3> QED
      BY <1>1, <3>2, <3>3, <3>4, <3>5, <3>6 DEF Calm
  <2> QED
    BY <2>2, <2>3
<1>14. AllOnce'
  <2>1. \A f \in EventFiles, v \in 1..Len(versions) : Holds(f, v)' => Holds(f, v)
    BY <1>1, <1>5, <1>6, <1>8 DEF Holds
  <2>2. raced' = {} => raced = {}
    BY <1>1
  <2> QED
    BY <1>1, <2>1, <2>2, OnceKept DEF Parts
<1> QED
  BY <1>9, <1>10, <1>11, <1>12, <1>13, <1>14 DEF Parts

\* stop(): every timer of a calm file is stopped.
LEMMA StopStep ==
  ASSUME Parts, Stop
  PROVE  Parts'
<1>1. /\ watching' = FALSE
      /\ notified' = {} /\ debouncing' = {} /\ known' = {}
      /\ timers' = [f \in EventFiles |-> NoTimers]
      /\ live' = {t \in live : t.number \notin Tracked(t.file)}
      /\ raced' = raced \cup {read.file : read \in reads}
      /\ UNCHANGED <<versions, content, reads, nextTimer, queue, running, touches, ran, stuck>>
  BY DEF Stop
<1>2. FileShape' /\ QueueShape' /\ ReadShape'
  BY <1>1 DEF Parts, FileShape, QueueShape, ReadShape
<1>3. live' \subseteq live /\ \A f \in EventFiles : Tracked(f)' = {0}
  BY <1>1 DEF Tracked, NoTimers
<1>4. TimerShape'
  BY <1>1, <1>3 DEF Parts, TimerShape, NoTimers
<1>5. TimersAreTold'
  <2>1. \A r \in reads' : r.phase = "sleeping" => ~IsEvent(r.version)'
    BY <1>1 DEF Parts, TimersAreTold, IsEvent
  <2> QED
    BY <1>1, <1>3, <2>1, ToldKept DEF Parts
<1>6. AllCalm'
  <2> SUFFICES ASSUME NEW f \in EventFiles \ raced'
               PROVE  Calm(f)'
    BY DEF AllCalm
  <2>1. Calm(f) /\ ~Reading(f)
    BY <1>1 DEF Parts, AllCalm, Reading
  <2>2. \A t \in LiveOf(f) : t.number \in Tracked(f)
    <3>1. \A t \in LiveOf(f) : versions[t.version].kind \in {"oneShot", "periodic"}
      BY DEF Parts, TimersAreTold, LiveOf
    <3> QED
      BY <2>1, <3>1 DEF Calm, Tracked
  <2>3. (LiveOf(f) = {})' /\ ~Reading(f)'
    BY <1>1, <2>1, <2>2 DEF LiveOf, Reading
  <2> QED
    BY <1>1, <2>3 DEF Calm, Reading
<1>7. AllOnce'
  <2>1. \A f \in EventFiles, v \in 1..Len(versions) : Holds(f, v)' => Holds(f, v)
    BY <1>1, <1>3 DEF Holds
  <2>2. raced' = {} => raced = {}
    BY <1>1
  <2> QED
    BY <1>1, <2>1, <2>2, OnceKept DEF Parts
<1> QED
  BY <1>2, <1>4, <1>5, <1>6, <1>7 DEF Parts

\* A call of handleFile goes on: it has read, or waits, or tries again.
LEMMA CallGoesOn ==
  ASSUME Parts, NEW read \in reads, NEW next,
         reads' = (reads \ {read}) \cup {next},
         next = [file |-> next.file, call |-> next.call, try |-> next.try, phase |-> next.phase,
                 version |-> next.version],
         next.file = read.file,
         next.version \in {0, content[read.file], read.version},
         next.phase = "read" => next.version = content[read.file],
         next.phase = "sleeping" => ~IsEvent(next.version),
         UNCHANGED <<versions, content, notified, debouncing, known, timers, live, nextTimer,
                     watching, queue, running, ran, raced, stuck>>
  PROVE  Parts'
<1>1. FileShape' /\ QueueShape' /\ TimerShape'
  BY DEF Parts, FileShape, QueueShape, TimerShape
<1>2. ReadShape'
  <2>1. /\ read.file \in EventFiles /\ read.version \in 0..Len(versions)
        /\ 0 \in 0..Len(versions) /\ content[read.file] \in 0..Len(versions)
    BY LenProperties DEF Parts, ReadShape, FileShape
  <2> QED
    BY <2>1 DEF Parts, ReadShape
<1>3. TimersAreTold'
  BY DEF Parts, TimersAreTold, IsEvent, Tracked
<1>4. AllCalm'
  <2> SUFFICES ASSUME NEW f \in EventFiles \ raced
               PROVE  Calm(f)'
    BY DEF AllCalm
  <2>1. Calm(f)
    BY DEF Parts, AllCalm
  <2>2. CASE f # read.file
    <3>1. SameFor(f)
      BY <2>2 DEF SameFor, LiveOf
    <3> QED
      BY <2>1, <3>1, CalmKept
  <2>3. CASE f = read.file
    <3>1. LiveOf(f) = {} /\ watching /\ \A r \in reads : r.file = f => r = read
      BY <2>1, <2>3, CalmWhileRead
    <3>2. \A r \in reads' : r.file = f => r = next
      BY <3>1
    <3>3. (LiveOf(f) = {} /\ watching /\ Reading(f))'
      BY <2>3, <3>1 DEF LiveOf, Reading
    <3> QED
      BY <2>3, <3>2, <3>3 DEF Calm
  <2> QED
    BY <2>2, <2>3
<1>5. AllOnce'
  <2>1. \A f \in EventFiles, v \in 1..Len(versions) : Holds(f, v)' => Holds(f, v)
    BY DEF Holds
  <2> QED
    BY <2>1, OnceKept DEF Parts
<1> QED
  BY <1>1, <1>2, <1>3, <1>4, <1>5 DEF Parts

\* The parts that the channel has no share in, and who holds a version.
Apart ==
  /\ FileShape' /\ ReadShape' /\ TimerShape' /\ TimersAreTold' /\ AllCalm'
  /\ stuck \subseteq stuck'
  /\ \A f \in EventFiles, v \in 1..Len(versions) : Holds(f, v)' => Holds(f, v)

\* The file is gone, or its content is known as one that could not be removed.
Left(file) ==
  \/ content'[file] = 0
  \/ content'[file] \in stuck' /\ content'[file] = content[file]

\* What deleteFile() does to the files.
LEMMA DeleteFacts ==
  ASSUME FileShape, NEW file \in EventFiles, DeleteFile(file),
         UNCHANGED <<versions, debouncing, watching>>
  PROVE  /\ FileShape'
         /\ Left(file) /\ stuck \subseteq stuck'
         /\ \A f \in EventFiles : f # file =>
              /\ content'[f] = content[f]
              /\ f \in known' <=> f \in known
              /\ f \in notified' <=> f \in notified
         /\ ~watching => notified' = notified
<1>1. 0 \in 0..Len(versions)
  BY LenProperties DEF FileShape
<1>2. content[file] # Absent => content[file] \in 1..Len(versions)
  BY LenProperties DEF FileShape, Absent
<1>3. CASE /\ content' = [content EXCEPT ![file] = Absent]
           /\ notified' = IF content[file] # Absent /\ watching
                          THEN notified \cup {file} ELSE notified
           /\ UNCHANGED stuck
  <2>1. /\ content' \in [EventFiles -> 0..Len(versions)] /\ content'[file] = 0
        /\ \A f \in EventFiles : f # file => content'[f] = content[f]
    BY <1>1, <1>3 DEF FileShape, Absent
  <2>2. FileShape'
    BY <1>3, <2>1 DEF FileShape
  <2>3. \A f : f # file => (f \in known' <=> f \in known)
    BY DEF DeleteFile
  <2>4. Left(file)
    BY <2>1 DEF Left
  <2>5. stuck \subseteq stuck' /\ (~watching => notified' = notified)
    BY <1>3
  <2>6. \A f \in EventFiles : f # file => (f \in notified' <=> f \in notified)
    BY <1>3
  <2> QED
    BY <2>1, <2>2, <2>3, <2>4, <2>5, <2>6
<1>4. CASE /\ content[file] # Absent
           /\ stuck' = stuck \cup {content[file]}
           /\ UNCHANGED <<content, notified>>
  BY <1>2, <1>4 DEF FileShape, DeleteFile, Left
<1> QED
  BY <1>3, <1>4 DEF DeleteFile

\* A call of handleFile returns, and its file is gone.
LEMMA CallEnds ==
  ASSUME Parts, NEW read \in reads, reads' = reads \ {read},
         UNCHANGED <<versions, debouncing, timers, live, nextTimer, watching, raced>>,
         \/ DeleteFile(read.file)
         \/ /\ content[read.file] = Absent /\ known' = known \cup {read.file}
            /\ UNCHANGED <<content, notified, stuck>>
  PROVE  Apart /\ Left(read.file)
<1>1. /\ FileShape'
      /\ Left(read.file) /\ stuck \subseteq stuck'
      /\ \A f \in EventFiles : f # read.file =>
           /\ content'[f] = content[f]
           /\ f \in known' <=> f \in known
           /\ f \in notified' <=> f \in notified
      /\ ~watching => notified' = notified
  <2>1. read.file \in EventFiles
    BY DEF Parts, ReadShape
  <2>2. CASE DeleteFile(read.file)
    BY <2>1, <2>2, DeleteFacts DEF Parts
  <2>3. CASE /\ content[read.file] = Absent /\ known' = known \cup {read.file}
             /\ UNCHANGED <<content, notified, stuck>>
    BY <2>3 DEF Parts, FileShape, Absent, Left
  <2> QED
    BY <2>2, <2>3
<1>2. ReadShape' /\ TimerShape'
  BY DEF Parts, ReadShape, TimerShape
<1>3. TimersAreTold'
  BY DEF Parts, TimersAreTold, IsEvent, Tracked
<1>4. AllCalm'
  <2> SUFFICES ASSUME NEW f \in EventFiles \ raced
               PROVE  Calm(f)'
    BY DEF AllCalm
  <2>1. Calm(f)
    BY DEF Parts, AllCalm
  <2>2. CASE f # read.file
    <3>1. SameFor(f)
      BY <1>1, <2>2 DEF SameFor, LiveOf
    <3> QED
      BY <2>1, <3>1, CalmKept
  <2>3. CASE f = read.file
    <3>1. LiveOf(f) = {} /\ watching /\ \A r \in reads : r.file = f => r = read
      BY <2>1, <2>3, CalmWhileRead
    <3>2. (LiveOf(f) = {} /\ watching /\ ~Reading(f))'
      BY <3>1 DEF LiveOf, Reading
    <3> QED
      BY <1>1, <2>3, <3>2 DEF Calm, Reading, Absent, Left
  <2> QED
    BY <2>2, <2>3
<1>5. \A f \in EventFiles, v \in 1..Len(versions) : Holds(f, v)' => Holds(f, v)
  <2>1. \A f \in EventFiles, v \in 1..Len(versions) : content'[f] = v => content[f] = v
    BY <1>1 DEF Left
  <2> QED
    BY <2>1 DEF Holds
<1> QED
  BY <1>1, <1>2, <1>3, <1>4, <1>5 DEF Apart

\* The channel is left alone.
LEMMA ApartAlone ==
  ASSUME Parts, Apart, UNCHANGED <<versions, queue, running, ran, raced>>
  PROVE  Parts'
<1>1. QueueShape'
  BY DEF Parts, QueueShape
<1> QED
  BY <1>1, OnceKept DEF Parts, Apart

\* A content that is not an event: another try, or the file is deleted.
LEMMA ReadFailsStep ==
  ASSUME Parts, NEW read \in reads, ReadFails(read)
  PROVE  Parts'
<1>1. /\ read.phase = "read" /\ ~IsEvent(read.version)
      /\ UNCHANGED <<versions, debouncing, timers, live, nextTimer, watching, queue, running,
                     touches, ran, raced>>
  BY DEF ReadFails
<1>2. CASE /\ reads' = (reads \ {read}) \cup {[read EXCEPT !.phase = "sleeping"]}
           /\ UNCHANGED <<content, notified, known, stuck>>
  <2>1. PICK next : next = [file |-> read.file, call |-> read.call, try |-> read.try,
                            phase |-> "sleeping", version |-> read.version]
    OBVIOUS
  <2>2. [read EXCEPT !.phase = "sleeping"] = next
    <3>1. read = [file |-> read.file, call |-> read.call, try |-> read.try,
                  phase |-> read.phase, version |-> read.version]
      BY DEF Parts, ReadShape
    <3> QED
      BY <2>1, <3>1
  <2>3. /\ next.file = read.file /\ next.version = read.version /\ next.phase = "sleeping"
        /\ next = [file |-> next.file, call |-> next.call, try |-> next.try,
                   phase |-> next.phase, version |-> next.version]
    BY <2>1
  <2>4. reads' = (reads \ {read}) \cup {next}
    BY <1>2, <2>2
  <2> QED
    BY <1>1, <1>2, <2>3, <2>4, CallGoesOn
<1>3. CASE reads' = reads \ {read} /\ DeleteFile(read.file)
  <2>1. Apart
    BY <1>1, <1>3, CallEnds
  <2> QED
    BY <1>1, <2>1, ApartAlone
<1> QED
  BY <1>2, <1>3 DEF ReadFails

\* One field after the other.
LEMMA ReadRecords ==
  ASSUME NEW r, NEW w,
         r = [file |-> r.file, call |-> r.call, try |-> r.try, phase |-> r.phase,
              version |-> r.version]
  PROVE  /\ [r EXCEPT !.phase = "read", !.version = w] =
              [file |-> r.file, call |-> r.call, try |-> r.try, phase |-> "read", version |-> w]
         /\ [r EXCEPT !.phase = "reading", !.try = @ + 1, !.version = w] =
              [file |-> r.file, call |-> r.call, try |-> r.try + 1, phase |-> "reading",
               version |-> w]
<1>1. PICK a : a = [r EXCEPT !.phase = "read"]
  OBVIOUS
<1>2. a = [file |-> r.file, call |-> r.call, try |-> r.try, phase |-> "read",
           version |-> r.version]
  BY <1>1
<1>3. [r EXCEPT !.phase = "read", !.version = w] = [a EXCEPT !.version = w]
  BY <1>1
<1>4. [a EXCEPT !.version = w] =
        [file |-> r.file, call |-> r.call, try |-> r.try, phase |-> "read", version |-> w]
  BY <1>2
<1>5. PICK b : b = [r EXCEPT !.phase = "reading"]
  OBVIOUS
<1>6. b = [file |-> r.file, call |-> r.call, try |-> r.try, phase |-> "reading",
           version |-> r.version]
  BY <1>5
<1>7. PICK d : d = [b EXCEPT !.try = r.try + 1]
  OBVIOUS
<1>8. d = [file |-> r.file, call |-> r.call, try |-> r.try + 1, phase |-> "reading",
           version |-> r.version]
  BY <1>6, <1>7
<1>9. [r EXCEPT !.phase = "reading", !.try = @ + 1, !.version = w] = [d EXCEPT !.version = w]
  BY <1>5, <1>7
<1>10. [d EXCEPT !.version = w] =
         [file |-> r.file, call |-> r.call, try |-> r.try + 1, phase |-> "reading",
          version |-> w]
  BY <1>8
<1> QED
  BY <1>3, <1>4, <1>9, <1>10

\* readFile() returns what the file says now.
LEMMA ReadFileStep ==
  ASSUME Parts, NEW read \in reads, ReadFile(read)
  PROVE  Parts'
<1>1. PICK next : next = [file |-> read.file, call |-> read.call, try |-> read.try,
                          phase |-> "read", version |-> content[read.file]]
  OBVIOUS
<1>2. [read EXCEPT !.phase = "read", !.version = content[read.file]] = next
  <2>1. read = [file |-> read.file, call |-> read.call, try |-> read.try,
                phase |-> read.phase, version |-> read.version]
    BY DEF Parts, ReadShape
  <2> QED
    BY <1>1, <2>1, ReadRecords
<1>3. /\ next.file = read.file /\ next.version = content[read.file] /\ next.phase = "read"
      /\ next = [file |-> next.file, call |-> next.call, try |-> next.try,
                 phase |-> next.phase, version |-> next.version]
  BY <1>1
<1>4. reads' = (reads \ {read}) \cup {next}
  BY <1>2 DEF ReadFile
<1>5. UNCHANGED <<versions, content, notified, debouncing, known, timers, live, nextTimer,
                  watching, queue, running, ran, raced, stuck>>
  BY DEF ReadFile
<1> QED
  BY <1>3, <1>4, <1>5, CallGoesOn

\* The wait between two tries is over.
LEMMA ReadAgainStep ==
  ASSUME Parts, NEW read \in reads, ReadAgain(read)
  PROVE  Parts'
<1>1. PICK next : next = [file |-> read.file, call |-> read.call, try |-> read.try + 1,
                          phase |-> "reading", version |-> 0]
  OBVIOUS
<1>2. [read EXCEPT !.phase = "reading", !.try = @ + 1, !.version = Absent] = next
  <2>1. read = [file |-> read.file, call |-> read.call, try |-> read.try,
                phase |-> read.phase, version |-> read.version]
    BY DEF Parts, ReadShape
  <2> QED
    BY <1>1, <2>1, ReadRecords DEF Absent
<1>3. /\ next.file = read.file /\ next.version = 0 /\ next.phase = "reading"
      /\ next = [file |-> next.file, call |-> next.call, try |-> next.try,
                 phase |-> next.phase, version |-> next.version]
  BY <1>1
<1>4. reads' = (reads \ {read}) \cup {next}
  BY <1>2 DEF ReadAgain
<1>5. UNCHANGED <<versions, content, notified, debouncing, known, timers, live, nextTimer,
                  watching, queue, running, ran, raced, stuck>>
  BY DEF ReadAgain
<1> QED
  BY <1>3, <1>4, <1>5, CallGoesOn

\* handleImmediate(): the file that held the version lets go of it.
LEMMA ImmediateStep ==
  ASSUME Parts, NEW read \in reads, HandleImmediate(read)
  PROVE  Parts'
<1>1. /\ read.phase = "read" /\ IsEvent(read.version)
      /\ versions[read.version].kind = "immediate"
      /\ reads' = reads \ {read}
      /\ UNCHANGED <<versions, debouncing, timers, live, nextTimer, watching, raced>>
  BY DEF HandleImmediate, Scheduling
<1>2. Apart /\ Left(read.file)
  <2>1. \/ DeleteFile(read.file)
        \/ /\ content[read.file] = Absent /\ known' = known \cup {read.file}
           /\ UNCHANGED <<content, notified, stuck>>
    BY DEF HandleImmediate
  <2> QED
    BY <1>1, <2>1, CallEnds
<1>3. CASE UNCHANGED <<queue, running, ran>>
  BY <1>1, <1>2, <1>3, ApartAlone
<1>4. CASE Enqueue(read.version)
  <2>1. read.version \in 1..Len(versions) /\ read.file \in EventFiles
    BY <1>1, LenProperties DEF Parts, ReadShape, FileShape, IsEvent, Absent
  <2>2. Holds(read.file, read.version)
    BY DEF Holds
  <2>3. ASSUME raced = {}, read.version \notin stuck'
        PROVE  \A f \in EventFiles : ~Holds(f, read.version)'
    <3>1. OnceAtMost(read.version)
      BY <1>1, <1>2, <2>1, <2>3 DEF Parts, AllOnce, Apart
    <3>2. \A f \in EventFiles : Holds(f, read.version)' => f = read.file
      BY <1>2, <2>1, <2>2, <3>1 DEF Apart, OnceAtMost
    <3>3. Calm(read.file)
      BY <2>1, <2>3 DEF Parts, AllCalm
    <3>4. LiveOf(read.file) = {} /\ \A r \in reads : r.file = read.file => r = read
      BY <3>3, CalmWhileRead
    <3>5. ~Holds(read.file, read.version)'
      BY <1>1, <1>2, <2>1, <2>3, <3>4 DEF Holds, LiveOf, Left
    <3> QED
      BY <3>2, <3>5
  <2>4. AllOnce' /\ QueueShape'
    BY <1>1, <1>2, <1>4, <2>1, <2>2, <2>3, OnceEnqueued DEF Parts, Apart
  <2> QED
    BY <1>2, <2>4 DEF Parts, Apart
<1> QED
  BY <1>3, <1>4 DEF HandleImmediate

\* The time is past or the schedule not valid: the file is deleted.
LEMMA ExpiredStep ==
  ASSUME Parts, NEW read \in reads, Expired(read)
  PROVE  Parts'
<1>1. /\ reads' = reads \ {read} /\ DeleteFile(read.file)
      /\ UNCHANGED <<versions, debouncing, timers, live, nextTimer, watching, raced,
                     queue, running, ran>>
  BY DEF Expired, Scheduling
<1>2. Apart
  BY <1>1, CallEnds
<1> QED
  BY <1>1, <1>2, ApartAlone

\* handleOneShot() in time, handlePeriodic(): the call's version is the timer's.
LEMMA ScheduleStep ==
  ASSUME Parts, NEW read \in reads, Schedule(read)
  PROVE  Parts'
<1> DEFINE file == read.file
           kind == versions[read.version].kind
           new == [number |-> nextTimer, file |-> read.file, version |-> read.version]
<1>1. /\ read.phase = "read" /\ IsEvent(read.version)
      /\ kind \in {"oneShot", "periodic"}
      /\ reads' = reads \ {read}
      /\ known' = known \cup {file}
      /\ timers' = [timers EXCEPT ![file][kind] = nextTimer]
      /\ live' = live \cup {new}
      /\ nextTimer' = nextTimer + 1
      /\ UNCHANGED <<versions, content, notified, debouncing, watching, raced, queue, running,
                     ran, stuck>>
  BY DEF Schedule, Scheduling
<1>2. /\ file \in EventFiles /\ read.version \in 1..Len(versions)
      /\ nextTimer \in Nat /\ nextTimer # 0
  BY <1>1, LenProperties DEF Parts, ReadShape, FileShape, TimerShape, IsEvent, Absent
<1>3. /\ \A f \in EventFiles : f # file => timers'[f] = timers[f]
      /\ timers'[file] = [timers[file] EXCEPT ![kind] = nextTimer]
      /\ timers'[file][kind] = nextTimer
      /\ timers' \in [EventFiles -> [oneShot : Nat, periodic : Nat]]
      /\ \A f \in EventFiles : Tracked(f)' \subseteq Tracked(f) \cup {nextTimer}
      /\ \A f \in EventFiles : f # file => Tracked(f)' = Tracked(f)
  <2>1. /\ timers \in [EventFiles -> [oneShot : Nat, periodic : Nat]]
        /\ kind \in {"oneShot", "periodic"} /\ file \in EventFiles /\ nextTimer \in Nat
        /\ timers' = [timers EXCEPT ![file][kind] = nextTimer]
    BY <1>1, <1>2 DEF Parts, TimerShape
  <2> HIDE DEF file, kind
  <2>2. timers[file] \in [oneShot : Nat, periodic : Nat]
    BY <2>1
  <2>3. PICK new2 : new2 = [timers[file] EXCEPT ![kind] = nextTimer]
    OBVIOUS
  <2>4. /\ new2 \in [oneShot : Nat, periodic : Nat] /\ new2[kind] = nextTimer
        /\ new2.oneShot \in {timers[file].oneShot, nextTimer}
        /\ new2.periodic \in {timers[file].periodic, nextTimer}
    BY <2>1, <2>2, <2>3
  <2>5. /\ timers' = [timers EXCEPT ![file] = new2]
        /\ timers'[file] = new2 /\ \A f \in EventFiles : f # file => timers'[f] = timers[f]
        /\ timers' \in [EventFiles -> [oneShot : Nat, periodic : Nat]]
    BY <2>1, <2>3, <2>4
  <2>6. \A f \in EventFiles : Tracked(f)' = {timers'[f].oneShot, timers'[f].periodic}
    BY DEF Tracked
  <2>7. \A f \in EventFiles : f # file => Tracked(f)' = Tracked(f)
    BY <2>5 DEF Tracked
  <2>8. Tracked(file)' \subseteq Tracked(file) \cup {nextTimer}
    BY <2>4, <2>5 DEF Tracked
  <2>9. \A f \in EventFiles : Tracked(f)' \subseteq Tracked(f) \cup {nextTimer}
    BY <2>7, <2>8
  <2> QED
    BY <2>3, <2>4, <2>5, <2>7, <2>9
<1>4. FileShape' /\ QueueShape' /\ ReadShape'
  BY <1>1 DEF Parts, FileShape, QueueShape, ReadShape
<1>5. TimerShape'
  BY <1>1, <1>2, <1>3 DEF Parts, TimerShape
<1>6. TimersAreTold'
  <2>1. /\ \A f \in EventFiles : \A n \in Tracked(f) : n < nextTimer
        /\ \A t \in live :
             /\ versions[t.version].kind \in {"oneShot", "periodic"}
             /\ t.number < nextTimer
             /\ \A f \in EventFiles : t.number \in Tracked(f) => t.file = f
        /\ \A r \in reads : r.phase = "sleeping" => ~IsEvent(r.version)
    BY <1>2 DEF Parts, TimersAreTold, TimerShape
  <2>2. \A f \in EventFiles : \A n \in Tracked(f) : n \in Nat
    BY DEF Tracked, Parts, TimerShape
  <2>3. \A f \in EventFiles : \A n \in Tracked(f)' : n < nextTimer'
    BY <1>1, <1>2, <1>3, <2>1, <2>2
  <2>4. \A t \in live : t.number # nextTimer
    BY <1>2 DEF Parts, TimerShape
  <2>5. \A t \in live : \A f \in EventFiles : t.number \in Tracked(f)' => t.file = f
    BY <1>3, <2>1, <2>4
  <2>6. \A f \in EventFiles : nextTimer \in Tracked(f)' => f = file
    BY <1>2, <1>3, <2>1
  <2>7. new.number = nextTimer /\ new.file = file /\ new.version = read.version
    OBVIOUS
  <2>8. \A t \in live' :
          /\ versions'[t.version].kind \in {"oneShot", "periodic"}
          /\ \A f \in EventFiles : t.number \in Tracked(f)' => t.file = f
    <3> SUFFICES ASSUME NEW t \in live'
                 PROVE  /\ versions'[t.version].kind \in {"oneShot", "periodic"}
                        /\ \A f \in EventFiles : t.number \in Tracked(f)' => t.file = f
      OBVIOUS
    <3>1. CASE t \in live
      BY <1>1, <2>1, <2>5, <3>1
    <3>2. CASE t = new
      BY <1>1, <2>6, <2>7, <3>2
    <3> QED
      BY <1>1, <3>1, <3>2
  <2>9. \A r \in reads' : r.phase = "sleeping" => ~IsEvent(r.version)'
    BY <1>1, <2>1 DEF IsEvent
  <2> QED
    BY <2>3, <2>8, <2>9 DEF TimersAreTold
<1>7. AllCalm'
  <2> SUFFICES ASSUME NEW f \in EventFiles \ raced
               PROVE  Calm(f)'
    BY <1>1 DEF AllCalm
  <2>1. Calm(f)
    BY DEF Parts, AllCalm
  <2>2. CASE f # file
    <3>1. SameFor(f)
      <4>1. new.file # f
        BY <2>2
      <4>2. LiveOf(f)' = LiveOf(f)
        BY <1>1, <4>1 DEF LiveOf
      <4>3. {r \in reads : r.file = f}' = {r \in reads : r.file = f}
        BY <1>1, <2>2
      <4> QED
        BY <1>1, <1>3, <2>2, <4>2, <4>3 DEF SameFor
    <3> QED
      BY <2>1, <3>1, CalmKept
  <2>3. CASE f = file
    <3>1. LiveOf(f) = {} /\ watching /\ \A r \in reads : r.file = f => r = read
      BY <2>1, <2>3, CalmWhileRead
    <3>2. new.number = nextTimer /\ new.file = f /\ new.version = read.version
      BY <2>3
    <3>3. LiveOf(f)' = {new}
      BY <1>1, <3>1, <3>2 DEF LiveOf
    <3>4. (watching /\ f \in known /\ ~Reading(f))'
      BY <1>1, <2>3, <3>1 DEF Reading
    <3>5. f \notin notified \cup debouncing => read.version = content[f]
      BY <1>1, <2>1, <2>3, <3>1 DEF Calm
    <3>6. \A t \in LiveOf(f)' : t.number = timers'[f][versions'[t.version].kind]
      BY <1>1, <1>3, <2>3, <3>2, <3>3
    <3>7. \A t \in LiveOf(f)' : t.version = read.version
      BY <3>2, <3>3
    <3> HIDE DEF new
    <3>8. (\A t, u \in LiveOf(f) : t = u)' /\ (LiveOf(f) # {})'
      BY <3>3
    <3>9. (\A r, q \in reads : r.file = f /\ q.file = f => r = q)'
      BY <3>4 DEF Reading
    <3>10. (watching /\ f \notin notified \cup debouncing =>
              /\ \A r \in reads : r.file = f /\ r.phase = "read" => r.version = content[f]
              /\ \A t \in LiveOf(f) : t.version = content[f]
              /\ ~Reading(f) /\ content[f] \notin stuck \cup {Absent} => LiveOf(f) # {})'
      BY <1>1, <3>4, <3>5, <3>7, <3>8 DEF Reading
    <3>11. (\A t \in LiveOf(f) : /\ watching /\ f \in known /\ ~Reading(f)
                                 /\ t.number = timers[f][versions[t.version].kind])'
      BY <3>4, <3>6
    <3> QED
      BY <3>4, <3>8, <3>9, <3>10, <3>11 DEF Calm
  <2> QED
    BY <2>2, <2>3
<1>8. AllOnce'
  <2>1. \A f \in EventFiles, v \in 1..Len(versions) : Holds(f, v)' => Holds(f, v)
    <3>1. new.file = read.file /\ new.version = read.version
      OBVIOUS
    <3> HIDE DEF new
    <3> QED
      BY <1>1, <3>1 DEF Holds
  <2> QED
    BY <1>1, <2>1, OnceKept DEF Parts
<1> QED
  BY <1>4, <1>5, <1>6, <1>7, <1>8 DEF Parts

\* The callback of a one-shot: its file and its version are gone afterwards.
LEMMA TimerFiresStep ==
  ASSUME Parts, NEW t \in live, TimerFires(t)
  PROVE  Parts'
<1>1. /\ versions[t.version].kind = "oneShot"
      /\ live' = live \ {t}
      /\ timers' = [timers EXCEPT ![t.file].oneShot = 0]
      /\ Enqueue(t.version)
      /\ DeleteFile(t.file)
      /\ UNCHANGED <<versions, debouncing, reads, nextTimer, watching, touches, raced>>
  BY DEF TimerFires
<1>2. t.file \in EventFiles /\ t.version \in 1..Len(versions)
  BY DEF Parts, TimerShape
<1>3. /\ FileShape'
      /\ Left(t.file) /\ stuck \subseteq stuck'
      /\ \A f \in EventFiles : f # t.file =>
           /\ content'[f] = content[f]
           /\ f \in known' <=> f \in known
           /\ f \in notified' <=> f \in notified
      /\ ~watching => notified' = notified
  BY <1>1, <1>2, DeleteFacts DEF Parts
<1>4. /\ timers' \in [EventFiles -> [oneShot : Nat, periodic : Nat]]
      /\ \A f \in EventFiles : f # t.file => timers'[f] = timers[f]
      /\ \A f \in EventFiles : Tracked(f)' \subseteq Tracked(f) \cup {0}
  BY <1>1, <1>2 DEF Parts, TimerShape, Tracked
<1>5. ReadShape' /\ TimerShape'
  BY <1>1, <1>4 DEF Parts, ReadShape, TimerShape
<1>6. TimersAreTold'
  <2>1. \A r \in reads' : r.phase = "sleeping" => ~IsEvent(r.version)'
    BY <1>1 DEF Parts, TimersAreTold, IsEvent
  <2> QED
    BY <1>1, <1>4, <2>1, ToldKept DEF Parts
<1>7. AllCalm'
  <2> SUFFICES ASSUME NEW f \in EventFiles \ raced
               PROVE  Calm(f)'
    BY <1>1 DEF AllCalm
  <2>1. Calm(f)
    BY DEF Parts, AllCalm
  <2>2. CASE f # t.file
    <3>1. LiveOf(f)' = LiveOf(f)
      BY <1>1, <2>2 DEF LiveOf
    <3>2. SameFor(f)
      BY <1>1, <1>3, <1>4, <2>2, <3>1 DEF SameFor
    <3> QED
      BY <2>1, <3>2, CalmKept
  <2>3. CASE f = t.file
    <3>1. t \in LiveOf(f)
      BY <2>3 DEF LiveOf
    <3>2. LiveOf(f)' = {} /\ watching /\ ~Reading(f)
      BY <1>1, <2>1, <3>1 DEF LiveOf, Calm
    <3> QED
      BY <1>1, <1>3, <2>3, <3>2 DEF Calm, Reading, Absent, Left
  <2> QED
    BY <2>2, <2>3
<1>8. \A f \in EventFiles, v \in 1..Len(versions) : Holds(f, v)' => Holds(f, v)
  <2>1. \A f \in EventFiles, v \in 1..Len(versions) : content'[f] = v => content[f] = v
    BY <1>3 DEF Left
  <2> QED
    BY <1>1, <2>1 DEF Holds
<1>9. Holds(t.file, t.version)
  BY DEF Holds
<1>10. ASSUME raced = {}, t.version \notin stuck'
       PROVE  \A f \in EventFiles : ~Holds(f, t.version)'
  <2>1. OnceAtMost(t.version)
    BY <1>1, <1>2, <1>3, <1>10 DEF Parts, AllOnce
  <2>2. \A f \in EventFiles : Holds(f, t.version)' => f = t.file
    BY <1>2, <1>8, <1>9, <2>1 DEF OnceAtMost
  <2>3. Calm(t.file) /\ t \in LiveOf(t.file)
    BY <1>2, <1>10 DEF Parts, AllCalm, LiveOf
  <2>4. LiveOf(t.file)' = {} /\ ~Reading(t.file)
    BY <1>1, <2>3 DEF LiveOf, Calm
  <2>5. ~Holds(t.file, t.version)'
    BY <1>1, <1>2, <1>3, <1>10, <2>4 DEF Holds, LiveOf, Reading, Left
  <2> QED
    BY <2>2, <2>5
<1>11. AllOnce' /\ QueueShape'
  BY <1>1, <1>2, <1>3, <1>8, <1>9, <1>10, OnceEnqueued DEF Parts
<1> QED
  BY <1>3, <1>5, <1>6, <1>7, <1>11 DEF Parts

\* A cron or the end of a work changes nothing but the channel.
LEMMA ChannelStep ==
  ASSUME Parts,
         \/ \E t \in live : CronFires(t)
         \/ \E version \in running : WorkEnds(version)
  PROVE  Parts'
<1>1. UNCHANGED <<versions, content, notified, debouncing, reads, known, timers, live, nextTimer,
                  watching, raced, stuck>>
  BY DEF CronFires, WorkEnds
<1>2. FileShape' /\ ReadShape' /\ TimerShape'
  BY <1>1 DEF Parts, FileShape, ReadShape, TimerShape
<1>3. TimersAreTold'
  BY <1>1 DEF Parts, TimersAreTold, IsEvent, Tracked
<1>4. AllCalm'
  <2> SUFFICES ASSUME NEW f \in EventFiles \ raced
               PROVE  Calm(f)'
    BY <1>1 DEF AllCalm
  <2>1. SameFor(f)
    BY <1>1 DEF SameFor, LiveOf
  <2> QED
    BY <2>1, CalmKept DEF Parts, AllCalm
<1>5. \A f \in EventFiles, v \in 1..Len(versions) : Holds(f, v)' <=> Holds(f, v)
  BY <1>1 DEF Holds
<1>6. ASSUME NEW t \in live, CronFires(t)
      PROVE  AllOnce' /\ QueueShape'
  <2>1. /\ versions[t.version].kind = "periodic" /\ Enqueue(t.version)
        /\ t.version \in 1..Len(versions)
    BY <1>6 DEF CronFires, Parts, TimerShape
  <2> QED
    BY <1>1, <1>5, <2>1, OnceEnqueued DEF Parts
<1>7. ASSUME NEW version \in running, WorkEnds(version)
      PROVE  AllOnce' /\ QueueShape'
  <2>1. /\ QueueShape'
        /\ \A v \in 1..Len(versions) : SingleIn(queue, ran[v], v) =>
             SingleIn(queue', ran'[v], v) /\ (Spent(v)' => Spent(v))
    BY <1>7, WorkEndsStep DEF Parts
  <2>2. ASSUME raced = {}, NEW v \in 1..Len(versions) \ stuck,
               versions[v].kind \in {"immediate", "oneShot"}
        PROVE  OnceAtMost(v)'
    <3>1. /\ \A f, g \in EventFiles : Holds(f, v) /\ Holds(g, v) => f = g
          /\ SingleIn(queue, ran[v], v)
          /\ Spent(v) => \A f \in EventFiles : ~Holds(f, v)
      BY <2>2, OnceByParts DEF Parts, AllOnce
    <3>2. SingleIn(queue, ran[v], v)'
      BY <2>1, <3>1 DEF SingleIn, Waits
    <3>3. (/\ \A f, g \in EventFiles : Holds(f, v) /\ Holds(g, v) => f = g
           /\ SingleIn(queue, ran[v], v)
           /\ Spent(v) => \A f \in EventFiles : ~Holds(f, v))'
      BY <1>5, <2>1, <3>1, <3>2
    <3>4. (OnceAtMost(v) <=>
             /\ \A f, g \in EventFiles : Holds(f, v) /\ Holds(g, v) => f = g
             /\ SingleIn(queue, ran[v], v)
             /\ Spent(v) => \A f \in EventFiles : ~Holds(f, v))'
      BY OnceByParts, PTL
    <3> QED
      BY <3>3, <3>4
  <2> QED
    BY <1>1, <2>1, <2>2 DEF AllOnce
<1> QED
  BY <1>2, <1>3, <1>4, <1>6, <1>7 DEF Parts

-----------------------------------------------------------------------------
(* Event files: the invariant *)

\* At the start a file is read by one call and nothing is scheduled.
LEMMA EventsInitParts == EventsInit => Parts
<1> SUFFICES ASSUME EventsInit PROVE Parts
  OBVIOUS
<1>1. PICK n \in 0..MaxVersions : \E kind \in [1..n -> EventKinds \cup {"partial"}] :
        /\ versions = [v \in 1..n |-> [kind |-> kind[v], stale |-> TRUE]]
        /\ content \in [EventFiles -> 0..n]
        /\ \A v \in 1..n : \E f \in EventFiles : \A g \in EventFiles : content[g] = v <=> g = f
        /\ reads = {FirstTry(f, 1) : f \in {g \in EventFiles : content[g] # Absent}}
        /\ ran = [v \in 1..n |-> 0]
  BY DEF EventsInit
<1>2. PICK kind \in [1..n -> EventKinds \cup {"partial"}] :
        /\ versions = [v \in 1..n |-> [kind |-> kind[v], stale |-> TRUE]]
        /\ content \in [EventFiles -> 0..n]
        /\ \A v \in 1..n : \E f \in EventFiles : \A g \in EventFiles : content[g] = v <=> g = f
        /\ reads = {FirstTry(f, 1) : f \in {g \in EventFiles : content[g] # Absent}}
        /\ ran = [v \in 1..n |-> 0]
  BY <1>1
<1>3. /\ notified = {} /\ debouncing = {} /\ known = {}
      /\ timers = [f \in EventFiles |-> NoTimers]
      /\ live = {} /\ nextTimer = 1
      /\ watching = TRUE
      /\ queue = <<>> /\ running = {}
      /\ raced = {} /\ stuck = {}
  BY DEF EventsInit
<1>4. n \in Nat
  BY EventsAssumption
<1>5. /\ versions \in Seq([kind : EventKinds \cup {"partial"}, stale : BOOLEAN])
      /\ Len(versions) = n
  <2>1. \A v \in 1..n : [kind |-> kind[v], stale |-> TRUE] \in
                          [kind : EventKinds \cup {"partial"}, stale : BOOLEAN]
    OBVIOUS
  <2>2. versions \in [1..n -> [kind : EventKinds \cup {"partial"}, stale : BOOLEAN]]
    BY <1>2, <2>1
  <2> QED
    BY <1>2, <1>4, <2>2
<1>6. ran \in Seq(Nat) /\ Len(ran) = n /\ \A v \in 1..n : ran[v] = 0
  <2>1. ran \in [1..n -> Nat] /\ DOMAIN ran = 1..n
    BY <1>2
  <2> QED
    BY <1>2, <1>4, <2>1
<1>7. \A r \in reads : /\ r = [file |-> r.file, call |-> r.call, try |-> r.try,
                               phase |-> r.phase, version |-> r.version]
                       /\ r = FirstTry(r.file, 1) /\ r.file \in EventFiles
                       /\ r.version = 0 /\ r.phase = "reading"
  <2>1. \A f : FirstTry(f, 1) = [file |-> f, call |-> 1, try |-> 1, phase |-> "reading",
                                 version |-> 0]
    BY DEF FirstTry, Absent
  <2>2. \A r \in reads : \E f \in EventFiles : r = FirstTry(f, 1)
    BY <1>2
  <2> QED
    BY <2>1, <2>2
<1>8. FileShape
  BY <1>2, <1>3, <1>5 DEF FileShape
<1>9. ReadShape
  <2>1. 0 \in 0..n
    BY <1>4
  <2> QED
    BY <1>5, <1>7, <2>1 DEF ReadShape
<1>10. TimerShape
  BY <1>3 DEF TimerShape, NoTimers
<1>11. QueueShape
  BY <1>3, <1>5, <1>6, FS_EmptySet DEF QueueShape
<1>12. TimersAreTold
  BY <1>3, <1>7 DEF TimersAreTold, Tracked, NoTimers
<1>13. ASSUME NEW f \in EventFiles
       PROVE  Calm(f)
  <2>1. LiveOf(f) = {}
    BY <1>3 DEF LiveOf
  <2>2. \A r, q \in reads : r.file = f /\ q.file = f => r = q
    BY <1>7
  <2>3. content[f] # Absent => Reading(f)
    <3>1. FirstTry(f, 1).file = f
      BY DEF FirstTry
    <3> QED
      BY <1>2, <3>1 DEF Reading
  <2> QED
    BY <1>3, <1>7, <2>1, <2>2, <2>3, CalmWithoutTimer
<1>14. AllOnce
  <2> SUFFICES ASSUME NEW v \in 1..n
               PROVE  OnceAtMost(v)
    BY <1>5 DEF AllOnce
  <2>1. \A f \in EventFiles : Holds(f, v) => content[f] = v
    BY <1>3, <1>7 DEF Holds
  <2>2. PICK f \in EventFiles : \A g \in EventFiles : content[g] = v <=> g = f
    BY <1>2
  <2> QED
    BY <1>3, <1>6, <2>1, <2>2 DEF OnceAtMost
<1> QED
  BY <1>8, <1>9, <1>10, <1>11, <1>12, <1>13, <1>14 DEF Parts, AllCalm

\* Every step of the watcher and of the channel keeps the invariant.
LEMMA EventsStep == Parts /\ [EventsNext]_eventsVars => Parts'
<1> SUFFICES ASSUME Parts, [EventsNext]_eventsVars PROVE Parts'
  OBVIOUS
<1>1. CASE Stop
  BY <1>1, StopStep
<1>2. ASSUME NEW file \in EventFiles,
             \/ WriteEvent(file) \/ RemoveEvent(file) \/ Touch(file) \/ Notify(file)
             \/ HandleFileChange(file)
      PROVE  Parts'
  BY <1>2, WriteStep, NoticeStep, ChangeStep
<1>3. ASSUME NEW read \in reads,
             \/ ReadFile(read) \/ ReadFails(read) \/ ReadAgain(read)
             \/ HandleImmediate(read) \/ Schedule(read) \/ Expired(read)
      PROVE  Parts'
  BY <1>3, ReadFileStep, ReadFailsStep, ReadAgainStep, ImmediateStep, ScheduleStep, ExpiredStep
<1>4. ASSUME NEW t \in live, TimerFires(t)
      PROVE  Parts'
  BY <1>4, TimerFiresStep
<1>5. CASE \/ \E t \in live : CronFires(t)
           \/ \E version \in running : WorkEnds(version)
  BY <1>5, ChannelStep
<1>6. CASE UNCHANGED eventsVars
  <2>1. UNCHANGED <<versions, content, notified, debouncing, reads, known, timers, live, nextTimer,
                    watching, queue, running, ran, raced, stuck>>
    BY <1>6 DEF eventsVars
  <2>2. FileShape' /\ ReadShape' /\ TimerShape' /\ QueueShape'
    BY <2>1 DEF Parts, FileShape, ReadShape, TimerShape, QueueShape
  <2>3. TimersAreTold'
    BY <2>1 DEF Parts, TimersAreTold, IsEvent, Tracked
  <2>4. AllCalm'
    BY <2>1 DEF Parts, AllCalm, Calm, LiveOf, Reading
  <2>5. AllOnce'
    BY <2>1, OnceKept DEF Parts, Holds
  <2> QED
    BY <2>2, <2>3, <2>4, <2>5 DEF Parts
<1> QED
  BY <1>1, <1>2, <1>3, <1>4, <1>5, <1>6 DEF EventsNext

\* What the invariant says of a file that has settled, and of an event.
LEMMA EventsPartsSafe == Parts => EventsFollowFiles
<1> SUFFICES ASSUME Parts PROVE EventsFollowFiles
  OBVIOUS
<1>1. ASSUME NEW f \in EventFiles, Settled(f)
      PROVE  (content[f] \in stuck /\ LiveOf(f) = {}) \/ LiveOf(f) = Asked(f)
  <2>1. Calm(f) /\ f \notin notified \cup debouncing /\ ~Reading(f)
    BY <1>1 DEF Settled, Parts, AllCalm
  <2>2. \A t \in LiveOf(f) :
          /\ watching /\ t.number = timers[f][versions[t.version].kind]
          /\ t.version = content[f] /\ t.file = f
          /\ t.version # Absent
          /\ t = [number |-> t.number, file |-> t.file, version |-> t.version]
    <3>1. \A t \in LiveOf(f) : t.file = f /\ t.version # Absent
                               /\ t = [number |-> t.number, file |-> t.file, version |-> t.version]
      BY DEF LiveOf, Parts, TimerShape, Absent
    <3> QED
      BY <2>1, <3>1 DEF Calm
  <2>3. CASE LiveOf(f) # {}
    <3>1. PICK t \in LiveOf(f) : TRUE
      BY <2>3
    <3>2. LiveOf(f) = {t}
      BY <2>1 DEF Calm
    <3>3. t = [number |-> timers[f][versions[content[f]].kind], file |-> f,
               version |-> content[f]]
      BY <2>2
    <3>4. watching /\ content[f] # Absent
      BY <2>2, <3>1
    <3> QED
      BY <3>2, <3>3, <3>4 DEF Asked
  <2>4. CASE LiveOf(f) = {}
    <3>1. content[f] \in stuck \/ content[f] = Absent \/ ~watching
      BY <2>1, <2>4 DEF Calm
    <3> QED
      BY <2>4, <3>1 DEF Asked
  <2> QED
    BY <2>3, <2>4
<1>2. ScheduleFollowsFiles
  BY <1>1 DEF ScheduleFollowsFiles
<1>3. ExecutedOnce
  BY DEF ExecutedOnce, Parts, QueueShape, AllOnce, OnceAtMost
<1> QED
  BY <1>2, <1>3 DEF EventsFollowFiles

\* For any number of files and of changes: when the watcher has caught up with
\* a file, the one timer of it is the one its content asks for, and an event
\* that is not periodic is executed once at most (events.ts, slack.ts).
THEOREM EventsFollowFilesAlways == EventsSpec => []EventsFollowFiles
<1>1. EventsInit => Parts
  BY EventsInitParts
<1>2. Parts /\ [EventsNext]_eventsVars => Parts'
  BY EventsStep
<1>3. Parts => EventsFollowFiles
  BY EventsPartsSafe
<1> QED
  BY <1>1, <1>2, <1>3, PTL DEF EventsSpec

\* The same for the invariant itself.
THEOREM EventsInvAlways == EventsSpec => []EventsInv
<1>1. EventsInit => Parts
  BY EventsInitParts
<1>2. Parts /\ [EventsNext]_eventsVars => Parts'
  BY EventsStep
<1>3. Parts => EventsInv
  BY EventsInvByParts DEF Parts
<1> QED
  BY <1>1, <1>2, <1>3, PTL DEF EventsSpec

=============================================================================
