--------------------------- MODULE UploadsProofs ---------------------------
(***************************************************************************)
(* Proofs about Uploads, for every number of ingestions and images, every  *)
(* length of the day, zone, retention and bound of the clock.              *)
(***************************************************************************)
EXTENDS Uploads, TLAPS

-----------------------------------------------------------------------------
(* Dates.                                                                  *)

\* A moment lies in the day it is divided into.
LEMMA DayOf ==
  ASSUME NEW t \in Int
  PROVE  /\ t \div Day \in Int
         /\ Day * (t \div Day) <= t
         /\ t < Day * (t \div Day) + Day
  BY DayIsPositive

\* Later days begin later.
LEMMA DaysGrow ==
  ASSUME NEW m \in Int, NEW n \in Int, m <= n
  PROVE  Day * m <= Day * n
  BY DayIsPositive

\* The day does not go back.
LEMMA DatesGrow ==
  ASSUME NEW s \in Int, NEW t \in Int, s <= t
  PROVE  s \div Day <= t \div Day
  BY DayIsPositive

\* The buckets that local dates name.
LEMMA LocalBucket ==
  ASSUME UploadsTypeOK
  PROVE  LocalDate \in Bucket
<1>1. moment \in Int /\ zone \in Int /\ -Day < zone /\ zone < Day
      /\ 0 <= moment /\ moment <= MaxMoment /\ MaxMoment \in Int
  BY ZonesAreOffsets, MaxMomentIsNatural DEF UploadsTypeOK
<1>2. LocalDate \in Int /\ MaxMoment \div Day \in Int
  BY <1>1, DayOf DEF LocalDate
<1>3. -1 <= LocalDate
  <2>1. Day * (LocalDate + 2) > 0
    BY <1>1, <1>2, DayIsPositive, DayOf DEF LocalDate
  <2> QED
    BY <1>2, <2>1, DayIsPositive
<1>4. LocalDate <= (MaxMoment \div Day) + 1
  <2>1. moment + zone < MaxMoment + Day
    BY <1>1, DayIsPositive
  <2>2. Day * LocalDate < Day * (MaxMoment \div Day) + Day + Day
    BY <1>1, <1>2, <2>1, DayIsPositive, DayOf DEF LocalDate
  <2>3. Day * LocalDate < Day * ((MaxMoment \div Day) + 2)
    BY <1>2, <2>2, DayIsPositive
  <2> QED
    BY <1>2, <2>3, DaysGrow, DayIsPositive
<1> QED
  BY <1>2, <1>3, <1>4 DEF Bucket

-----------------------------------------------------------------------------
(* Type correctness.                                                       *)

LEMMA InitType == UploadsInit => UploadsTypeOK
  BY DayIsPositive, MaxMomentIsNatural, NoneIsNothing DEF UploadsInit, NewRequest, UploadsTypeOK, Busy

\* The steps of an ingestion keep the types.
LEMMA IngestionType ==
  ASSUME UploadsTypeOK, NEW r \in Upload
  PROVE  Refused(r) \/ Looks(r) \/ Opens(r) \/ Writes(r) \/ WriteFails(r)
           \/ Reads(r) \/ Stored(r) => UploadsTypeOK'
<1>1. CASE Refused(r)
  BY <1>1 DEF Refused, Goes, UploadsTypeOK, Busy
<1>2. CASE Looks(r)
  <2>1. PICK image \in Image :
           LET p == <<LocalDate, image>> IN
           /\ upload' = [upload EXCEPT ![r] = [pc |-> IF Found(p) THEN "stored" ELSE "open",
                                               path |-> p, got |-> None]]
           /\ used' = [used EXCEPT ![p] = moment]
    BY <1>2 DEF Looks
  <2>2. <<LocalDate, image>> \in Path
    BY LocalBucket DEF Path
  <2> QED
    BY <1>2, <2>1, <2>2 DEF Looks, UploadsTypeOK, Busy
<1>3. CASE Opens(r)
  BY <1>3 DEF Opens, Goes, UploadsTypeOK, Busy
<1>4. CASE Writes(r)
  BY <1>4 DEF Writes, Goes, UploadsTypeOK, Busy
<1>5. CASE WriteFails(r)
  BY <1>5 DEF WriteFails, LeftBy, UploadsTypeOK, Busy
<1>6. CASE Reads(r)
  BY <1>6, ZenonT(30) DEF Reads, UploadsTypeOK, Busy
<1>7. CASE Stored(r)
  BY <1>7 DEF Stored, Goes, UploadsTypeOK, Busy
<1> QED
  BY <1>1, <1>2, <1>3, <1>4, <1>5, <1>6, <1>7

\* So do those of the sweep, a restart and the clock.
LEMMA NextType == UploadsTypeOK /\ [UploadsNext]_uploadsVars => UploadsTypeOK'
<1> SUFFICES ASSUME UploadsTypeOK, [UploadsNext]_uploadsVars PROVE UploadsTypeOK'
  OBVIOUS
<1>1. CASE SweepBegins \/ UnlinkFails \/ SweepEnds
  BY <1>1 DEF SweepBegins, UnlinkFails, SweepEnds, UploadsTypeOK
<1>2. ASSUME NEW p \in Path, Unlinks(p) PROVE UploadsTypeOK'
  BY <1>2 DEF Unlinks, UploadsTypeOK
<1>3. CASE UploadsRestart
  BY <1>3 DEF UploadsRestart, LeftBy, UploadsTypeOK, Busy
<1>4. CASE MomentPasses
  BY <1>4, MaxMomentIsNatural DEF MomentPasses, UploadsTypeOK
<1>5. CASE UNCHANGED uploadsVars
  BY <1>5 DEF uploadsVars, UploadsTypeOK
<1> QED
  BY <1>1, <1>2, <1>3, <1>4, <1>5, IngestionType DEF UploadsNext

\* Files, ingestions and the sweep stay well typed, for every zone and retention.
THEOREM TypeCorrect == UploadsSpec => []UploadsTypeOK
  BY InitType, NextType, PTL DEF UploadsSpec

-----------------------------------------------------------------------------
(* Halves.                                                                 *)

\* Half a file has a writer, or was left by one.
HalfIsKnown(p) ==
    files[p] = "partial" =>
        p \in torn \/ \E r \in Upload : upload[r].pc = "write" /\ upload[r].path = p

\* One ingestion's step leaves no half unaccounted for.
LEMMA IngestionHalves ==
  ASSUME UploadsTypeOK, NEW p \in Path, HalfIsKnown(p), NEW r \in Upload,
         Refused(r) \/ Looks(r) \/ Opens(r) \/ Writes(r) \/ WriteFails(r)
           \/ Reads(r) \/ Stored(r)
  PROVE  HalfIsKnown(p)'
<1>1. CASE upload[r].pc # "write" /\ ~Opens(r)
  <2>1. files' = files /\ torn \subseteq torn'
    BY <1>1 DEF Refused, Looks, Writes, WriteFails, Reads, Stored, Goes
  <2>2. ASSUME NEW q \in Upload, upload[q].pc = "write" PROVE upload'[q] = upload[q]
    BY <1>1, <2>2 DEF Refused, Looks, Writes, WriteFails, Reads, Stored, Goes, UploadsTypeOK
  <2> QED
    BY <2>1, <2>2 DEF HalfIsKnown
<1>2. CASE Opens(r)
  <2>1. /\ upload'[r].pc = "write" /\ upload'[r].path = upload[r].path
        /\ \A q \in Upload : q # r => upload'[q] = upload[q]
        /\ torn' = torn
        /\ p # upload[r].path => files'[p] = files[p]
        /\ upload[r].pc = "open"
    BY <1>2 DEF Opens, Goes, UploadsTypeOK
  <2> QED
    BY <2>1 DEF HalfIsKnown
<1>3. CASE upload[r].pc = "write" /\ Writes(r)
  <2>1. /\ \A q \in Upload : q # r => upload'[q] = upload[q]
        /\ torn' = torn \ {upload[r].path}
        /\ p # upload[r].path => files'[p] = files[p]
        /\ p = upload[r].path => files'[p] # "partial"
    BY <1>3, NoneIsNothing DEF Writes, Goes, UploadsTypeOK
  <2> QED
    BY <2>1 DEF HalfIsKnown
<1>4. CASE upload[r].pc = "write" /\ WriteFails(r)
  <2>1. /\ \A q \in Upload : q # r => upload'[q] = upload[q]
        /\ files' = files /\ torn' = torn \cup LeftBy({r})
    BY <1>4 DEF WriteFails, UploadsTypeOK
  <2>2. files[p] = "partial" /\ upload[r].path = p => p \in LeftBy({r})
    BY <1>4 DEF LeftBy
  <2> QED
    BY <2>1, <2>2 DEF HalfIsKnown
<1> QED
  BY <1>1, <1>2, <1>3, <1>4 DEF Refused, Looks, Reads, Stored, Goes

\* Nor does any other.
LEMMA NextHalves ==
  ASSUME UploadsTypeOK, NEW p \in Path, HalfIsKnown(p), [UploadsNext]_uploadsVars
  PROVE  HalfIsKnown(p)'
<1>1. CASE SweepBegins \/ UnlinkFails \/ SweepEnds \/ MomentPasses \/ UNCHANGED uploadsVars
  BY <1>1 DEF SweepBegins, UnlinkFails, SweepEnds, MomentPasses, uploadsVars, HalfIsKnown
<1>2. ASSUME NEW q \in Path, Unlinks(q) PROVE HalfIsKnown(p)'
  BY <1>2, NoneIsNothing DEF Unlinks, UploadsTypeOK, HalfIsKnown
<1>3. CASE UploadsRestart
  <2>1. files' = files /\ torn' = torn \cup LeftBy(Upload)
    BY <1>3 DEF UploadsRestart
  <2>2. ASSUME files[p] = "partial", NEW r \in Upload, upload[r].pc = "write", upload[r].path = p
        PROVE  p \in LeftBy(Upload)
    BY <2>2 DEF LeftBy
  <2> QED
    BY <2>1, <2>2 DEF HalfIsKnown
<1> QED
  BY <1>1, <1>2, <1>3, IngestionHalves DEF UploadsNext

\* No two ingestions are busy with an image at once.
OneIsBusy == \A q, r \in Upload : upload[q].pc \in Busy /\ upload[r].pc \in Busy => q = r

LEMMA NextOneIsBusy == UploadsTypeOK /\ OneIsBusy /\ [UploadsNext]_uploadsVars => OneIsBusy'
<1> SUFFICES ASSUME UploadsTypeOK, OneIsBusy, [UploadsNext]_uploadsVars PROVE OneIsBusy'
  OBVIOUS
<1>1. ASSUME \A r \in Upload : upload'[r].pc \in Busy => upload[r].pc \in Busy
      PROVE  OneIsBusy'
  BY <1>1 DEF OneIsBusy
<1>2. ASSUME NEW r \in Upload, Looks(r) PROVE OneIsBusy'
  <2>1. \A q \in Upload : q # r => upload'[q] = upload[q] /\ upload[q].pc \notin Busy
    BY <1>2 DEF Looks, UploadsTypeOK
  <2> QED
    BY <2>1 DEF OneIsBusy
<1>3. ASSUME NEW r \in Upload, Refused(r) \/ Opens(r) \/ Writes(r) \/ WriteFails(r)
                              \/ Reads(r) \/ Stored(r)
      PROVE  OneIsBusy'
  <2>1. \A q \in Upload : q # r => upload'[q] = upload[q]
    BY <1>3 DEF Refused, Opens, Writes, WriteFails, Reads, Stored, Goes, UploadsTypeOK
  <2>2. upload'[r].pc \in Busy => upload[r].pc \in Busy
    BY <1>3 DEF Refused, Opens, Writes, WriteFails, Reads, Stored, Goes, UploadsTypeOK, Busy
  <2> QED
    BY <1>1, <2>1, <2>2
<1>4. CASE SweepBegins \/ UnlinkFails \/ SweepEnds \/ MomentPasses \/ UNCHANGED uploadsVars
  BY <1>1, <1>4 DEF SweepBegins, UnlinkFails, SweepEnds, MomentPasses, uploadsVars
<1>5. ASSUME NEW p \in Path, Unlinks(p) PROVE OneIsBusy'
  BY <1>1, <1>5 DEF Unlinks
<1>6. CASE UploadsRestart
  BY <1>1, <1>6 DEF UploadsRestart, UploadsTypeOK, Busy
<1> QED
  BY <1>2, <1>3, <1>4, <1>5, <1>6 DEF UploadsNext

\* A file is unfinished only while somebody writes it, or because a writer
\* failed or was stopped; and half an image that is read is one broken off.
THEOREM HalvesAccounted == UploadsSpec => []HalvesAreAccountedFor
<1> DEFINE Known == \A p \in Path : HalfIsKnown(p)
<1>1. UploadsInit => Known /\ OneIsBusy
  BY NoneIsNothing DEF UploadsInit, NewRequest, HalfIsKnown, OneIsBusy, Busy
<1>2. UploadsTypeOK /\ Known /\ [UploadsNext]_uploadsVars => Known'
  BY NextHalves
<1>3. UploadsTypeOK /\ Known /\ OneIsBusy => HalvesAreAccountedFor
  <2> SUFFICES ASSUME UploadsTypeOK, Known, OneIsBusy, NEW r \in Upload, upload[r].pc = "stored",
                      files[upload[r].path] = "partial"
               PROVE  upload[r].path \in torn
    BY DEF HalfIsKnown, HalvesAreAccountedFor
  <2>1. upload[r].path \in Path
    BY DEF UploadsTypeOK, Busy
  <2>2. \A q \in Upload : upload[q].pc # "write"
    BY DEF OneIsBusy, Busy
  <2> QED
    BY <2>1, <2>2 DEF HalfIsKnown
<1> HIDE DEF Known
<1> QED
  BY <1>1, <1>2, <1>3, NextOneIsBusy, TypeCorrect, PTL DEF UploadsSpec

-----------------------------------------------------------------------------
(* Retention.                                                              *)

\* A path that has a file, or an ingestion, is in the bucket of the local
\* date on which it was last looked for.
Dated(p) ==
    files[p] # None \/ (\E r \in Upload : upload[r].path = p) =>
        p[1] = (used[p] + zone) \div Day

\* A path that a sweep still visits was old when the sweep began.
SweptIsOld == sweep # None => \A p \in sweep : IsOld(p[1])

RetentionInv ==
    /\ \A p \in Path : Dated(p)
    /\ SweptIsOld

\* Where there is a file after a step, there was one or an ingestion.
LEMMA NextDated ==
  ASSUME UploadsTypeOK, UploadsTypeOK', NEW p \in Path, Dated(p), [UploadsNext]_uploadsVars
  PROVE  Dated(p)'
<1>1. ASSUME UNCHANGED <<zone, used>>, files'[p] # None => files[p] # None,
             \A r \in Upload : upload'[r].path = upload[r].path
      PROVE  Dated(p)'
  BY <1>1 DEF Dated
<1>2. ASSUME NEW r \in Upload, Looks(r) PROVE Dated(p)'
  <2>1. PICK image \in Image :
           LET q == <<LocalDate, image>> IN
           /\ upload' = [upload EXCEPT ![r] = [pc |-> IF Found(q) THEN "stored" ELSE "open",
                                               path |-> q, got |-> None]]
           /\ used' = [used EXCEPT ![q] = moment]
    BY <1>2 DEF Looks
  <2>2. <<LocalDate, image>> \in Path
    BY LocalBucket DEF Path
  <2>3. zone' = zone /\ files' = files
    BY <1>2 DEF Looks
  <2>4. CASE p = <<LocalDate, image>>
    BY <2>1, <2>2, <2>3, <2>4 DEF Dated, LocalDate, UploadsTypeOK
  <2>5. CASE p # <<LocalDate, image>>
    <3>1. used'[p] = used[p]
      BY <2>1, <2>5 DEF UploadsTypeOK
    <3>2. \A q \in Upload : upload'[q].path = p => upload[q].path = p
      BY <2>1, <2>5 DEF UploadsTypeOK
    <3> QED
      BY <2>3, <3>1, <3>2 DEF Dated
  <2> QED
    BY <2>4, <2>5
<1>3. ASSUME NEW r \in Upload, Opens(r) PROVE Dated(p)'
  <2>1. /\ zone' = zone /\ used' = used
        /\ p # upload[r].path => files'[p] = files[p]
        /\ \A q \in Upload : upload'[q].path = upload[q].path
    BY <1>3 DEF Opens, Goes, UploadsTypeOK
  <2> QED
    BY <2>1 DEF Dated
<1>4. ASSUME NEW r \in Upload, Writes(r) PROVE Dated(p)'
  <2>1. files'[p] # None => files[p] # None
    BY <1>4 DEF Writes, UploadsTypeOK
  <2>2. \A q \in Upload : upload'[q].path = upload[q].path
    BY <1>4 DEF Writes, Goes, UploadsTypeOK
  <2> QED
    BY <1>1, <1>4, <2>1, <2>2 DEF Writes
<1>5. ASSUME NEW r \in Upload, Refused(r) \/ WriteFails(r) \/ Reads(r) \/ Stored(r)
      PROVE  Dated(p)'
  <2>1. \A q \in Upload : upload'[q].path = upload[q].path
    BY <1>5 DEF Refused, WriteFails, Reads, Stored, Goes, UploadsTypeOK
  <2> QED
    BY <1>1, <1>5, <2>1 DEF Refused, WriteFails, Reads, Stored
<1>6. ASSUME NEW q \in Path, Unlinks(q) PROVE Dated(p)'
  <2>1. files'[p] # None => files[p] # None
    BY <1>6 DEF Unlinks, UploadsTypeOK
  <2> QED
    BY <1>1, <1>6, <2>1 DEF Unlinks
<1>7. CASE UploadsRestart
  <2>1. \A q \in Upload : upload'[q].path = upload[q].path
    BY <1>7 DEF UploadsRestart, UploadsTypeOK
  <2> QED
    BY <1>1, <1>7, <2>1 DEF UploadsRestart
<1>8. CASE SweepBegins \/ UnlinkFails \/ SweepEnds \/ MomentPasses \/ UNCHANGED uploadsVars
  BY <1>1, <1>8 DEF SweepBegins, UnlinkFails, SweepEnds, MomentPasses, uploadsVars
<1> QED
  BY <1>2, <1>3, <1>4, <1>5, <1>6, <1>7, <1>8 DEF UploadsNext

\* What was old stays old: the clock does not go back.
LEMMA NextSweptIsOld ==
  ASSUME UploadsTypeOK, SweptIsOld, [UploadsNext]_uploadsVars
  PROVE  SweptIsOld'
<1>1. ASSUME UNCHANGED <<moment, days>>, sweep' = sweep \/ sweep' = None
      PROVE  SweptIsOld'
  BY <1>1 DEF SweptIsOld, IsOld, UTCDate
<1>2. ASSUME NEW r \in Upload,
             Refused(r) \/ Looks(r) \/ Opens(r) \/ Writes(r) \/ WriteFails(r)
               \/ Reads(r) \/ Stored(r)
      PROVE  SweptIsOld'
  BY <1>1, <1>2 DEF Refused, Looks, Opens, Writes, WriteFails, Reads, Stored
<1>3. CASE SweepBegins
  <2>1. sweep' = {p \in Path : files[p] # None /\ IsOld(p[1])}
        /\ moment' = moment /\ days' = days
    BY <1>3 DEF SweepBegins
  <2> QED
    BY <2>1 DEF SweptIsOld, IsOld, UTCDate
<1>4. ASSUME NEW p \in Path, Unlinks(p) PROVE SweptIsOld'
  BY <1>4 DEF Unlinks, SweptIsOld, IsOld, UTCDate
<1>5. CASE UnlinkFails
  BY <1>5 DEF UnlinkFails, SweptIsOld, IsOld, UTCDate
<1>6. CASE SweepEnds \/ UploadsRestart \/ UNCHANGED uploadsVars
  BY <1>1, <1>6 DEF SweepEnds, UploadsRestart, uploadsVars
<1>7. CASE MomentPasses
  <2>1. moment \in Int /\ moment' = moment + 1 /\ days' = days /\ sweep' = sweep /\ days \in Int
    BY <1>7, RetentionsAreDays DEF MomentPasses, UploadsTypeOK
  <2>2. UTCDate \in Int /\ UTCDate' \in Int /\ UTCDate <= UTCDate'
    BY <2>1, DayOf, DatesGrow DEF UTCDate
  <2>3. ASSUME NEW p \in Path, IsOld(p[1]) PROVE IsOld(p[1])'
    <3>1. p[1] \in Int
      BY DayOf, MaxMomentIsNatural DEF Path, Bucket
    <3> QED
      BY <2>1, <2>2, <2>3, <3>1 DEF IsOld
  <2> QED
    BY <2>1, <2>3 DEF SweptIsOld, UploadsTypeOK
<1> QED
  BY <1>2, <1>3, <1>4, <1>5, <1>6, <1>7 DEF UploadsNext

LEMMA RetentionInvHolds == UploadsSpec => []RetentionInv
<1>1. UploadsInit => RetentionInv
  <2> SUFFICES ASSUME UploadsInit PROVE RetentionInv
    OBVIOUS
  <2>1. \A r \in Upload : \A p \in Path : upload[r].path # p
    BY NoneIsNothing DEF UploadsInit, NewRequest
  <2> QED
    BY <2>1 DEF UploadsInit, RetentionInv, Dated, SweptIsOld
<1>2. UploadsTypeOK /\ UploadsTypeOK' /\ RetentionInv /\ [UploadsNext]_uploadsVars => RetentionInv'
  BY NextDated, NextSweptIsOld DEF RetentionInv, Path, Bucket
<1> QED
  BY <1>1, <1>2, TypeCorrect, PTL DEF UploadsSpec

\* An image is there for as long as it is to be retained, from the last time
\* that an ingestion used it, but for the offset of a zone behind UTC: also
\* when it is used between the listing of the old buckets and the unlinking.
THEOREM KeptAsLongAsRetained == UploadsSpec => KeptForRetention
<1> DEFINE Kept ==
      \A p \in Path : files[p] # None /\ files'[p] = None =>
          days > 0 /\ moment - used[p] >= days * Day + zone
<1>1. UploadsTypeOK /\ RetentionInv /\ [UploadsNext]_uploadsVars => [Kept]_uploadsVars
  <2> SUFFICES ASSUME UploadsTypeOK, RetentionInv, UploadsNext, NEW p \in Path,
                      files[p] # None, files'[p] = None
               PROVE  days > 0 /\ moment - used[p] >= days * Day + zone
    BY DEF uploadsVars
  <2>1. p \in sweep /\ sweep # None
    <3>1. ASSUME NEW r \in Upload, Opens(r) \/ Writes(r) PROVE FALSE
      BY <3>1, NoneIsNothing DEF Opens, Writes, UploadsTypeOK
    <3>2. ASSUME NEW q \in Path, Unlinks(q) PROVE p \in sweep /\ sweep # None
      BY <3>2 DEF Unlinks, UploadsTypeOK
    <3>3. files' # files
      OBVIOUS
    <3> QED
      BY <3>1, <3>2, <3>3
         DEF UploadsNext, Refused, Looks, WriteFails, Reads, Stored, SweepBegins,
             UnlinkFails, SweepEnds, UploadsRestart, MomentPasses
  <2>2. days > 0 /\ p[1] < UTCDate - days
    BY <2>1 DEF RetentionInv, SweptIsOld, IsOld
  <2>3. p[1] = (used[p] + zone) \div Day
    BY DEF RetentionInv, Dated
  <2>4. moment \in Int /\ used[p] \in Int /\ zone \in Int /\ days \in Int
    BY RetentionsAreDays, ZonesAreOffsets, MaxMomentIsNatural DEF UploadsTypeOK
  <2>5. p[1] \in Int /\ UTCDate \in Int
    BY <2>3, <2>4, DayOf DEF UTCDate
  <2>6. Day * (p[1] + days + 1) <= Day * UTCDate
    BY <2>2, <2>4, <2>5, DaysGrow
  <2>7. Day * (p[1] + days + 1) = Day * p[1] + Day + days * Day
    BY <2>4, <2>5, DayIsPositive
  <2>8. used[p] + zone < Day * p[1] + Day
    BY <2>3, <2>4, DayOf
  <2>9. Day * UTCDate <= moment
    BY <2>4, DayOf DEF UTCDate
  <2>10. moment - used[p] >= days * Day + zone
    <3>1. days * Day \in Int /\ Day * p[1] \in Int /\ Day * UTCDate \in Int /\ Day \in Int
      BY <2>4, <2>5, DayIsPositive
    <3> QED
      BY <2>4, <2>6, <2>7, <2>8, <2>9, <3>1
  <2> QED
    BY <2>2, <2>10
<1> QED
  BY <1>1, TypeCorrect, RetentionInvHolds, PTL DEF UploadsSpec, KeptForRetention
=============================================================================
