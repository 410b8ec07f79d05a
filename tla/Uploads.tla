------------------------------ MODULE Uploads ------------------------------
(***************************************************************************)
(* The images of ingestions.  store_image names a file by the local date   *)
(* and the hash of the bytes, and writes it in place unless it is there;   *)
(* the ingestion then reads it back for the LLM, without giving way to     *)
(* another ingestion.  The hourly sweep, in a thread of its own, removes   *)
(* the files of buckets older than the retention, by the UTC date.  The    *)
(* writing, the process and the sweep can stop at any point.               *)
(*                                                                         *)
(* A day has Day moments; local time is zone moments ahead of UTC.         *)
(***************************************************************************)
EXTENDS Integers, FiniteSets

CONSTANTS
    Upload,      \* the ingestions of a behaviour that send an image
    Image,       \* the images they send
    Day,         \* moments in a day
    Zones,       \* offsets of local time
    Retentions,  \* values of upload_retention_days
    MaxMoment,   \* bound on the clock
    None         \* no file, no sweep, no image

ASSUME DayIsPositive == Day \in Nat \ {0}
ASSUME ZonesAreOffsets == \A z \in Zones : z \in Int /\ -Day < z /\ z < Day
ASSUME RetentionsAreDays == Retentions \subseteq Int
ASSUME MaxMomentIsNatural == MaxMoment \in Nat

VARIABLES
    files,   \* for every path None, "partial" or "whole"
    upload,  \* for every ingestion where it is, its path, and what it read
    sweep,   \* None, or the paths a sweep still visits
    moment,  \* the clock, in UTC
    zone, days,
    torn,    \* the paths a writer left before it was through
    used     \* for every path when an ingestion last looked for it

uploadsVars == <<files, upload, sweep, moment, zone, days, torn, used>>

Bucket == -1..((MaxMoment \div Day) + 1)

Path == Bucket \X Image

ASSUME NoneIsNothing == None \notin Path \cup {"partial", "whole"}

UTCDate == moment \div Day
LocalDate == (moment + zone) \div Day

NewRequest == [pc |-> "idle", path |-> None, got |-> None]

UploadsInit ==
    /\ files = [p \in Path |-> None]
    /\ upload = [r \in Upload |-> NewRequest]
    /\ sweep = None
    /\ moment = 0 /\ zone \in Zones /\ days \in Retentions
    /\ torn = {} /\ used = [p \in Path |-> 0]

-----------------------------------------------------------------------------
(* store_image, and the reading of the image by create_ingest.             *)

Goes(r, from, to) == upload[r].pc = from /\ upload' = [upload EXCEPT ![r].pc = to]

\* 400, 413, 415: before anything is stored.
Refused(r) ==
    /\ Goes(r, "idle", "done")
    /\ UNCHANGED <<files, sweep, moment, zone, days, torn, used>>

Found(p) == files[p] # None

\* The ingestions that have looked and are not through with the image.
Busy == {"open", "write", "stored"}

\* target.exists().  From here to read_bytes create_ingest awaits nothing: no
\* other ingestion comes between, only the thread of the sweep and the end of
\* the process.
Looks(r) ==
    /\ upload[r].pc = "idle"
    /\ \A q \in Upload : upload[q].pc \notin Busy
    /\ \E image \in Image :
          LET p == <<LocalDate, image>> IN
          /\ upload' = [upload EXCEPT ![r] =
                            [pc |-> IF Found(p) THEN "stored" ELSE "open", path |-> p, got |-> None]]
          /\ used' = [used EXCEPT ![p] = moment]
    /\ UNCHANGED <<files, sweep, moment, zone, days, torn>>

\* write_bytes opens the file, which empties it ..
Opens(r) ==
    /\ Goes(r, "open", "write")
    /\ files' = [files EXCEPT ![upload[r].path] = "partial"]
    /\ UNCHANGED <<sweep, moment, zone, days, torn, used>>

\* Faulty: the writing stops in the middle without an error.
WritesHalf(r) ==
    /\ Goes(r, "write", "stored")
    /\ UNCHANGED <<files, sweep, moment, zone, days, torn, used>>

\* .. and writes: to no name, if the file has been removed since.
Writes(r) ==
    /\ Goes(r, "write", "stored")
    /\ files' = [files EXCEPT ![upload[r].path] = IF @ = None THEN None ELSE "whole"]
    /\ torn' = torn \ {upload[r].path}
    /\ UNCHANGED <<sweep, moment, zone, days, used>>

\* The path that is left unfinished by the ingestions of R.
LeftBy(R) ==
    {p \in Path : files[p] = "partial" /\ \E r \in R : upload[r].pc = "write" /\ upload[r].path = p}

\* An OSError: 500, and the file stays as it is.
WriteFails(r) ==
    /\ upload[r].pc \in {"open", "write"}
    /\ upload' = [upload EXCEPT ![r].pc = "done"]
    /\ torn' = torn \cup LeftBy({r})
    /\ UNCHANGED <<files, sweep, moment, zone, days, used>>

\* read_bytes; FileNotFoundError and 500 if the file is not there.
Reads(r) ==
    /\ upload[r].pc = "stored"
    /\ upload' = [upload EXCEPT ![r].pc = "done", ![r].got = files[upload[r].path]]
    /\ UNCHANGED <<files, sweep, moment, zone, days, torn, used>>

\* The client sent the items: the draft is stored and nothing read.
Stored(r) ==
    /\ Goes(r, "stored", "done")
    /\ UNCHANGED <<files, sweep, moment, zone, days, torn, used>>

-----------------------------------------------------------------------------
(* run_forever, sweep, _purge_old_uploads.                                 *)

\* Faulty: the cutoff is in the bucket it names.
IsOldAtCutoff(bucket) == days > 0 /\ bucket <= UTCDate - days

\* Faulty: only the newest of the old buckets.
IsOldSinceToday(bucket) == days > 0 /\ bucket = UTCDate - days - 1

\* Before the cutoff; with a retention of nothing, images are kept for ever.
IsOld(bucket) == days > 0 /\ bucket < UTCDate - days

\* The cutoff is computed once, and the old buckets are listed.
SweepBegins ==
    /\ sweep = None
    /\ sweep' = {p \in Path : files[p] # None /\ IsOld(p[1])}
    /\ UNCHANGED <<files, upload, moment, zone, days, torn, used>>

\* unlink.
Unlinks(p) ==
    /\ sweep # None /\ p \in sweep
    /\ sweep' = sweep \ {p}
    /\ files' = [files EXCEPT ![p] = None]
    /\ torn' = torn \ {p}
    /\ UNCHANGED <<upload, moment, zone, days, used>>

\* An OSError is suppressed, and the next file visited.
UnlinkFails ==
    /\ sweep # None /\ \E p \in sweep : sweep' = sweep \ {p}
    /\ UNCHANGED <<files, upload, moment, zone, days, torn, used>>

\* It sleeps for an hour, also after the drafts could not be cleaned up.
SweepEnds ==
    /\ sweep = {} /\ sweep' = None
    /\ UNCHANGED <<files, upload, moment, zone, days, torn, used>>

\* The process stops and is started again.
UploadsRestart ==
    /\ sweep' = None
    /\ upload' = [r \in Upload |-> IF upload[r].pc = "idle" THEN upload[r]
                                                           ELSE [upload[r] EXCEPT !.pc = "done"]]
    /\ torn' = torn \cup LeftBy(Upload)
    /\ UNCHANGED <<files, moment, zone, days, used>>

MomentPasses ==
    /\ moment < MaxMoment /\ moment' = moment + 1
    /\ UNCHANGED <<files, upload, sweep, zone, days, torn, used>>

UploadsNext ==
    \/ \E r \in Upload :
          \/ Refused(r) \/ Looks(r) \/ Opens(r) \/ Writes(r)
          \/ WriteFails(r) \/ Reads(r) \/ Stored(r)
    \/ SweepBegins \/ \E p \in Path : Unlinks(p)
    \/ UnlinkFails \/ SweepEnds
    \/ UploadsRestart \/ MomentPasses

UploadsSpec == UploadsInit /\ [][UploadsNext]_uploadsVars

\* The task of lifespan sweeps again and again, and what prevents the removal
\* of a file does not do so for ever.
UploadsFairSpec ==
    /\ UploadsSpec
    /\ WF_uploadsVars(SweepBegins) /\ WF_uploadsVars(SweepEnds)
    /\ \A p \in Path : SF_uploadsVars(Unlinks(p))

-----------------------------------------------------------------------------
(* Properties.                                                             *)

UploadsTypeOK ==
    /\ files \in [Path -> {None, "partial", "whole"}]
    /\ upload \in [Upload -> [pc : {"idle", "done"} \cup Busy, path : Path \cup {None},
                              got : {None, "partial", "whole"}]]
    /\ \A r \in Upload : upload[r].pc \in Busy => upload[r].path \in Path
    /\ sweep = None \/ sweep \subseteq Path
    /\ moment \in 0..MaxMoment /\ zone \in Zones /\ days \in Retentions
    /\ torn \subseteq Path /\ used \in [Path -> 0..MaxMoment]

\* The types; a file is unfinished only while somebody writes it, or because
\* a writer failed or was stopped (then it stays so, since the next upload of
\* the image finds it); and an ingestion that is about to read half an image
\* reads one that an earlier writer broke off, never one that is being written.
HalvesAreAccountedFor ==
    /\ UploadsTypeOK
    /\ \A p \in Path : files[p] = "partial" =>
          p \in torn \/ \E r \in Upload : upload[r].pc = "write" /\ upload[r].path = p
    /\ \A r \in Upload : upload[r].pc = "stored" /\ files[upload[r].path] = "partial" =>
          upload[r].path \in torn

\* An image is there for as long as it is to be retained, from the last time
\* that an ingestion used it, but for the offset of a zone behind UTC: the
\* buckets are local dates and the cutoff is not.  With retention 0 it stays.
KeptForRetention ==
    [][\A p \in Path : files[p] # None /\ files'[p] = None =>
          days > 0 /\ moment - used[p] >= days * Day + zone]_uploadsVars

\* An image whose bucket is past the retention is removed in the end, although
\* the sweep is interrupted, and single files may resist it.
OldImagesGo ==
    \A p \in Path : files[p] # None /\ days > 0 /\ p[1] + days < UTCDate ~> files[p] = None
=============================================================================
