------------------------------- MODULE SttStream -------------------------------
(***************************************************************************)
(* interview_core speech/sarvam_stt_stream.py: one streaming transcription *)
(* session, used for one turn of the candidate.                            *)
(*                                                                         *)
(* A background task reads transcript frames into a queue and, whenever it *)
(* ends, adds a sentinel.  After a lost connection a new reader fills the   *)
(* same queue.  finalize takes what is in the queue, up to a sentinel, and  *)
(* returns the last frame it took.  A frame is its number; the queue is     *)
(* kept as what finalize would make of it.                                  *)
(***************************************************************************)
EXTENDS Integers

CONSTANTS
    MaxReconnects,      \* _MAX_RECONNECT_ATTEMPTS
    MaxFrames           \* bound: transcript frames of one session

ASSUME ReconnectAssumption == MaxReconnects \in Nat
ASSUME FrameAssumption == MaxFrames \in Nat

VARIABLE stt

\* lost: closed with an error code, ended: closed normally by the vendor,
\* closed: by finalize.
Connection == {"none", "open", "lost", "ended", "closed"}

Session == [conn : Connection,
            reader : {"none", "running", "done"},
            finalized : BOOLEAN,        \* _finalized: finalize has begun
            sealed : BOOLEAN,           \* there is a sentinel in the queue
            heard : 0..MaxFrames,       \* the last frame before the first sentinel, 0: none
            latest : 0..MaxFrames,      \* the last frame of all
            reconnects : 0..MaxReconnects]

NewSession == [conn |-> "none", reader |-> "none", finalized |-> FALSE, sealed |-> FALSE,
               heard |-> 0, latest |-> 0, reconnects |-> 0]

Closed == [stt EXCEPT !.conn = "closed", !.reader = "done", !.finalized = TRUE, !.sealed = TRUE]

SttTypeOK == stt \in Session

SttInit == stt = NewSession

-----------------------------------------------------------------------------
(* What the vendor and the reader task do.                                  *)

VendorCloses ==
    /\ stt.conn = "open"
    /\ \E how \in {"lost", "ended"} : stt' = [stt EXCEPT !.conn = how]

FrameArrives ==
    /\ stt.reader = "running" /\ stt.latest < MaxFrames
    /\ stt' = [stt EXCEPT !.latest = @ + 1,
                          !.heard = IF stt.sealed THEN @ ELSE stt.latest + 1]

\* The connection is gone, or a frame it cannot read made it give up.
ReaderEnds ==
    /\ stt.reader = "running"
    /\ stt' = [stt EXCEPT !.reader = "done", !.sealed = TRUE]

Background == VendorCloses \/ FrameArrives \/ ReaderEnds

-----------------------------------------------------------------------------
(* What the owner of the session calls.                                     *)

Start ==
    /\ stt.conn = "none"
    /\ stt' = [NewSession EXCEPT !.conn = "open", !.reader = "running"]

\* send_audio returns, or raises an STTStreamError, which its callers suppress: also for a
\* session that is finalized.
Sent ==
    \/ (stt.conn = "open" \/ stt.finalized) /\ UNCHANGED stt
    \/ /\ stt.conn = "lost" /\ ~stt.finalized
       /\ \/ stt.reconnects = MaxReconnects /\ UNCHANGED stt
          \/ /\ stt.reconnects < MaxReconnects
             /\ \/ stt' = [stt EXCEPT !.reconnects = @ + 1, !.sealed = TRUE, !.reader = "done"]
                \/ stt' = [stt EXCEPT !.reconnects = @ + 1, !.sealed = TRUE,
                                      !.conn = "open", !.reader = "running"]

\* It raises something else: the vendor had closed the connection normally, or the
\* fresh connection was lost before the frame was sent again.
SendRaises ==
    /\ ~stt.finalized
    /\ \/ stt.conn = "ended"
       \/ stt.conn = "lost" /\ stt.reconnects < MaxReconnects

\* finalize takes the frames that are there and waits for more, for a grace period or up to a
\* sentinel.  Called once more it raises.
FinalizeBegins ==
    /\ stt.conn \notin {"none", "closed"} /\ ~stt.finalized
    /\ stt' = [stt EXCEPT !.finalized = TRUE]

\* The reader is cancelled and the connection closed; a call that is cancelled during the
\* grace period does not come here.
FinalizeEnds ==
    /\ stt.conn \notin {"none", "closed"} /\ stt.finalized
    /\ stt' = Closed

Transcript == stt.heard

SttNext == Start \/ Background \/ Sent \/ FinalizeBegins \/ FinalizeEnds

SttSpec == SttInit /\ [][SttNext]_stt

-----------------------------------------------------------------------------

(* "The last transcript seen is the most complete one": without a reconnect   *)
(* finalize returns the last frame the vendor sent, even if the reader ended   *)
(* early.                                                                      *)
FinalIsLatestWithoutReconnect == stt.reconnects = 0 => Transcript = stt.latest

(* The same in general fails: the reader that a reconnect replaces leaves a    *)
(* sentinel in the queue, behind which finalize never looks.                   *)
FinalIsLatest == stt.conn # "closed" => Transcript = stt.latest

(* A session that is over has no task that still reads.                        *)
ClosedHasNoReader == stt.conn \in {"none", "closed"} => stt.reader # "running"
=============================================================================
