--------------------------- MODULE DevRefinement ---------------------------
(***************************************************************************)
(* DevClient implements IndicationChannel.  The indications pending there  *)
(* are here the ones in the kernel, in QLocalSocket, in rxBuffer, in the   *)
(* list of a handler or among the messages a synchronous call has read,    *)
(* and whose bytes are not gone in part.                                   *)
(***************************************************************************)
EXTENDS DevClient

Pending == (Unread \cup Held) \ h.lost

Channel == INSTANCE IndicationChannel WITH
              Ordered <- ~Reentrant,
              live <- conn,
              last <- ver,
              pending <- Pending,
              delivered <- h.delivered

(* Seen from outside, the client is a channel that delivers every          *)
(* indication at most once, in order unless callbacks call in again, and   *)
(* loses one only with its connection: onReadyRead, the synchronous calls, *)
(* drainSocketMessages and the reconnect together never drop an indication *)
(* of a live connection, take it for an answer, or repeat it.              *)
ChannelSpec == Channel!Spec

(* No indication is stuck on a live connection: it is delivered, also when *)
(* it was read in the middle of a synchronous call and nothing more        *)
(* arrives that would signal readyRead again.  It may stay in              *)
(* QLocalSocket's buffer until more bytes come once a GetDeviceinfo has    *)
(* given up on this connection (one whose write timed out read it with the *)
(* signals blocked, and drains nothing), or a ResetDevice has (one made    *)
(* inside onReadyRead, where readyRead is not emitted again, can only time *)
(* out); and nothing moves once the thread has stopped on functionMutex.   *)
IndicationSettles ==
    \A n \in 1..MaxVer :
        (n \in Pending) ~> (\/ n \notin Pending \/ ~conn \/ Deadlocked
                            \/ (h.expired \/ h.late) /\ n \in IndFrags(buf))
=============================================================================
