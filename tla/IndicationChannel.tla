------------------------- MODULE IndicationChannel -------------------------
(***************************************************************************)
(* What the device client promises about indications, whatever buffers,    *)
(* nested calls and reconnects lie between the service and the callback:   *)
(* an indication the service sends is delivered once or is lost with a     *)
(* connection, none is made up, and, when Ordered, none overtakes an older *)
(* one.                                                                    *)
(***************************************************************************)
EXTENDS Naturals, Sequences

CONSTANT Ordered      \* indications are delivered in the order they were sent

VARIABLES live,       \* the service holds a connection to the client
          last,       \* the number of the latest device event
          pending,    \* the indications sent, and neither delivered nor lost
          delivered   \* the indications delivered, in that order

channelVars == <<live, last, pending, delivered>>

Init == /\ live = FALSE /\ last = 0
        /\ pending = {} /\ delivered = <<>>

(* A device event; the service tells a client it is connected to, if the   *)
(* client has subscribed.                                                  *)
Event == /\ last' = last + 1
         /\ \/ live /\ pending' = pending \cup {last'}
            \/ pending' = pending
         /\ UNCHANGED <<live, delivered>>

Deliver(n) == /\ n \in pending
              /\ Ordered => \A k \in pending : n <= k
              /\ pending' = pending \ {n}
              /\ delivered' = Append(delivered, n)
              /\ UNCHANGED <<live, last>>

Connect == /\ ~live /\ live'
           /\ pending' \subseteq pending
           /\ UNCHANGED <<last, delivered>>

(* The connection is over, or was already: what it still carried may go.   *)
Disconnect == /\ ~live'
              /\ pending' \subseteq pending
              /\ UNCHANGED <<last, delivered>>

Next == Event \/ Connect \/ Disconnect \/ \E n \in pending : Deliver(n)

Spec == Init /\ [][Next]_channelVars
=============================================================================
