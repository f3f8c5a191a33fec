----------------------------- MODULE JsonStream -----------------------------
(***************************************************************************)
(* Splitting a byte stream into JSON objects, as the clients do it with    *)
(* what they read from a local socket: extractJsonObjects of the device    *)
(* client, and the same scan inside onReadyRead of the flash tool client.  *)
(*                                                                         *)
(* A message travels as two fragments, so that a read, or the end of a     *)
(* connection, can fall inside it.                                         *)
(***************************************************************************)
EXTENDS Naturals, Sequences

Frags(m) == <<[m |-> m, last |-> FALSE], [m |-> m, last |-> TRUE]>>

(* Bytes that open no object are skipped.                                  *)
Aligned(fs) == IF fs # <<>> /\ fs[1].last THEN Tail(fs) ELSE fs

(* An object whose end never comes: the braces of what follows nest in it. *)
Blocked(fs) == Len(fs) >= 2 /\ fs[1].m # fs[2].m

(* Whole objects leave the buffer in order.                                *)
Objects(fs) == LET g == Aligned(fs)
               IN  IF Blocked(g) THEN <<>>
                   ELSE [i \in 1..(Len(g) \div 2) |-> g[2 * i].m]

(* Mutant: keeps the message instead of the bytes of an incomplete object. *)
LeftoverDecoded(fs) == IF Len(Aligned(fs)) % 2 = 1 THEN <<Aligned(fs)[1].m>> ELSE <<>>

(* Mutant: the last whole object is not removed from the buffer.           *)
LeftoverKept(fs) == IF Len(fs) >= 2 /\ Len(fs) % 2 = 0
                    THEN SubSeq(fs, Len(fs) - 1, Len(fs)) ELSE <<>>

(* An incomplete last object stays, and so does everything behind a        *)
(* blocked one.                                                            *)
Leftover(fs) == LET g == Aligned(fs)
                IN  IF Blocked(g) THEN g
                    ELSE IF Len(g) % 2 = 1 THEN <<g[Len(g)]>> ELSE <<>>

(* Mutant: the bytes are looked at and not taken.                          *)
AfterPeeked(s, i) == s

(* A read takes the bytes up to position i; what follows stays.            *)
After(s, i) == SubSeq(s, i + 1, Len(s))
=============================================================================
