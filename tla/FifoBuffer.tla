----------------------------- MODULE FifoBuffer -----------------------------
(***************************************************************************)
(* rtc::FifoBuffer (webrtc/base/stream.cc), a ring buffer that can be      *)
(* written ahead of its end: operators on one buffer.  data is what can be *)
(* read; ahead[o] is what the ring holds o bytes past that, Junk where it  *)
(* holds a stale or uninitialized byte.  Capacity is data and ahead        *)
(* together.                                                               *)
(***************************************************************************)
EXTENDS Integers, Sequences, FiniteSetsExt

Junk == -1

EmptyFifo(capacity) == [data |-> << >>, ahead |-> [o \in 0 .. capacity - 1 |-> Junk]]

Capacity(b) == Cardinality(DOMAIN b.ahead)
GetBuffered(b) == Len(b.data)
GetWriteRemaining(b) == Capacity(b) - Len(b.data)

\* What can be read at an offset: the bytes there are, at most n.
ReadOffset(b, n, offset) == SubSeq(b.data, offset + 1, Min({offset + n, Len(b.data)}))

ConsumeReadData(b, n) == [b EXCEPT !.data = SubSeq(@, n + 1, Len(@))]

\* Bytes past the capacity are cut off.
WriteOffset(b, s, offset) ==
  LET n == Min({Len(s), GetWriteRemaining(b) - offset})
  IN [b EXCEPT !.ahead = [o \in DOMAIN @ |->
        IF o \in offset .. offset + n - 1 THEN s[o - offset + 1] ELSE @[o]]]

\* Mutant: the bytes that were written ahead do not move with the end.
ConsumeWriteBufferInPlace(b, n) ==
  [data |-> b.data \o [i \in 1 .. n |-> b.ahead[i - 1]], ahead |-> b.ahead]

\* The first n bytes ahead become readable.
ConsumeWriteBuffer(b, n) ==
  [data |-> b.data \o [i \in 1 .. n |-> b.ahead[i - 1]],
   ahead |-> [o \in DOMAIN b.ahead |-> IF o + n \in DOMAIN b.ahead THEN b.ahead[o + n] ELSE Junk]]

Write(b, s) ==
  LET n == Min({Len(s), GetWriteRemaining(b)})
  IN ConsumeWriteBuffer(WriteOffset(b, s, 0), n)
=============================================================================
