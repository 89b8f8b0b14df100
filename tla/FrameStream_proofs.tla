------------------------- MODULE FrameStream_proofs -------------------------
(***************************************************************************)
(* Theorems about FrameStream: for any number of threads and connections,  *)
(* any header size and limit, and payloads of any length, however reads    *)
(* and writes are cut.                                                     *)
(***************************************************************************)
EXTENDS FrameStream, SequenceTheorems, TLAPS

-----------------------------------------------------------------------------
(* Types *)

\* What a thread that is sending has in hand.
LEMMA SendingType ==
    ASSUME TypeOK, NEW w \in Writer, out[w] # NoSend
    PROVE  out[w] \in Sending
  BY DEF TypeOK

\* A thread that waits or writes is sending.
LEMMA StageType ==
    ASSUME TypeOK, NEW w \in Writer, out[w].stage \in {"wait", "write"}
    PROVE  /\ out[w] \in Sending /\ out[w] # NoSend /\ out[w].to \in Conn
           /\ out[w].frame \in Frame /\ out[w].done \in Nat /\ out[w].bare \in BOOLEAN
<1>1. out[w] # NoSend
  BY DEF NoSend
<1>. QED BY <1>1, SendingType DEF Sending

\* A frame takes at least its header.
LEMMA FrameSizeType ==
    ASSUME NEW f \in Frame
    PROVE  FrameSize(f) \in Nat \ {0} /\ FrameSize(f) >= Header /\ Header \in Nat \ {0}
  BY ConstantsOK DEF Frame, FrameSize

\* A header gives a length.
LEMMA AnnouncedType ==
    ASSUME NEW p \in Seq(Cell), p # <<>>
    PROVE  Announced(p) \subseteq Nat
<1>1. p[1] \in Cell
  OBVIOUS
<1>2. p[1].frame \in Frame
  BY <1>1 DEF Cell
<1>. QED BY <1>2, ConstantsOK DEF Announced, Frame

\* Bytes are decoded to a frame or to garbage.
LEMMA DecodedType ==
    ASSUME NEW p \in Seq(Cell), NEW n \in 1..Len(p)
    PROVE  Decoded(SubSeq(p, 1, n)) \in Frame \cup {Garbage}
<1>1. SubSeq(p, 1, n)[1] = p[1] /\ p[1] \in Cell
  BY SubSeqProperties
<1>2. p[1].frame \in Frame
  BY <1>1 DEF Cell
<1>. QED BY <1>1, <1>2 DEF Decoded

\* Types, initially, ...
LEMMA TypeInit == Init => TypeOK
<1>. SUFFICES ASSUME Init PROVE TypeOK
  OBVIOUS
<1>1. out \in [Writer -> Sending \cup {NoSend}] /\ count \in [Writer -> Nat]
  BY DEF Init
<1>. QED BY <1>1 DEF Init, TypeOK

\* ... at a connection's beginning and end, ...
LEMMA TypeConnection ==
    ASSUME TypeOK, NEW c \in Conn, Accept(c) \/ Register(c) \/ Close(c) \/ Leave(c)
    PROVE  TypeOK'
<1>1. CASE Accept(c) \/ Register(c) \/ Close(c)
  BY <1>1 DEF Accept, Register, Close, TypeOK, kernel, writers
<1>2. CASE Leave(c)
  <2>1. /\ pipe' \in [Conn -> Seq(Cell)] /\ rpc' \in [Conn -> {"recv", "refused", "stopped"}]
    BY <1>2 DEF Leave, StopReading, TypeOK
  <2>. QED BY <1>2, <2>1 DEF Leave, TypeOK, writers
<1>. QED BY <1>1, <1>2

\* ... when a thread sets out to send, ...
LEMMA BeginType ==
    ASSUME TypeOK, NEW w \in Writer, NEW c \in Conn, NEW l \in Lengths[w],
           NEW stage \in {"wait", "write"}, NEW bare \in BOOLEAN, Begin(w, c, l, stage, bare)
    PROVE  /\ out' \in [Writer -> Sending \cup {NoSend}] /\ count' \in [Writer -> Nat]
           /\ out' = [out EXCEPT ![w] = out'[w]] /\ out'[w] \in Sending
           /\ out'[w].stage = stage /\ out'[w].to = c /\ out'[w].done = 0 /\ out'[w].bare = bare
           /\ UNCHANGED <<kernel, registered, send_mutex, pipe, rpc, sent, got>>
<1>1. l \in Nat /\ count[w] \in Nat
  BY ConstantsOK DEF TypeOK
<1>2. [by |-> w, n |-> count[w] + 1, len |-> l] \in Frame
  BY <1>1 DEF Frame
<1>3. [stage |-> stage, to |-> c, done |-> 0, bare |-> bare,
       frame |-> [by |-> w, n |-> count[w] + 1, len |-> l]] \in Sending
  BY <1>2 DEF Sending
<1>4. out' = [out EXCEPT ![w] =
          [stage |-> stage, to |-> c, done |-> 0, bare |-> bare,
           frame |-> [by |-> w, n |-> count[w] + 1, len |-> l]]]
  BY DEF Begin
<1>. QED BY <1>1, <1>3, <1>4 DEF Begin, TypeOK

\* A thread begins to send, with the mutex or bare.
LEMMA TypeBegin ==
    ASSUME TypeOK, NEW w \in Writer, NEW c \in Conn, NEW l \in Lengths[w],
           SendLocked(w, c, l) \/ (w = c /\ SendBare(c, l))
    PROVE  TypeOK'
<1>1. /\ out' \in [Writer -> Sending \cup {NoSend}] /\ count' \in [Writer -> Nat]
      /\ UNCHANGED <<kernel, registered, send_mutex, pipe, rpc, sent, got>>
  BY BeginType DEF SendLocked, SendBare
<1>2. mixed' \in [Conn -> BOOLEAN]
  BY DEF SendLocked, SendBare, TypeOK
<1>. QED BY <1>1, <1>2 DEF TypeOK, kernel

\* ... when it has sent, ...
LEMMA FinishType ==
    ASSUME TypeOK, NEW w \in Writer, Writing(w), Finish(w)
    PROVE  /\ out' \in [Writer -> Sending \cup {NoSend}]
           /\ send_mutex' \in [Conn -> Writer \cup {Nobody}]
<1>1. out[w].to \in Conn
  BY StageType DEF Writing
<1>. QED BY <1>1 DEF Finish, TypeOK

\* A thread gets the mutex, writes a cell or gives up.
LEMMA TypeWriter ==
    ASSUME TypeOK, NEW w \in Writer, WriterStep(w)
    PROVE  TypeOK'
<1>1. CASE Lock(w)
  <2>1. /\ out[w] \in Sending /\ out[w].to \in Conn
    BY <1>1, StageType DEF Lock
  <2>2. [out[w] EXCEPT !.stage = "write"] \in Sending
    BY <2>1 DEF Sending
  <2>3. out' \in [Writer -> Sending \cup {NoSend}]
    BY <1>1, <2>2 DEF Lock, TypeOK
  <2>4. /\ send_mutex' \in [Conn -> Writer \cup {Nobody}] /\ mixed' \in [Conn -> BOOLEAN]
    BY <1>1, <2>1 DEF Lock, TypeOK
  <2>. QED BY <1>1, <2>3, <2>4 DEF Lock, TypeOK, kernel
<1>2. CASE WriteCell(w)
  <2>1. /\ sock \in Conn /\ out[w] \in Sending /\ out[w].frame \in Frame /\ out[w].done \in Nat
    BY <1>2, StageType DEF WriteCell, Writing, TypeOK
  <2>2. [frame |-> out[w].frame, at |-> out[w].done + 1] \in Cell
    BY <2>1 DEF Cell
  <2>3. Append(pipe[sock], [frame |-> out[w].frame, at |-> out[w].done + 1]) \in Seq(Cell)
    BY <2>1, <2>2, AppendProperties DEF TypeOK
  <2>4. pipe' \in [Conn -> Seq(Cell)]
    BY <1>2, <2>1, <2>3 DEF WriteCell, TypeOK
  <2>5. Append(sent[sock], out[w].frame) \in Seq(Frame)
    BY <2>1, AppendProperties DEF TypeOK
  <2>6. sent' \in [Conn -> Seq(Frame)]
    BY <1>2, <2>1, <2>5 DEF WriteCell, TypeOK
  <2>7. mixed' \in [Conn -> BOOLEAN]
    BY <1>2, <2>1 DEF WriteCell, TypeOK
  <2>8. /\ out' \in [Writer -> Sending \cup {NoSend}]
        /\ send_mutex' \in [Conn -> Writer \cup {Nobody}]
    <3>1. CASE Finish(w)
      BY <1>2, <3>1, FinishType DEF WriteCell
    <3>2. CASE out' = [out EXCEPT ![w].done = out[w].done + 1] /\ UNCHANGED send_mutex
      <4>1. [out[w] EXCEPT !.done = out[w].done + 1] \in Sending
        BY <2>1 DEF Sending
      <4>. QED BY <3>2, <4>1 DEF TypeOK
    <3>. QED BY <1>2, <3>1, <3>2 DEF WriteCell
  <2>9. UNCHANGED <<sock, closed, gone, registered, count, rpc, got>>
    BY <1>2 DEF WriteCell, kernel
  <2>. QED BY <2>4, <2>6, <2>7, <2>8, <2>9 DEF TypeOK
<1>3. CASE WriteFails(w)
  <2>1. /\ out' \in [Writer -> Sending \cup {NoSend}]
        /\ send_mutex' \in [Conn -> Writer \cup {Nobody}]
    BY <1>3, FinishType DEF WriteFails
  <2>. QED BY <1>3, <2>1 DEF WriteFails, TypeOK, kernel
<1>. QED BY <1>1, <1>2, <1>3 DEF WriterStep

\* ... and when the reader reads.
LEMMA TypeReader ==
    ASSUME TypeOK, NEW c \in Conn, ReaderStep(c)
    PROVE  TypeOK'
<1>1. CASE Receive(c)
  <2>1. PICK l \in InHeader(c) :
           /\ Len(pipe[c]) >= Header + l
           /\ got' = [got EXCEPT ![c] = Append(@, Decoded(SubSeq(pipe[c], 1, Header + l)))]
           /\ pipe' = [pipe EXCEPT ![c] = SubSeq(@, Header + l + 1, Len(@))]
    BY <1>1 DEF Receive
  <2>2. pipe[c] \in Seq(Cell) /\ pipe[c] # <<>> /\ l \in Nat
    <3>1. pipe[c] \in Seq(Cell) /\ ~(Len(pipe[c]) < Header) /\ l \in Announced(pipe[c])
      BY <2>1 DEF InHeader, TypeOK
    <3>2. pipe[c] # <<>>
      BY <3>1, ConstantsOK
    <3>. QED BY <3>1, <3>2, AnnouncedType
  <2>3. Header + l \in 1..Len(pipe[c])
    BY <2>1, <2>2, ConstantsOK
  <2>4. Append(got[c], Decoded(SubSeq(pipe[c], 1, Header + l))) \in Seq(Frame \cup {Garbage})
    BY <2>2, <2>3, DecodedType, AppendProperties DEF TypeOK
  <2>5. SubSeq(pipe[c], Header + l + 1, Len(pipe[c])) \in Seq(Cell)
    BY <2>2, <2>3, SubSeqProperties
  <2>6. got' \in [Conn -> Seq(Frame \cup {Garbage})] /\ pipe' \in [Conn -> Seq(Cell)]
    BY <2>1, <2>4, <2>5 DEF TypeOK
  <2>. QED BY <1>1, <2>6 DEF Receive, TypeOK, kernel, writers
<1>2. CASE Refuse(c) \/ EndOfStream(c)
  <2>1. pipe' \in [Conn -> Seq(Cell)] /\ rpc' \in [Conn -> {"recv", "refused", "stopped"}]
    <3>1. PICK how \in {"refused", "stopped"} : StopReading(c, how)
      BY <1>2 DEF Refuse, EndOfStream
    <3>. QED BY <3>1 DEF StopReading, TypeOK
  <2>. QED BY <1>2, <2>1 DEF Refuse, EndOfStream, TypeOK, kernel, writers
<1>. QED BY <1>1, <1>2 DEF ReaderStep

\* All steps together.
LEMMA TypeNext == TypeOK /\ [Next]_vars => TypeOK'
<1>1. TypeOK /\ UNCHANGED vars => TypeOK'
  BY DEF TypeOK, vars, kernel, writers
<1>2. Conn \subseteq Writer
  BY DEF Writer
<1>. QED BY <1>1, <1>2, TypeConnection, TypeReader, TypeBegin, TypeWriter DEF Next

\* Every variable keeps its type (protocol.h; server.cpp, send_locked).
THEOREM TypeCorrect == Spec => []TypeOK
  BY TypeInit, TypeNext, PTL DEF Spec

-----------------------------------------------------------------------------
(* The cells of a connection *)

\* Where each frame of s begins, and the last one ends, if the first begins at
\* start[1].
Layout(start, s) ==
    /\ start \in [1..(Len(s) + 1) -> Nat]
    /\ \A i \in 1..Len(s) : start[i + 1] = start[i] + FrameSize(s[i])
    /\ \A i, j \in 1..(Len(s) + 1) : i <= j => start[i] <= start[j]

\* The cells p are those of the frames s after the first k, all of which have been
\* begun; the last may not have been written to its end.
Laid(start, s, k, p) ==
    /\ k <= Len(s)
    /\ start[k + 1] + Len(p) <= start[Len(s) + 1]
    /\ s # <<>> => start[Len(s)] < start[k + 1] + Len(p)
    /\ \A j \in 1..Len(s), i \in 1..Len(p) :
          \A a \in 1..FrameSize(s[j]) :
             start[k + 1] + i = start[j] + a => p[i] = [frame |-> s[j], at |-> a]

\* The cells that are there begin with the frame after the first k.
LEMMA FirstFrame ==
    ASSUME NEW s \in Seq(Frame), NEW p \in Seq(Cell), p # <<>>, NEW k \in Nat, NEW start,
           Layout(start, s), Laid(start, s, k, p)
    PROVE  /\ k < Len(s)
           /\ \A i \in 1..Len(p) :
                 i <= FrameSize(s[k + 1]) => p[i] = [frame |-> s[k + 1], at |-> i]
<1>1. k + 1 \in 1..(Len(s) + 1)
  BY DEF Laid
<1>2. k + 1 # Len(s) + 1
  <2>1. start[k + 1] \in Nat
    BY <1>1 DEF Layout
  <2>2. Len(p) \in Nat /\ Len(p) > 0
    OBVIOUS
  <2>3. start[k + 1] + Len(p) <= start[Len(s) + 1]
    BY DEF Laid
  <2>. QED BY <2>1, <2>2, <2>3
<1>3. k < Len(s) /\ k + 1 \in 1..Len(s)
  BY <1>1, <1>2
<1>4. ASSUME NEW i \in 1..Len(p), i <= FrameSize(s[k + 1])
      PROVE  p[i] = [frame |-> s[k + 1], at |-> i]
  <2>1. FrameSize(s[k + 1]) \in Nat
    BY <1>3, FrameSizeType
  <2>2. i \in 1..FrameSize(s[k + 1])
    BY <1>4, <2>1
  <2>. QED BY <1>3, <2>2 DEF Laid
<1>. QED BY <1>3, <1>4

\* The cells of a frame are a sequence.
LEMMA CellsType ==
    ASSUME NEW f \in Frame
    PROVE  /\ Cells(f) \in Seq(Cell) /\ Len(Cells(f)) = FrameSize(f)
           /\ \A i \in 1..FrameSize(f) : Cells(f)[i] = [frame |-> f, at |-> i]
<1>1. FrameSize(f) \in Nat /\ FrameSize(f) = Header + f.len
  BY FrameSizeType DEF FrameSize
<1>2. \A i \in 1..FrameSize(f) : [frame |-> f, at |-> i] \in Cell
  BY <1>1 DEF Cell
<1>3. Cells(f) = [i \in 1..FrameSize(f) |-> [frame |-> f, at |-> i]]
  BY <1>1 DEF Cells
<1>. QED BY <1>1, <1>2, <1>3

\* Cells that are as far as they go those of a frame are read as that frame.
LEMMA Reading ==
    ASSUME NEW f \in Frame, NEW p \in Seq(Cell), p # <<>>,
           \A i \in 1..Len(p) : i <= FrameSize(f) => p[i] = [frame |-> f, at |-> i]
    PROVE  /\ Len(p) >= Header => Announced(p) = {f.len}
           /\ Len(p) >= FrameSize(f) => Decoded(SubSeq(p, 1, FrameSize(f))) = f
<1>1. /\ FrameSize(f) \in Nat \ {0} /\ FrameSize(f) >= Header /\ Header \in Nat \ {0}
      /\ Len(p) \in Nat \ {0}
  BY FrameSizeType
<1>2. ASSUME NEW n \in 1..FrameSize(f), n <= Len(p)
      PROVE  SubSeq(p, 1, n) = SubSeq(Cells(f), 1, n)
  <2>1. /\ SubSeq(p, 1, n) \in Seq(Cell) /\ Len(SubSeq(p, 1, n)) = n
        /\ \A i \in 1..n : SubSeq(p, 1, n)[i] = p[i]
    BY <1>1, <1>2, SubSeqProperties
  <2>2. /\ SubSeq(Cells(f), 1, n) \in Seq(Cell) /\ Len(SubSeq(Cells(f), 1, n)) = n
        /\ \A i \in 1..n : SubSeq(Cells(f), 1, n)[i] = Cells(f)[i]
    BY <1>1, <1>2, CellsType, SubSeqProperties
  <2>3. ASSUME NEW i \in 1..n PROVE p[i] = Cells(f)[i]
    <3>1. i \in 1..Len(p) /\ i \in 1..FrameSize(f) /\ i <= FrameSize(f)
      BY <1>1, <1>2
    <3>. QED BY <3>1, CellsType
  <2>. QED BY <2>1, <2>2, <2>3, SeqEqual
<1>3. p[1].frame = f /\ Cells(f)[1].frame = f
  <2>1. 1 \in 1..Len(p) /\ 1 \in 1..FrameSize(f) /\ 1 <= FrameSize(f)
    BY <1>1
  <2>2. p[1] = [frame |-> f, at |-> 1] /\ Cells(f)[1] = [frame |-> f, at |-> 1]
    BY <2>1, CellsType
  <2>. QED BY <2>2
<1>4. Len(p) >= Header => Announced(p) = {f.len}
  BY <1>1, <1>2, <1>3 DEF Announced
<1>5. CASE Len(p) >= FrameSize(f)
  <2>1. SubSeq(Cells(f), 1, FrameSize(f)) = Cells(f)
    <3>1. /\ SubSeq(Cells(f), 1, FrameSize(f)) \in Seq(Cell)
          /\ Len(SubSeq(Cells(f), 1, FrameSize(f))) = FrameSize(f)
          /\ \A i \in 1..FrameSize(f) : SubSeq(Cells(f), 1, FrameSize(f))[i] = Cells(f)[i]
      BY <1>1, CellsType, SubSeqProperties
    <3>. QED BY <1>1, <3>1, CellsType, SeqEqual
  <2>2. SubSeq(p, 1, FrameSize(f)) = Cells(f)
    <3>1. FrameSize(f) \in 1..FrameSize(f)
      BY <1>1
    <3>. QED BY <1>2, <1>5, <2>1, <3>1
  <2>. QED BY <1>3, <1>4, <2>2 DEF Decoded
<1>. QED BY <1>4, <1>5

\* What is left of a sequence without its first n elements.
LEMMA RestOf ==
    ASSUME NEW S, NEW p \in Seq(S), NEW n \in Nat, n <= Len(p)
    PROVE  /\ SubSeq(p, n + 1, Len(p)) \in Seq(S)
           /\ Len(SubSeq(p, n + 1, Len(p))) = Len(p) - n
           /\ \A i \in 1..(Len(p) - n) : SubSeq(p, n + 1, Len(p))[i] = p[n + i]
<1>1. Len(p) \in Nat /\ \A i \in (n + 1)..Len(p) : p[i] \in S
  OBVIOUS
<1>2. /\ SubSeq(p, n + 1, Len(p)) \in Seq(S)
      /\ Len(SubSeq(p, n + 1, Len(p))) = IF n + 1 <= Len(p) THEN Len(p) - (n + 1) + 1 ELSE 0
      /\ \A i \in 1..(Len(p) - (n + 1) + 1) : SubSeq(p, n + 1, Len(p))[i] = p[(n + 1) + i - 1]
  BY <1>1, SubSeqProperties
<1>3. Len(p) - (n + 1) + 1 = Len(p) - n
  BY <1>1
<1>4. ASSUME NEW i \in 1..(Len(p) - n) PROVE SubSeq(p, n + 1, Len(p))[i] = p[n + i]
  <2>1. i \in Nat /\ (n + 1) + i - 1 = n + i
    BY <1>1
  <2>. QED BY <1>2, <1>3, <2>1
<1>5. Len(SubSeq(p, n + 1, Len(p))) = Len(p) - n
  <2>1. CASE n + 1 <= Len(p)
    BY <1>2, <1>3, <2>1
  <2>2. CASE ~(n + 1 <= Len(p))
    <3>1. Len(p) - n = 0
      BY <1>1, <2>2
    <3>. QED BY <1>2, <2>2, <3>1
  <2>. QED BY <2>1, <2>2
<1>. QED BY <1>2, <1>4, <1>5

\* Reading a whole frame.
LEMMA LaidRead ==
    ASSUME NEW s \in Seq(Frame), NEW p \in Seq(Cell), NEW k \in Nat, NEW start,
           Layout(start, s), Laid(start, s, k, p), k < Len(s), FrameSize(s[k + 1]) <= Len(p)
    PROVE  /\ Laid(start, s, k + 1, SubSeq(p, FrameSize(s[k + 1]) + 1, Len(p)))
           /\ start[k + 2] + Len(SubSeq(p, FrameSize(s[k + 1]) + 1, Len(p))) = start[k + 1] + Len(p)
<1>. SUFFICES ASSUME NEW q, q = SubSeq(p, FrameSize(s[k + 1]) + 1, Len(p))
              PROVE  Laid(start, s, k + 1, q) /\ start[k + 2] + Len(q) = start[k + 1] + Len(p)
  OBVIOUS
<1>1. /\ FrameSize(s[k + 1]) \in Nat \ {0} /\ start[k + 1] \in Nat /\ start[k + 2] \in Nat
      /\ start[k + 2] = start[k + 1] + FrameSize(s[k + 1])
  <2>1. /\ k + 1 \in 1..Len(s) /\ k + 1 \in 1..(Len(s) + 1)
        /\ k + 2 \in 1..(Len(s) + 1) /\ k + 2 = (k + 1) + 1
    OBVIOUS
  <2>2. FrameSize(s[k + 1]) \in Nat \ {0}
    BY <2>1, FrameSizeType
  <2>. QED BY <2>1, <2>2 DEF Layout
<1>2. /\ Len(q) = Len(p) - FrameSize(s[k + 1]) /\ Len(p) \in Nat
      /\ \A i \in 1..(Len(p) - FrameSize(s[k + 1])) : q[i] = p[FrameSize(s[k + 1]) + i]
  <2>1. FrameSize(s[k + 1]) \in Nat
    BY <1>1
  <2>2. Len(p) \in Nat
    OBVIOUS
  <2>. QED BY <2>1, <2>2, RestOf, Zenon
<1>3. start[(k + 1) + 1] + Len(q) = start[k + 1] + Len(p)
  BY <1>1, <1>2
<1>4. ASSUME NEW j \in 1..Len(s), NEW i \in 1..Len(q), NEW a \in 1..FrameSize(s[j]),
             start[(k + 1) + 1] + i = start[j] + a
      PROVE  q[i] = [frame |-> s[j], at |-> a]
  <2>1. FrameSize(s[k + 1]) + i \in 1..Len(p)
    <3>1. i \in 1..(Len(p) - FrameSize(s[k + 1]))
      BY <1>2
    <3>2. \A m, n \in Nat : \A x \in 1..(m - n) : n + x \in 1..m
      OBVIOUS
    <3>3. FrameSize(s[k + 1]) \in Nat /\ Len(p) \in Nat
      BY <1>1, <1>2
    <3>. QED BY <3>1, <3>2, <3>3, Zenon
  <2>2. start[k + 1] + (FrameSize(s[k + 1]) + i) = start[j] + a
    <3>1. (k + 1) + 1 = k + 2 /\ i \in Nat
      BY <1>2
    <3>2. start[k + 2] + i = start[j] + a
      BY <1>4, <3>1, Zenon
    <3>3. PICK u \in Nat : u = start[k + 1]
      BY <1>1
    <3>4. PICK y \in Nat : y = FrameSize(s[k + 1])
      BY <1>1
    <3>5. (u + y) + i = u + (y + i)
      BY <3>1
    <3>. QED BY <1>1, <3>2, <3>3, <3>4, <3>5, Zenon
  <2>3. q[i] = p[FrameSize(s[k + 1]) + i]
    BY <1>2
  <2>. QED BY <2>1, <2>2, <2>3 DEF Laid
<1>5. k + 1 <= Len(s) /\ s # <<>>
  OBVIOUS
<1>6. /\ start[(k + 1) + 1] + Len(q) <= start[Len(s) + 1]
      /\ start[Len(s)] < start[(k + 1) + 1] + Len(q)
  <2>1. /\ start[k + 1] + Len(p) <= start[Len(s) + 1]
        /\ start[Len(s)] < start[k + 1] + Len(p)
    BY <1>5 DEF Laid
  <2>. QED BY <1>3, <2>1, Zenon
<1>7. start[k + 2] + Len(q) = start[k + 1] + Len(p)
  <2>1. (k + 1) + 1 = k + 2
    OBVIOUS
  <2>. QED BY <1>3, <2>1, Zenon
<1>8. Laid(start, s, k + 1, q)
  BY <1>4, <1>5, <1>6 DEF Laid
<1>. QED BY <1>7, <1>8

\* The first cell of another frame is written when the one before it is complete.
LEMMA LaidFirst ==
    ASSUME NEW s \in Seq(Frame), NEW p \in Seq(Cell), NEW k \in Nat, NEW start,
           Layout(start, s), Laid(start, s, k, p), start[k + 1] + Len(p) = start[Len(s) + 1],
           NEW f \in Frame
    PROVE  \E begin :
              /\ Layout(begin, Append(s, f))
              /\ Laid(begin, Append(s, f), k, Append(p, [frame |-> f, at |-> 1]))
              /\ begin[k + 1] = start[k + 1] /\ begin[Len(s) + 1] = start[Len(s) + 1]
              /\ begin[Len(s) + 2] = start[Len(s) + 1] + FrameSize(f)
<1>0. PICK begin :
         begin = [i \in 1..(Len(s) + 2) |->
                     IF i <= Len(s) + 1 THEN start[i] ELSE start[Len(s) + 1] + FrameSize(f)]
  OBVIOUS
<1>. DEFINE t == Append(s, f)
            x == [frame |-> f, at |-> 1]
            q == Append(p, x)
<1>1. FrameSize(f) \in Nat \ {0} /\ Len(s) \in Nat /\ Len(p) \in Nat
  BY FrameSizeType
<1>2. /\ t \in Seq(Frame) /\ Len(t) = Len(s) + 1
      /\ t[Len(s) + 1] = f /\ \A i \in 1..Len(s) : t[i] = s[i]
  BY AppendProperties
<1>3. /\ q \in Seq(Cell) /\ Len(q) = Len(p) + 1
      /\ q[Len(p) + 1] = x /\ \A i \in 1..Len(p) : q[i] = p[i]
  <2>1. x \in Cell
    BY DEF Cell
  <2>. QED BY <2>1, AppendProperties
<1>. HIDE DEF t, x, q
<1>4. /\ \A i \in 1..(Len(s) + 1) : start[i] \in Nat /\ begin[i] = start[i]
      /\ begin[Len(s) + 2] = start[Len(s) + 1] + FrameSize(f)
      /\ begin \in [1..(Len(t) + 1) -> Nat]
  <2>1. \A i \in 1..(Len(s) + 1) : start[i] \in Nat
    BY DEF Layout
  <2>2. start[Len(s) + 1] + FrameSize(f) \in Nat
    BY <1>1, <2>1
  <2>3. Len(t) + 1 = Len(s) + 2 /\ Len(s) + 2 \in 1..(Len(s) + 2) /\ ~(Len(s) + 2 <= Len(s) + 1)
    BY <1>1, <1>2
  <2>4. \A i \in 1..(Len(s) + 1) : i \in 1..(Len(s) + 2) /\ i <= Len(s) + 1
    BY <1>1
  <2>5. \A i \in 1..(Len(s) + 2) : i <= Len(s) + 1 => i \in 1..(Len(s) + 1)
    BY <1>1
  <2>. QED BY <1>0, <2>1, <2>2, <2>3, <2>4, <2>5
<1>5. ASSUME NEW i \in 1..Len(t) PROVE begin[i + 1] = begin[i] + FrameSize(t[i])
  <2>1. CASE i \in 1..Len(s)
    <3>1. /\ i \in 1..(Len(s) + 1) /\ i + 1 \in 1..(Len(s) + 1)
          /\ start[i + 1] = start[i] + FrameSize(s[i])
      BY <1>1, <2>1 DEF Layout
    <3>. QED BY <1>2, <1>4, <2>1, <3>1
  <2>2. CASE i = Len(s) + 1
    <3>1. i + 1 = Len(s) + 2 /\ i \in 1..(Len(s) + 1)
      BY <1>1, <2>2
    <3>. QED BY <1>2, <1>4, <2>2, <3>1
  <2>. QED BY <1>1, <1>2, <2>1, <2>2
<1>6. ASSUME NEW i \in 1..(Len(t) + 1), NEW j \in 1..(Len(t) + 1), i <= j
      PROVE  begin[i] <= begin[j]
  <2>1. CASE j \in 1..(Len(s) + 1)
    <3>1. i \in 1..(Len(s) + 1)
      BY <1>1, <1>2, <1>6, <2>1
    <3>2. start[i] <= start[j]
      BY <1>6, <2>1, <3>1 DEF Layout
    <3>. QED BY <1>4, <2>1, <3>1, <3>2
  <2>2. CASE j = Len(s) + 2 /\ i \in 1..(Len(s) + 1)
    <3>1. Len(s) + 1 \in 1..(Len(s) + 1) /\ i <= Len(s) + 1
      BY <1>1, <2>2
    <3>2. start[i] <= start[Len(s) + 1] /\ start[i] \in Nat /\ start[Len(s) + 1] \in Nat
      BY <1>4, <2>2, <3>1 DEF Layout
    <3>. QED BY <1>1, <1>4, <2>2, <3>2
  <2>3. CASE j = Len(s) + 2 /\ i = Len(s) + 2
    <3>1. begin[j] \in Nat
      BY <1>4
    <3>. QED BY <2>3, <3>1
  <2>. QED BY <1>1, <1>2, <2>1, <2>2, <2>3
<1>7. Layout(begin, t)
  BY <1>4, <1>5, <1>6 DEF Layout
<1>8. /\ k + 1 \in 1..(Len(s) + 1) /\ Len(s) + 1 \in 1..(Len(s) + 1)
      /\ begin[k + 1] = start[k + 1] /\ start[k + 1] \in Nat
      /\ begin[Len(s) + 1] = start[Len(s) + 1] /\ start[Len(s) + 1] \in Nat
  <2>1. k + 1 \in 1..(Len(s) + 1) /\ Len(s) + 1 \in 1..(Len(s) + 1)
    BY <1>1 DEF Laid
  <2>. QED BY <1>4, <2>1
<1>9. /\ k <= Len(t) /\ begin[k + 1] + Len(q) <= begin[Len(t) + 1]
      /\ begin[Len(t)] < begin[k + 1] + Len(q)
  <2>1. k <= Len(s)
    BY DEF Laid
  <2>2. Len(t) + 1 = Len(s) + 2
    BY <1>1, <1>2
  <2>3. PICK u \in Nat : u = start[k + 1]
    BY <1>8
  <2>4. PICK v \in Nat : v = Len(p)
    BY <1>1
  <2>5. PICK y \in Nat \ {0} : y = FrameSize(f)
    BY <1>1
  <2>6. /\ begin[k + 1] = u /\ Len(q) = v + 1
        /\ begin[Len(t)] = u + v /\ begin[Len(t) + 1] = (u + v) + y
    BY <1>2, <1>3, <1>4, <1>8, <2>2, <2>3, <2>4, <2>5, Zenon
  <2>7. u + (v + 1) <= (u + v) + y /\ u + v < u + (v + 1)
    OBVIOUS
  <2>8. k <= Len(t)
    BY <1>1, <1>2, <2>1
  <2>. QED BY <2>6, <2>7, <2>8, Zenon
<1>10. ASSUME NEW j \in 1..Len(t), NEW i \in 1..Len(q), NEW a \in 1..FrameSize(t[j]),
              begin[k + 1] + i = begin[j] + a
       PROVE  q[i] = [frame |-> t[j], at |-> a]
  <2>1. FrameSize(t[j]) \in Nat /\ j \in 1..(Len(s) + 1) /\ begin[j] = start[j] /\ start[j] \in Nat
    <3>1. t[j] \in Frame
      BY <1>2
    <3>. QED BY <1>1, <1>2, <1>4, <3>1, FrameSizeType
  <2>2. CASE j \in 1..Len(s)
    <3>1. /\ t[j] = s[j] /\ start[j] + FrameSize(s[j]) <= start[Len(s) + 1]
      <4>1. j + 1 \in 1..(Len(s) + 1) /\ j + 1 <= Len(s) + 1
        BY <1>1, <2>2
      <4>2. start[j + 1] <= start[Len(s) + 1] /\ start[j + 1] = start[j] + FrameSize(s[j])
        BY <1>8, <2>2, <4>1 DEF Layout
      <4>. QED BY <1>2, <2>2, <4>2
    <3>2. i \in 1..Len(p)
      <4>1. i \in Nat /\ i >= 1 /\ a \in Nat /\ a <= FrameSize(s[j]) /\ FrameSize(s[j]) \in Nat
        BY <1>1, <1>3, <2>1, <3>1
      <4>2. start[k + 1] + i = start[j] + a
        BY <1>8, <1>10, <2>1
      <4>3. \A u, v, y, z \in Nat :
               y + z <= u + v /\ u + i = y + a /\ a <= z => i <= v
        BY <4>1
      <4>4. start[j] + FrameSize(s[j]) <= start[k + 1] + Len(p)
        BY <3>1
      <4>5. start[k + 1] \in Nat /\ Len(p) \in Nat /\ start[j] \in Nat
        BY <1>1, <1>8, <2>1
      <4>6. i <= Len(p)
        BY <4>1, <4>2, <4>3, <4>4, <4>5, Zenon
      <4>. QED BY <1>1, <4>1, <4>6
    <3>3. p[i] = [frame |-> s[j], at |-> a]
      <4>1. start[k + 1] + i = start[j] + a
        BY <1>8, <1>10, <2>1
      <4>2. a \in 1..FrameSize(s[j])
        BY <3>1
      <4>. QED BY <2>2, <3>2, <4>1, <4>2 DEF Laid
    <3>. QED BY <1>3, <3>1, <3>2, <3>3
  <2>3. CASE j = Len(s) + 1
    <3>1. i = Len(p) + 1 /\ a = 1
      <4>1. i \in Nat /\ i <= Len(p) + 1 /\ a \in Nat /\ a >= 1
        BY <1>1, <1>3, <2>1
      <4>2. start[k + 1] + i = (start[k + 1] + Len(p)) + a
        BY <1>8, <1>10, <2>1, <2>3
      <4>3. PICK u \in Nat : u = start[k + 1]
        BY <1>8
      <4>4. PICK v \in Nat : v = Len(p)
        BY <1>1
      <4>5. i = v + a
        <5>1. u + i = (u + v) + a
          BY <4>2, <4>3, <4>4, Zenon
        <5>. QED BY <4>1, <5>1
      <4>. QED BY <4>1, <4>4, <4>5
    <3>. QED BY <1>2, <1>3, <2>3, <3>1 DEF x
  <2>. QED BY <1>1, <1>2, <2>2, <2>3
<1>11. Laid(begin, t, k, q)
  BY <1>9, <1>10 DEF Laid
<1>. QED BY <1>4, <1>7, <1>8, <1>11 DEF t, q, x

\* Another cell of the last frame is written.
LEMMA LaidNext ==
    ASSUME NEW s \in Seq(Frame), NEW p \in Seq(Cell), NEW k \in Nat, NEW start,
           Layout(start, s), Laid(start, s, k, p), s # <<>>,
           NEW n \in Nat \ {0}, n < FrameSize(s[Len(s)]),
           start[k + 1] + Len(p) = start[Len(s)] + n
    PROVE  Laid(start, s, k, Append(p, [frame |-> s[Len(s)], at |-> n + 1]))
<1>. DEFINE f == s[Len(s)]
            x == [frame |-> f, at |-> n + 1]
            q == Append(p, x)
<1>1. f \in Frame /\ FrameSize(f) \in Nat \ {0} /\ Len(s) \in Nat \ {0} /\ Len(p) \in Nat
  BY FrameSizeType
<1>2. /\ q \in Seq(Cell) /\ Len(q) = Len(p) + 1
      /\ q[Len(p) + 1] = x /\ \A i \in 1..Len(p) : q[i] = p[i]
  <2>1. x \in Cell
    BY <1>1 DEF Cell
  <2>. QED BY <2>1, AppendProperties
<1>. HIDE DEF x, q
<1>3. /\ \A i \in 1..(Len(s) + 1) : start[i] \in Nat
      /\ start[Len(s) + 1] = start[Len(s)] + FrameSize(f)
      /\ k <= Len(s) /\ k + 1 \in 1..(Len(s) + 1) /\ Len(s) \in 1..(Len(s) + 1)
      /\ start[k + 1] \in Nat /\ start[Len(s)] \in Nat
  <2>1. \A i \in 1..(Len(s) + 1) : start[i] \in Nat
    BY DEF Layout
  <2>2. Len(s) \in 1..Len(s) /\ k <= Len(s) /\ k + 1 \in 1..(Len(s) + 1) /\ Len(s) \in 1..(Len(s) + 1)
    BY <1>1 DEF Laid
  <2>. QED BY <2>1, <2>2 DEF Layout
<1>4. /\ start[k + 1] + Len(q) <= start[Len(s) + 1]
      /\ start[Len(s)] < start[k + 1] + Len(q)
  <2>1. PICK u \in Nat : u = start[k + 1]
    BY <1>3
  <2>2. PICK v \in Nat : v = Len(p)
    BY <1>1
  <2>3. PICK y \in Nat : y = start[Len(s)]
    BY <1>3
  <2>4. PICK z \in Nat : z = FrameSize(f)
    BY <1>1
  <2>5. u + v = y + n /\ n < z
    BY <2>1, <2>2, <2>3, <2>4, Zenon
  <2>6. u + (v + 1) <= y + z /\ y < u + (v + 1)
    BY <2>5
  <2>. QED BY <1>2, <1>3, <2>1, <2>2, <2>3, <2>4, <2>6, Zenon
<1>5. ASSUME NEW j \in 1..Len(s), NEW i \in 1..Len(q), NEW a \in 1..FrameSize(s[j]),
             start[k + 1] + i = start[j] + a
      PROVE  q[i] = [frame |-> s[j], at |-> a]
  <2>1. CASE i \in 1..Len(p)
    <3>1. p[i] = [frame |-> s[j], at |-> a]
      BY <1>5, <2>1 DEF Laid
    <3>. QED BY <1>2, <2>1, <3>1
  <2>2. CASE i = Len(p) + 1
    <3>1. /\ start[j] \in Nat /\ FrameSize(s[j]) \in Nat /\ j \in 1..(Len(s) + 1)
          /\ a \in Nat /\ a <= FrameSize(s[j])
      <4>1. j \in 1..(Len(s) + 1) /\ s[j] \in Frame
        BY <1>1
      <4>2. FrameSize(s[j]) \in Nat
        BY <4>1, FrameSizeType
      <4>. QED BY <1>3, <4>1, <4>2
    <3>2. start[j] + a = start[Len(s)] + (n + 1)
      <4>1. start[k + 1] \in Nat /\ Len(p) \in Nat /\ start[Len(s)] \in Nat
        BY <1>1, <1>3
      <4>2. PICK u \in Nat : u = start[k + 1]
        BY <4>1
      <4>3. PICK v \in Nat : v = Len(p)
        BY <4>1
      <4>4. PICK y \in Nat : y = start[Len(s)]
        BY <4>1
      <4>5. u + (v + 1) = y + (n + 1)
        <5>1. u + v = y + n
          BY <4>2, <4>3, <4>4, Zenon
        <5>. QED BY <5>1
      <4>. QED BY <1>5, <2>2, <4>2, <4>3, <4>4, <4>5, Zenon
    <3>3. j = Len(s)
      <4>1. SUFFICES ASSUME j < Len(s) PROVE FALSE
        BY <1>1
      <4>2. j + 1 \in 1..(Len(s) + 1) /\ j + 1 <= Len(s)
        BY <1>1, <4>1
      <4>3. start[j + 1] <= start[Len(s)] /\ start[j + 1] = start[j] + FrameSize(s[j])
        BY <1>3, <4>2 DEF Layout
      <4>4. \A u, v, y \in Nat : ~(u + v <= y /\ u + a = y + (n + 1) /\ a <= v)
        BY <3>1
      <4>5. start[j] + FrameSize(s[j]) <= start[Len(s)] /\ start[Len(s)] \in Nat
        BY <1>3, <4>3
      <4>. QED BY <3>1, <3>2, <4>4, <4>5, Zenon
    <3>4. a = n + 1
      <4>1. PICK y \in Nat : y = start[Len(s)]
        BY <1>3
      <4>2. y + a = y + (n + 1)
        BY <3>2, <3>3, <4>1, Zenon
      <4>. QED BY <3>1, <4>2
    <3>. QED BY <1>2, <2>2, <3>3, <3>4 DEF x
  <2>. QED BY <1>1, <1>2, <2>1, <2>2
<1>6. Laid(start, s, k, q)
  BY <1>3, <1>4, <1>5 DEF Laid
<1>. QED BY <1>6 DEF q, x

-----------------------------------------------------------------------------
(* The threads that write *)

\* The descriptor number and the registry.
Placed ==
    /\ sock \notin closed /\ registered \subseteq {sock}
    /\ \A c \in gone : rpc[c] = "stopped"

\* A thread sends for the connection that has the number or for one that has lost
\* it, and unless it sends bare, it writes only while it holds the send_mutex.
Orderly(w) ==
    out[w] # NoSend =>
        /\ out[w].to \in closed \cup {sock}
        /\ out[w].stage = "wait" => out[w].done = 0 /\ ~out[w].bare
        /\ Writing(w) => out[w].done < FrameSize(out[w].frame)
        /\ Writing(w) /\ ~out[w].bare => send_mutex[out[w].to] = w

\* Two threads that write for a session at once have mixed its frames.
Alone(c) == ~mixed[c] => \A v, w \in WritersOf(c) : v = w

Ordered == Placed /\ (\A w \in Writer : Orderly(w)) /\ (\A c \in Conn : Alone(c))

\* At first nobody writes.
LEMMA OrderedInit == Init => Ordered
<1>. SUFFICES ASSUME Init PROVE Ordered
  OBVIOUS
<1>1. Placed
  BY DEF Init, Placed
<1>2. ASSUME NEW w \in Writer PROVE Orderly(w) /\ ~Writing(w)
  BY DEF Init, Orderly, Writing, NoSend
<1>. QED BY <1>1, <1>2 DEF Ordered, Alone, WritersOf

\* A step that is not of the threads that write.
LEMMA OrderedConnection ==
    ASSUME TypeOK, Ordered, NEW c \in Conn,
           Accept(c) \/ Register(c) \/ Close(c) \/ Leave(c) \/ ReaderStep(c)
    PROVE  Ordered'
<1>1. UNCHANGED <<out, send_mutex, mixed>>
  BY DEF Accept, Register, Close, Leave, ReaderStep, Receive, Refuse, EndOfStream, writers
<1>2. \A w \in Writer : Writing(w)' = Writing(w)
  BY <1>1 DEF Writing
<1>3. \A d \in Conn : Alone(d)'
  BY <1>1, <1>2 DEF Ordered, Alone, WritersOf
<1>4. Placed /\ sock' \notin closed'
  BY ConstantsOK DEF Ordered, Placed, TypeOK, Accept, Register, Close, Leave, ReaderStep, Receive,
     Refuse, EndOfStream, kernel
<1>5. registered' \subseteq {sock'}
  BY <1>4, ConstantsOK DEF Placed, TypeOK, Accept, Register, Close, Leave, ReaderStep, Receive,
     Refuse, EndOfStream, kernel, writers
<1>6. ASSUME NEW d \in gone' PROVE rpc'[d] = "stopped"
  <2>1. CASE Accept(c) \/ Register(c) \/ Close(c) \/ Receive(c)
    BY <1>4, <1>6, <2>1 DEF Placed, Accept, Register, Close, Receive, kernel
  <2>2. CASE Leave(c)
    BY <1>4, <1>6, <2>2 DEF Placed, Leave, StopReading, TypeOK
  <2>3. CASE Refuse(c)
    BY <1>4, <1>6, <2>3 DEF Placed, Refuse, StopReading, TypeOK, kernel
  <2>4. CASE EndOfStream(c)
    BY <1>4, <1>6, <2>4 DEF Placed, EndOfStream, StopReading, TypeOK, kernel
  <2>. QED BY <2>1, <2>2, <2>3, <2>4 DEF ReaderStep
<1>7. ASSUME NEW w \in Writer PROVE Orderly(w)'
  <2>1. out[w] # NoSend => out[w].to \in closed' \cup {sock'}
    <3>1. Orderly(w)
      BY DEF Ordered
    <3>2. out[w] # NoSend => out[w].to \in Conn
      BY SendingType DEF Sending
    <3>. QED BY <3>1, <3>2, ConstantsOK DEF Orderly, Accept, Register, Close, Leave, ReaderStep,
            Receive, Refuse, EndOfStream, kernel
  <2>. QED BY <1>1, <1>2, <2>1 DEF Ordered, Orderly
<1>. QED BY <1>3, <1>4, <1>5, <1>6, <1>7 DEF Ordered, Placed

\* What a step of thread w leaves alone.
LEMMA OthersKept ==
    ASSUME TypeOK, Ordered, NEW w \in Writer, NEW x, out' = [out EXCEPT ![w] = x],
           UNCHANGED <<kernel, registered, rpc>>,
           \A v \in Writer : v # w /\ Writing(v) /\ ~out[v].bare
                               => send_mutex'[out[v].to] = send_mutex[out[v].to],
           Orderly(w)', \A c \in Conn : Alone(c)'
    PROVE  Ordered'
<1>1. Placed'
  BY DEF Ordered, Placed, kernel
<1>2. ASSUME NEW v \in Writer, v # w PROVE Orderly(v)'
  <2>1. out'[v] = out[v] /\ Writing(v)' = Writing(v)
    BY <1>2 DEF TypeOK, Writing
  <2>2. Orderly(v)
    BY DEF Ordered
  <2>. QED BY <1>2, <2>1, <2>2 DEF Orderly, kernel
<1>. QED BY <1>1, <1>2 DEF Ordered

\* Setting out to send.
LEMMA OrderedBegin ==
    ASSUME TypeOK, Ordered, NEW w \in Writer, NEW c \in Conn, NEW l \in Lengths[w],
           SendLocked(w, c, l) \/ (w = c /\ SendBare(c, l))
    PROVE  Ordered'
<1>1. PICK stage \in {"wait", "write"}, bare \in BOOLEAN :
         /\ Begin(w, c, l, stage, bare) /\ (stage = "wait" <=> ~bare)
         /\ mixed' = IF bare THEN [mixed EXCEPT ![c] = @ \/ WritersOf(c) # {}] ELSE mixed
  BY DEF SendLocked, SendBare
<1>2. /\ out' = [out EXCEPT ![w] = out'[w]] /\ out'[w] \in Sending
      /\ out'[w].stage = stage /\ out'[w].to = c /\ out'[w].done = 0 /\ out'[w].bare = bare
      /\ UNCHANGED <<kernel, registered, send_mutex, rpc>>
  BY <1>1, BeginType
<1>3. c = sock
  BY DEF SendLocked, SendBare, Ordered, Placed
<1>4. Orderly(w)'
  <2>1. FrameSize(out'[w].frame) \in Nat \ {0}
    BY <1>2, FrameSizeType DEF Sending
  <2>. QED BY <1>1, <1>2, <1>3, <2>1 DEF Orderly, Writing, kernel
<1>5. ASSUME NEW d \in Conn PROVE Alone(d)'
  <2>1. \A v \in Writer : v # w => out'[v] = out[v]
    BY <1>2 DEF TypeOK
  <2>2. CASE ~bare \/ d # c
    <3>1. WritersOf(d)' \subseteq WritersOf(d) /\ mixed'[d] = mixed[d]
      BY <1>1, <1>2, <2>1, <2>2 DEF WritersOf, Writing, TypeOK
    <3>. QED BY <3>1 DEF Alone, Ordered
  <2>3. CASE bare /\ d = c
    <3>1. mixed'[d] = (mixed[d] \/ WritersOf(d) # {})
      BY <1>1, <2>3 DEF TypeOK
    <3>2. WritersOf(d)' \subseteq WritersOf(d) \cup {w}
      BY <2>1 DEF WritersOf, Writing
    <3>. QED BY <3>1, <3>2 DEF Alone
  <2>. QED BY <2>2, <2>3
<1>. QED BY <1>2, <1>4, <1>5, OthersKept

\* Writing.
LEMMA OrderedWriter ==
    ASSUME TypeOK, Ordered, NEW w \in Writer, WriterStep(w)
    PROVE  Ordered'
<1>. DEFINE c == out[w].to
<1>1. /\ out[w] \in Sending /\ out[w] # NoSend /\ c \in Conn /\ Orderly(w)
      /\ out[w].frame \in Frame /\ out[w].done \in Nat /\ out[w].bare \in BOOLEAN
  BY StageType DEF WriterStep, Lock, WriteCell, WriteFails, Writing, Ordered
<1>2. UNCHANGED <<kernel, registered, rpc>>
  BY DEF WriterStep, Lock, WriteCell, WriteFails
<1>3. CASE Lock(w)
  <2>. DEFINE x == [out[w] EXCEPT !.stage = "write"]
  <2>1. /\ out' = [out EXCEPT ![w] = x]
        /\ x.stage = "write" /\ x.to = c /\ x.frame = out[w].frame /\ x.done = 0 /\ ~x.bare
        /\ x \in Sending
    BY <1>1, <1>3 DEF Lock, Orderly, Sending
  <2>. HIDE DEF x
  <2>2. /\ send_mutex[c] = Nobody /\ send_mutex' = [send_mutex EXCEPT ![c] = w]
        /\ mixed' = [mixed EXCEPT ![c] = @ \/ \E v \in WritersOf(c) : out[v].bare]
    BY <1>3 DEF Lock, MutexFree
  <2>3. out'[w] = x /\ \A v \in Writer : v # w => out'[v] = out[v]
    BY <2>1 DEF TypeOK
  <2>4. \A v \in WritersOf(c) : out[v].bare
    <3>1. SUFFICES ASSUME NEW v \in WritersOf(c), ~out[v].bare PROVE FALSE
      OBVIOUS
    <3>2. v \in Writer /\ Writing(v) /\ out[v].to = c /\ out[v] # NoSend
      BY <3>1 DEF WritersOf, Writing, NoSend
    <3>3. send_mutex[c] = v
      BY <3>1, <3>2 DEF Ordered, Orderly
    <3>. QED BY <2>2, <3>2, <3>3, ConstantsOK
  <2>5. ASSUME NEW v \in Writer, v # w, Writing(v), ~out[v].bare
        PROVE  send_mutex'[out[v].to] = send_mutex[out[v].to]
    <3>1. out[v].to # c
      BY <2>4, <2>5 DEF WritersOf
    <3>2. out[v].to \in Conn
      BY <2>5, StageType DEF Writing
    <3>. QED BY <2>2, <3>1, <3>2 DEF TypeOK
  <2>6. Orderly(w)'
    <3>1. FrameSize(out[w].frame) \in Nat \ {0} /\ send_mutex'[c] = w
      BY <1>1, <2>2, FrameSizeType DEF TypeOK
    <3>. QED BY <1>1, <1>2, <2>1, <2>3, <3>1 DEF Orderly, Writing, kernel
  <2>7. ASSUME NEW d \in Conn PROVE Alone(d)'
    <3>1. CASE d # c
      <4>1. WritersOf(d)' \subseteq WritersOf(d) /\ mixed'[d] = mixed[d]
        BY <2>1, <2>2, <2>3, <3>1 DEF WritersOf, Writing, TypeOK
      <4>. QED BY <4>1 DEF Alone, Ordered
    <3>2. CASE d = c
      <4>1. mixed'[d] = (mixed[d] \/ \E v \in WritersOf(d) : out[v].bare)
        BY <2>2, <3>2 DEF TypeOK
      <4>2. WritersOf(d)' \subseteq WritersOf(d) \cup {w}
        BY <2>3 DEF WritersOf, Writing
      <4>. QED BY <2>4, <3>2, <4>1, <4>2 DEF Alone
    <3>. QED BY <3>1, <3>2
  <2>. QED BY <1>2, <2>1, <2>5, <2>6, <2>7, OthersKept
<1>4. ASSUME Writing(w), Finish(w), \A d \in Conn : mixed[d] => mixed'[d]
      PROVE  Ordered'
  <2>1. /\ out' = [out EXCEPT ![w] = NoSend]
        /\ out'[w] = NoSend /\ \A v \in Writer : v # w => out'[v] = out[v]
    BY <1>4 DEF Finish, TypeOK
  <2>2. ASSUME NEW v \in Writer, v # w, Writing(v), ~out[v].bare
        PROVE  send_mutex'[out[v].to] = send_mutex[out[v].to]
    <3>1. CASE out[w].bare
      BY <1>4, <3>1 DEF Finish
    <3>2. CASE ~out[w].bare
      <4>1. send_mutex[c] = w
        BY <1>1, <1>4, <3>2 DEF Orderly
      <4>2. out[v] # NoSend /\ out[v].to \in Conn /\ Orderly(v)
        BY <2>2, StageType DEF Writing, Ordered
      <4>3. send_mutex[out[v].to] = v
        BY <2>2, <4>2 DEF Orderly
      <4>. QED BY <1>4, <2>2, <3>2, <4>1, <4>2, <4>3 DEF Finish, TypeOK
    <3>. QED BY <1>1, <3>1, <3>2
  <2>3. Orderly(w)'
    BY <2>1 DEF Orderly
  <2>4. ASSUME NEW d \in Conn PROVE Alone(d)'
    <3>1. WritersOf(d)' \subseteq WritersOf(d)
      BY <2>1 DEF WritersOf, Writing, NoSend
    <3>. QED BY <1>4, <3>1 DEF Alone, Ordered
  <2>. QED BY <1>2, <2>1, <2>2, <2>3, <2>4, OthersKept
<1>5. CASE WriteCell(w)
  <2>1. Writing(w) /\ sock \in Conn
    BY <1>5 DEF WriteCell, TypeOK
  <2>2. \A d \in Conn : mixed[d] => mixed'[d]
    BY <1>5, <2>1 DEF WriteCell, TypeOK
  <2>3. CASE Finish(w)
    BY <1>4, <2>1, <2>2, <2>3
  <2>4. CASE /\ out[w].done + 1 # FrameSize(out[w].frame)
             /\ out' = [out EXCEPT ![w].done = out[w].done + 1] /\ UNCHANGED send_mutex
    <3>. DEFINE x == [out[w] EXCEPT !.done = out[w].done + 1]
    <3>1. /\ out' = [out EXCEPT ![w] = x]
          /\ x.stage = out[w].stage /\ x.to = c /\ x.frame = out[w].frame
          /\ x.done = out[w].done + 1 /\ x.bare = out[w].bare
      BY <1>1, <2>4 DEF Sending
    <3>. HIDE DEF x
    <3>2. out'[w] = x /\ \A v \in Writer : v # w => out'[v] = out[v]
      BY <3>1 DEF TypeOK
    <3>3. out[w].done + 1 < FrameSize(out[w].frame)
      <4>1. FrameSize(out[w].frame) \in Nat /\ out[w].done < FrameSize(out[w].frame)
        BY <1>1, <2>1, FrameSizeType DEF Orderly
      <4>. QED BY <1>1, <2>4, <4>1
    <3>4. Orderly(w)'
      BY <1>1, <1>2, <2>1, <2>4, <3>1, <3>2, <3>3 DEF Orderly, Writing, kernel
    <3>5. ASSUME NEW d \in Conn PROVE Alone(d)'
      <4>1. WritersOf(d)' \subseteq WritersOf(d)
        BY <3>1, <3>2 DEF WritersOf, Writing
      <4>. QED BY <2>2, <4>1 DEF Alone, Ordered
    <3>. QED BY <1>2, <2>4, <3>1, <3>4, <3>5, OthersKept
  <2>. QED BY <1>5, <2>3, <2>4 DEF WriteCell
<1>6. CASE WriteFails(w)
  BY <1>4, <1>6 DEF WriteFails
<1>. QED BY <1>3, <1>5, <1>6 DEF WriterStep

\* All steps together.
LEMMA OrderedNext == TypeOK /\ Ordered /\ [Next]_vars => Ordered'
<1>1. Ordered /\ UNCHANGED vars => Ordered'
  BY DEF Ordered, Placed, Orderly, Alone, WritersOf, Writing, vars, kernel, writers
<1>2. Conn \subseteq Writer
  BY DEF Writer
<1>. QED BY <1>1, <1>2, OrderedConnection, OrderedBegin, OrderedWriter DEF Next

-----------------------------------------------------------------------------
(* The frames of a connection *)

\* What was received is what was sent first, and no longer than allowed; what is
\* refused is longer.
Prefix(c) ==
    /\ Len(got[c]) <= Len(sent[c])
    /\ \A i \in 1..Len(got[c]) : got[c][i] = sent[c][i] /\ sent[c][i].len <= Limit
    /\ rpc[c] = "refused" => /\ Len(got[c]) < Len(sent[c])
                             /\ sent[c][Len(got[c]) + 1].len > Limit

\* The cells end with the last frame that was begun or as far in it as its thread
\* has come.
Ends(start, c) ==
    /\ \A w \in WritersOf(c) : out[w].done > 0 =>
          /\ sent[c] # <<>> /\ sent[c][Len(sent[c])] = out[w].frame
          /\ start[Len(got[c]) + 1] + Len(pipe[c]) = start[Len(sent[c])] + out[w].done
    /\ (\A w \in WritersOf(c) : out[w].done = 0) =>
          start[Len(got[c]) + 1] + Len(pipe[c]) = start[Len(sent[c]) + 1]

Written(start, c) ==
    /\ Layout(start, sent[c]) /\ Laid(start, sent[c], Len(got[c]), pipe[c])
    /\ c \notin closed => Ends(start, c)

Streamed(c) ==
    ~mixed[c] => Prefix(c) /\ (rpc[c] = "recv" => \E start : Written(start, c))

\* At first every connection is empty.
LEMMA StreamedInit == Init => \A c \in Conn : Streamed(c)
<1>. SUFFICES ASSUME Init, NEW c \in Conn PROVE Streamed(c)
  OBVIOUS
<1>1. sent[c] = <<>> /\ got[c] = <<>> /\ pipe[c] = <<>> /\ rpc[c] = "recv"
  BY DEF Init
<1>2. Len(sent[c]) = 0 /\ Len(got[c]) = 0 /\ Len(pipe[c]) = 0
  BY <1>1
<1>. DEFINE start == [i \in 1..1 |-> 0]
<1>3. start \in [1..1 -> Nat] /\ start[1] = 0 /\ \A i \in 1..1 : i = 1
  OBVIOUS
<1>. HIDE DEF start
<1>4. Layout(start, sent[c])
  BY <1>2, <1>3 DEF Layout
<1>5. Laid(start, sent[c], Len(got[c]), pipe[c])
  BY <1>1, <1>2, <1>3 DEF Laid
<1>6. WritersOf(c) = {}
  BY DEF Init, WritersOf, Writing, NoSend
<1>7. Ends(start, c)
  BY <1>2, <1>3, <1>6 DEF Ends
<1>8. Prefix(c)
  BY <1>1, <1>2 DEF Prefix
<1>. QED BY <1>4, <1>5, <1>7, <1>8 DEF Streamed, Written

\* What leaves a connection's frames alone, and the threads that are in the middle
\* of one.
LEMMA StreamedKept ==
    ASSUME NEW c \in Conn, Streamed(c), mixed[c] => mixed'[c],
           sent'[c] = sent[c], got'[c] = got[c],
           \/ rpc'[c] = rpc[c] /\ pipe'[c] = pipe[c]
           \/ rpc'[c] = "stopped",
           c \notin closed' /\ rpc'[c] = "recv" /\ ~mixed'[c] =>
               /\ c \notin closed
               /\ \A w \in WritersOf(c)' : out'[w].done > 0 =>
                     w \in WritersOf(c) /\ out'[w] = out[w]
               /\ \A w \in WritersOf(c) : out[w].done # 0 =>
                     w \in WritersOf(c)' /\ out'[w] = out[w]
    PROVE  Streamed(c)'
<1>. SUFFICES ASSUME ~mixed'[c] PROVE Prefix(c)' /\ (rpc'[c] = "recv" => \E start : Written(start, c)')
  BY DEF Streamed
<1>1. Prefix(c) /\ (rpc[c] = "recv" => \E start : Written(start, c))
  BY DEF Streamed
<1>2. Prefix(c)'
  BY <1>1 DEF Prefix
<1>3. ASSUME rpc'[c] = "recv" PROVE \E start : Written(start, c)'
  <2>1. rpc[c] = "recv" /\ pipe'[c] = pipe[c]
    BY <1>3
  <2>2. PICK start : Written(start, c)
    BY <1>1, <2>1
  <2>3. ASSUME c \notin closed' PROVE Ends(start, c)'
    <3>1. Ends(start, c)
      BY <1>3, <2>2, <2>3 DEF Written
    <3>2. \A w \in WritersOf(c)' : out'[w].done > 0 => w \in WritersOf(c) /\ out'[w] = out[w]
      BY <1>3, <2>3
    <3>3. (\A w \in WritersOf(c)' : out'[w].done = 0) => \A w \in WritersOf(c) : out[w].done = 0
      BY <1>3, <2>3
    <3>. QED BY <2>1, <3>1, <3>2, <3>3 DEF Ends
  <2>4. Written(start, c)'
    BY <2>1, <2>2, <2>3 DEF Written
  <2>. QED BY <2>4
<1>. QED BY <1>2, <1>3

\* A connection's beginning and end.
LEMMA StreamedConnection ==
    ASSUME TypeOK, NEW c \in Conn, Accept(c) \/ Register(c) \/ Close(c) \/ Leave(c) \/ EndOfStream(c),
           NEW d \in Conn, Streamed(d)
    PROVE  Streamed(d)'
<1>1. UNCHANGED <<out, sent, got, mixed>> /\ closed \subseteq closed'
  BY DEF Accept, Register, Close, Leave, EndOfStream, kernel, writers
<1>2. \/ rpc'[d] = rpc[d] /\ pipe'[d] = pipe[d]
      \/ rpc'[d] = "stopped"
  BY DEF Accept, Register, Close, Leave, EndOfStream, StopReading, TypeOK
<1>3. WritersOf(d)' = WritersOf(d)
  BY <1>1 DEF WritersOf, Writing
<1>. QED BY <1>1, <1>2, <1>3, StreamedKept

\* Setting out to send.
LEMMA StreamedBegin ==
    ASSUME TypeOK, NEW w \in Writer, NEW c \in Conn, NEW l \in Lengths[w],
           SendLocked(w, c, l) \/ (w = c /\ SendBare(c, l)),
           NEW d \in Conn, Streamed(d)
    PROVE  Streamed(d)'
<1>1. PICK stage \in {"wait", "write"}, bare \in BOOLEAN : Begin(w, c, l, stage, bare)
  BY DEF SendLocked, SendBare
<1>2. out' = [out EXCEPT ![w] = out'[w]] /\ out'[w].done = 0
      /\ UNCHANGED <<kernel, pipe, rpc, sent, got>>
  BY <1>1, BeginType
<1>3. mixed[d] => mixed'[d]
  BY DEF SendLocked, SendBare, TypeOK
<1>4. \A v \in Writer : v # w => out'[v] = out[v]
  BY <1>2 DEF TypeOK
<1>5. w \notin WritersOf(d)
  BY <1>1 DEF Begin, WritersOf, Writing, NoSend
<1>6. ASSUME NEW v \in WritersOf(d)', out'[v].done > 0 PROVE v \in WritersOf(d) /\ out'[v] = out[v]
  BY <1>2, <1>4, <1>6 DEF WritersOf, Writing
<1>7. ASSUME NEW v \in WritersOf(d) PROVE v \in WritersOf(d)' /\ out'[v] = out[v]
  BY <1>4, <1>5 DEF WritersOf, Writing
<1>. QED BY <1>2, <1>3, <1>6, <1>7, StreamedKept DEF kernel

\* Taking the mutex.
LEMMA StreamedLock ==
    ASSUME TypeOK, Ordered, NEW w \in Writer, Lock(w), NEW d \in Conn, Streamed(d)
    PROVE  Streamed(d)'
<1>1. UNCHANGED <<kernel, pipe, rpc, sent, got>>
  BY DEF Lock
<1>2. out[w] \in Sending /\ out[w].done = 0 /\ out[w].to \in Conn
  BY StageType DEF Lock, Ordered, Orderly
<1>3. mixed[d] => mixed'[d]
  BY <1>2 DEF Lock, TypeOK
<1>4. out'[w].done = 0 /\ \A v \in Writer : v # w => out'[v] = out[v]
  BY <1>2 DEF Lock, TypeOK, Sending
<1>5. w \notin WritersOf(d)
  BY DEF Lock, WritersOf, Writing
<1>6. ASSUME NEW v \in WritersOf(d)', out'[v].done > 0 PROVE v \in WritersOf(d) /\ out'[v] = out[v]
  BY <1>4, <1>6 DEF WritersOf, Writing
<1>7. ASSUME NEW v \in WritersOf(d) PROVE v \in WritersOf(d)' /\ out'[v] = out[v]
  BY <1>4, <1>5 DEF WritersOf, Writing
<1>. QED BY <1>1, <1>3, <1>6, <1>7, StreamedKept DEF kernel

\* A frame is given up: nobody reads what was written of it.
LEMMA StreamedFails ==
    ASSUME TypeOK, Ordered, NEW w \in Writer, WriteFails(w), NEW d \in Conn, Streamed(d)
    PROVE  Streamed(d)'
<1>1. UNCHANGED <<kernel, pipe, rpc, sent, got, mixed>>
  BY DEF WriteFails
<1>2. \A v \in Writer : v # w => out'[v] = out[v]
  BY DEF WriteFails, Finish, TypeOK
<1>3. out'[w] = NoSend /\ w \notin WritersOf(d)'
  BY DEF WriteFails, Finish, TypeOK, WritersOf, Writing, NoSend
<1>4. ASSUME d \notin closed, rpc[d] = "recv" PROVE w \notin WritersOf(d)
  <2>1. SUFFICES ASSUME out[w].to = d PROVE FALSE
    BY DEF WritersOf
  <2>2. out[w] # NoSend
    BY StageType DEF WriteFails, Writing
  <2>3. sock = d /\ d # NoConn
    BY <1>4, <2>1, <2>2, ConstantsOK DEF Ordered, Orderly
  <2>. QED BY <1>4, <2>3 DEF WriteFails, Ordered, Placed
<1>5. ASSUME d \notin closed, rpc[d] = "recv"
      PROVE  /\ \A v \in WritersOf(d)' : v \in WritersOf(d) /\ out'[v] = out[v]
             /\ \A v \in WritersOf(d) : v \in WritersOf(d)' /\ out'[v] = out[v]
  <2>1. w \notin WritersOf(d)
    BY <1>4, <1>5
  <2>. QED BY <1>2, <1>3, <2>1 DEF WritersOf, Writing
<1>. QED BY <1>1, <1>5, StreamedKept DEF kernel

\* Writing, as another connection sees it.
LEMMA StreamedElsewhere ==
    ASSUME TypeOK, Ordered, NEW w \in Writer, WriteCell(w), NEW d \in Conn, d # sock, Streamed(d)
    PROVE  Streamed(d)'
<1>1. UNCHANGED <<kernel, rpc, got>> /\ sock \in Conn
  BY DEF WriteCell, TypeOK
<1>2. pipe'[d] = pipe[d] /\ sent'[d] = sent[d] /\ mixed'[d] = mixed[d]
  BY <1>1 DEF WriteCell, TypeOK
<1>3. out[w] \in Sending /\ out[w] # NoSend
  BY StageType DEF WriteCell, Writing
<1>4. /\ \A v \in Writer : v # w => out'[v] = out[v]
      /\ out'[w] = NoSend \/ out'[w].to = out[w].to
  BY <1>3 DEF WriteCell, Finish, TypeOK, Sending
<1>5. ASSUME d \notin closed PROVE w \notin WritersOf(d) /\ w \notin WritersOf(d)'
  <2>1. out[w].to # d
    BY <1>3, <1>5 DEF Ordered, Orderly
  <2>. QED BY <1>4, <2>1 DEF WritersOf, Writing, NoSend
<1>6. ASSUME d \notin closed
      PROVE  /\ \A v \in WritersOf(d)' : v \in WritersOf(d) /\ out'[v] = out[v]
             /\ \A v \in WritersOf(d) : v \in WritersOf(d)' /\ out'[v] = out[v]
  BY <1>4, <1>5, <1>6 DEF WritersOf, Writing
<1>. QED BY <1>1, <1>2, <1>6, StreamedKept DEF kernel

\* Writing, as the connection sees it that has the number: another frame's first
\* cell, when the frame before is complete, or the next cell of the last frame.
LEMMA StreamedHere ==
    ASSUME TypeOK, Ordered, NEW w \in Writer, WriteCell(w), NEW c \in Conn, c = sock, Streamed(c)
    PROVE  Streamed(c)'
<1>. SUFFICES ASSUME ~mixed'[c] PROVE Prefix(c)' /\ (rpc'[c] = "recv" => \E start : Written(start, c)')
  BY DEF Streamed
<1>. DEFINE f == out[w].frame
            n == out[w].done
            s == sent[c]
            p == pipe[c]
            k == Len(got[c])
<1>1. /\ out[w] \in Sending /\ out[w] # NoSend /\ Writing(w)
      /\ f \in Frame /\ n \in Nat /\ n < FrameSize(f) /\ FrameSize(f) \in Nat \ {0}
  <2>1. out[w] \in Sending /\ out[w] # NoSend /\ Writing(w) /\ f \in Frame /\ n \in Nat
    BY StageType DEF WriteCell, Writing
  <2>. QED BY <2>1, FrameSizeType DEF Ordered, Orderly
<1>2. s \in Seq(Frame) /\ p \in Seq(Cell) /\ k \in Nat /\ Len(s) \in Nat /\ Len(p) \in Nat
  BY DEF TypeOK
<1>3. ~mixed[c] /\ out[w].to = c
  BY DEF WriteCell, TypeOK
<1>4. /\ UNCHANGED <<closed, rpc, got>> /\ c \notin closed
      /\ pipe'[c] = Append(p, [frame |-> f, at |-> n + 1])
      /\ sent'[c] = IF n = 0 THEN Append(s, f) ELSE s
  BY <1>1 DEF WriteCell, TypeOK, kernel, Ordered, Placed
<1>5. Prefix(c) /\ (rpc[c] = "recv" => \E start : Written(start, c))
  BY <1>3 DEF Streamed
<1>6. w \in WritersOf(c) /\ \A v \in WritersOf(c) : v = w
  <2>1. w \in WritersOf(c)
    BY <1>1, <1>3 DEF WritersOf
  <2>. QED BY <1>3, <2>1 DEF Ordered, Alone
<1>7. /\ \A v \in WritersOf(c)' : v = w /\ out'[w].done = n + 1 /\ out'[w].frame = f
      /\ IF n + 1 = FrameSize(f) THEN WritersOf(c)' = {} ELSE w \in WritersOf(c)'
  <2>1. \A v \in Writer : v # w => out'[v] = out[v]
    BY DEF WriteCell, Finish, TypeOK
  <2>2. \A v \in WritersOf(c)' : v = w
    BY <1>6, <2>1 DEF WritersOf, Writing
  <2>3. CASE n + 1 = FrameSize(f)
    <3>1. out'[w] = NoSend
      BY <2>3 DEF WriteCell, Finish, TypeOK
    <3>. QED BY <2>2, <2>3, <3>1 DEF WritersOf, Writing, NoSend
  <2>4. CASE n + 1 # FrameSize(f)
    <3>1. out'[w] = [out[w] EXCEPT !.done = n + 1]
      BY <2>4 DEF WriteCell, TypeOK
    <3>2. /\ out'[w].stage = out[w].stage /\ out'[w].to = c
          /\ out'[w].done = n + 1 /\ out'[w].frame = f
      BY <1>1, <1>3, <3>1 DEF Sending
    <3>3. w \in WritersOf(c)'
      BY <1>1, <3>2 DEF WritersOf, Writing
    <3>. QED BY <2>2, <2>4, <3>2, <3>3
  <2>. QED BY <2>3, <2>4
<1>8. Prefix(c)'
  <2>1. Len(sent'[c]) >= Len(s) /\ \A i \in 1..Len(s) : sent'[c][i] = s[i]
    BY <1>1, <1>2, <1>4, AppendProperties
  <2>2. Len(sent'[c]) \in Nat
    BY <1>1, <1>2, <1>4, AppendProperties
  <2>3. k <= Len(s) /\ got'[c] = got[c] /\ rpc'[c] = rpc[c]
    BY <1>4, <1>5 DEF Prefix
  <2>4. \A i \in 1..k : i \in 1..Len(s)
    BY <1>2, <2>3
  <2>5. rpc[c] = "refused" => k + 1 \in 1..Len(s)
    BY <1>2, <1>5 DEF Prefix
  <2>6. k <= Len(sent'[c])
    BY <1>2, <2>1, <2>2, <2>3
  <2>7. \A i \in 1..k : got'[c][i] = sent'[c][i] /\ sent'[c][i].len <= Limit
    BY <1>5, <2>1, <2>3, <2>4 DEF Prefix
  <2>8. rpc[c] = "refused" => k < Len(sent'[c]) /\ sent'[c][k + 1].len > Limit
    BY <1>2, <1>5, <2>1, <2>2, <2>5 DEF Prefix
  <2>. QED BY <2>3, <2>6, <2>7, <2>8 DEF Prefix
<1>9. ASSUME NEW start, Layout(start, sent'[c]), Laid(start, sent'[c], k, pipe'[c]),
             sent'[c] # <<>>, sent'[c][Len(sent'[c])] = f,
             start[k + 1] + Len(pipe'[c]) = start[Len(sent'[c])] + (n + 1),
             start[Len(sent'[c]) + 1] = start[Len(sent'[c])] + FrameSize(f)
      PROVE  Written(start, c)'
  <2>1. \A v \in WritersOf(c)' : out'[v].done = n + 1 /\ out'[v].frame = f
    BY <1>7
  <2>2. (\A v \in WritersOf(c)' : out'[v].done = 0) => n + 1 = FrameSize(f)
    <3>1. n + 1 # 0
      BY <1>1
    <3>. QED BY <1>7, <3>1
  <2>3. Ends(start, c)'
    BY <1>4, <1>9, <2>1, <2>2 DEF Ends
  <2>. QED BY <1>4, <1>9, <2>3 DEF Written
<1>10. ASSUME rpc'[c] = "recv" PROVE \E start : Written(start, c)'
  <2>1. PICK start : Written(start, c)
    BY <1>4, <1>5, <1>10
  <2>2. Layout(start, s) /\ Laid(start, s, k, p) /\ Ends(start, c)
    BY <1>4, <2>1 DEF Written
  <2>3. Len(pipe'[c]) = Len(p) + 1
    <3>1. [frame |-> f, at |-> n + 1] \in Cell
      BY <1>1 DEF Cell
    <3>. QED BY <1>2, <1>4, <3>1, AppendProperties
  <2>4. CASE n = 0
    <3>1. start[k + 1] + Len(p) = start[Len(s) + 1]
      BY <1>6, <2>2, <2>4 DEF Ends
    <3>2. PICK begin :
          /\ Layout(begin, Append(s, f))
          /\ Laid(begin, Append(s, f), k, Append(p, [frame |-> f, at |-> 1]))
          /\ begin[k + 1] = start[k + 1] /\ begin[Len(s) + 1] = start[Len(s) + 1]
          /\ begin[Len(s) + 2] = start[Len(s) + 1] + FrameSize(f)
      <4>. HIDE DEF f, n, s, p, k
      <4>. QED BY <1>1, <1>2, <2>2, <3>1, LaidFirst
    <3>3. /\ sent'[c] = Append(s, f) /\ Len(sent'[c]) = Len(s) + 1 /\ sent'[c] # <<>>
          /\ sent'[c][Len(s) + 1] = f
      <4>1. sent'[c] = Append(s, f)
        BY <1>4, <2>4
      <4>. QED BY <1>1, <1>2, <4>1, AppendProperties
    <3>4. pipe'[c] = Append(p, [frame |-> f, at |-> 1])
      BY <1>4, <2>4
    <3>5. start[k + 1] \in Nat
      <4>1. k + 1 \in 1..(Len(s) + 1)
        BY <1>2, <2>2 DEF Laid
      <4>. QED BY <2>2, <4>1 DEF Layout
    <3>6. begin[k + 1] + Len(pipe'[c]) = begin[Len(sent'[c])] + (n + 1)
      BY <1>2, <2>3, <2>4, <3>1, <3>2, <3>3, <3>5
    <3>7. begin[Len(sent'[c]) + 1] = begin[Len(sent'[c])] + FrameSize(f)
      <4>1. Len(sent'[c]) + 1 = Len(s) + 2
        BY <1>2, <3>3
      <4>. QED BY <3>2, <3>3, <4>1
    <3>8. Written(begin, c)'
      <4>1. Layout(begin, sent'[c]) /\ Laid(begin, sent'[c], k, pipe'[c])
        BY <3>2, <3>3, <3>4
      <4>2. sent'[c] # <<>> /\ sent'[c][Len(sent'[c])] = f
        BY <3>3
      <4>. QED BY <1>9, <3>6, <3>7, <4>1, <4>2, Zenon
    <3>. QED BY <3>8
  <2>5. CASE n # 0
    <3>1. /\ s # <<>> /\ s[Len(s)] = f
          /\ start[k + 1] + Len(p) = start[Len(s)] + n
      BY <1>1, <1>6, <2>2, <2>5 DEF Ends
    <3>2. Laid(start, s, k, Append(p, [frame |-> f, at |-> n + 1]))
      BY <1>1, <1>2, <2>2, <2>5, <3>1, LaidNext
    <3>3. /\ start[k + 1] \in Nat /\ start[Len(s)] \in Nat
          /\ start[Len(s) + 1] = start[Len(s)] + FrameSize(f)
      <4>1. k + 1 \in 1..(Len(s) + 1) /\ Len(s) \in 1..(Len(s) + 1) /\ Len(s) \in 1..Len(s)
        BY <1>2, <2>2, <3>1 DEF Laid
      <4>. QED BY <2>2, <3>1, <4>1 DEF Layout
    <3>4. sent'[c] = s
      BY <1>4, <2>5
    <3>5. start[k + 1] + Len(pipe'[c]) = start[Len(s)] + (n + 1)
      <4>1. PICK u \in Nat : u = start[k + 1]
        BY <3>3
      <4>2. PICK v \in Nat : v = Len(p)
        BY <1>2
      <4>3. PICK y \in Nat : y = start[Len(s)]
        BY <3>3
      <4>4. u + (v + 1) = y + (n + 1)
        <5>1. u + v = y + n /\ n \in Nat
          BY <1>1, <3>1, <4>1, <4>2, <4>3, Zenon
        <5>. QED BY <5>1
      <4>. QED BY <2>3, <4>1, <4>2, <4>3, <4>4, Zenon
    <3>6. Written(start, c)'
      BY <1>4, <1>9, <2>2, <3>1, <3>2, <3>3, <3>4, <3>5
    <3>. QED BY <3>6
  <2>. QED BY <2>4, <2>5
<1>. QED BY <1>8, <1>10

\* The header at hand is the one of the first frame that was not received, and so
\* is the payload when all of it is there.
LEMMA NextFrame ==
    ASSUME TypeOK, NEW c \in Conn, ~mixed[c], Streamed(c), rpc[c] = "recv", NEW l \in InHeader(c)
    PROVE  /\ Len(got[c]) < Len(sent[c]) /\ l = sent[c][Len(got[c]) + 1].len
           /\ sent[c][Len(got[c]) + 1] \in Frame /\ pipe[c] # <<>>
           /\ Len(pipe[c]) >= Header + l =>
                 Decoded(SubSeq(pipe[c], 1, Header + l)) = sent[c][Len(got[c]) + 1]
<1>. DEFINE f == sent[c][Len(got[c]) + 1]
<1>1. sent[c] \in Seq(Frame) /\ pipe[c] \in Seq(Cell) /\ Len(got[c]) \in Nat
  BY DEF TypeOK
<1>2. ~(Len(pipe[c]) < Header) /\ l \in Announced(pipe[c])
  BY DEF InHeader
<1>3. pipe[c] # <<>>
  BY <1>1, <1>2, ConstantsOK
<1>4. PICK start : Layout(start, sent[c]) /\ Laid(start, sent[c], Len(got[c]), pipe[c])
  BY DEF Streamed, Written
<1>5. /\ Len(got[c]) < Len(sent[c])
      /\ \A i \in 1..Len(pipe[c]) : i <= FrameSize(f) => pipe[c][i] = [frame |-> f, at |-> i]
  BY <1>1, <1>3, <1>4, FirstFrame
<1>6. f \in Frame
  BY <1>1, <1>5
<1>7. /\ Len(pipe[c]) >= Header => Announced(pipe[c]) = {f.len}
      /\ Len(pipe[c]) >= FrameSize(f) => Decoded(SubSeq(pipe[c], 1, FrameSize(f))) = f
  BY <1>1, <1>3, <1>5, <1>6, Reading
<1>8. l = f.len
  <2>1. Len(pipe[c]) >= Header
    BY <1>1, <1>2, ConstantsOK
  <2>. QED BY <1>2, <1>7, <2>1
<1>9. FrameSize(f) = Header + l
  BY <1>8 DEF FrameSize
<1>. QED BY <1>3, <1>5, <1>6, <1>7, <1>8, <1>9

\* A frame is received.
LEMMA StreamedReceive ==
    ASSUME TypeOK, NEW c \in Conn, Receive(c), Streamed(c)
    PROVE  Streamed(c)'
<1>. SUFFICES ASSUME ~mixed'[c] PROVE Prefix(c)' /\ (rpc'[c] = "recv" => \E start : Written(start, c)')
  BY DEF Streamed
<1>. DEFINE k == Len(got[c])
            f == sent[c][k + 1]
<1>1. /\ rpc[c] = "recv" /\ ~mixed[c]
      /\ UNCHANGED <<kernel, writers, rpc, sent, mixed>>
  BY DEF Receive
<1>2. PICK l \in InHeader(c) :
         /\ ~TooLong(l) /\ Len(pipe[c]) >= Header + l
         /\ got' = [got EXCEPT ![c] = Append(@, Decoded(SubSeq(pipe[c], 1, Header + l)))]
         /\ pipe' = [pipe EXCEPT ![c] = SubSeq(@, Header + l + 1, Len(@))]
  BY DEF Receive
<1>3. /\ k < Len(sent[c]) /\ l = f.len /\ f \in Frame /\ pipe[c] # <<>>
      /\ Decoded(SubSeq(pipe[c], 1, Header + l)) = f
  BY <1>1, <1>2, NextFrame
<1>4. got[c] \in Seq(Frame \cup {Garbage}) /\ k \in Nat /\ Len(sent[c]) \in Nat
  BY DEF TypeOK
<1>5. /\ Len(got'[c]) = k + 1 /\ got'[c][k + 1] = f
      /\ \A i \in 1..k : got'[c][i] = got[c][i]
  <2>1. got'[c] = Append(got[c], f)
    BY <1>2, <1>3 DEF TypeOK
  <2>. QED BY <1>3, <1>4, <2>1, AppendProperties
<1>6. FrameSize(f) = Header + l /\ pipe'[c] = SubSeq(pipe[c], FrameSize(f) + 1, Len(pipe[c]))
  BY <1>2, <1>3 DEF FrameSize, TypeOK
<1>7. Prefix(c)'
  <2>1. Prefix(c) /\ sent'[c] = sent[c] /\ rpc'[c] = "recv"
    BY <1>1 DEF Streamed
  <2>2. f.len <= Limit
    BY <1>2, <1>3, ConstantsOK DEF TooLong, Frame
  <2>3. ASSUME NEW i \in 1..(k + 1) PROVE got'[c][i] = sent[c][i] /\ sent[c][i].len <= Limit
    <3>1. CASE i = k + 1
      BY <1>5, <2>2, <3>1
    <3>2. CASE i \in 1..k
      BY <1>5, <2>1, <3>2 DEF Prefix
    <3>. QED BY <1>4, <3>1, <3>2
  <2>. QED BY <1>3, <1>4, <1>5, <2>1, <2>3 DEF Prefix
<1>8. PICK start : Written(start, c)
  BY <1>1 DEF Streamed
<1>9. /\ Laid(start, sent[c], k + 1, pipe'[c])
      /\ start[k + 2] + Len(pipe'[c]) = start[k + 1] + Len(pipe[c])
  <2>. DEFINE s == sent[c]
              p == pipe[c]
  <2>1. s \in Seq(Frame) /\ p \in Seq(Cell)
    BY DEF TypeOK
  <2>2. FrameSize(s[k + 1]) <= Len(p)
    <3>1. FrameSize(f) \in Nat /\ Len(pipe[c]) \in Nat
      BY <1>3, <2>1, FrameSizeType
    <3>. QED BY <1>2, <1>6, <3>1
  <2>3. Layout(start, s) /\ Laid(start, s, k, p)
    BY <1>8 DEF Written
  <2>4. k \in Nat /\ k < Len(s) /\ pipe'[c] = SubSeq(p, FrameSize(s[k + 1]) + 1, Len(p))
    BY <1>3, <1>4, <1>6
  <2>5. Laid(start, s, k + 1, pipe'[c]) /\ start[k + 2] + Len(pipe'[c]) = start[k + 1] + Len(p)
    <3>. DEFINE q == SubSeq(p, FrameSize(s[k + 1]) + 1, Len(p))
    <3>1. Laid(start, s, k + 1, q) /\ start[k + 2] + Len(q) = start[k + 1] + Len(p)
      <4>1. k \in Nat /\ k < Len(s)
        BY <2>4
      <4>. HIDE DEF s, p, k, f
      <4>. QED BY <2>1, <2>2, <2>3, <4>1, LaidRead
    <3>2. pipe'[c] = q
      BY <2>4
    <3>. HIDE DEF q, s, p, k, f
    <3>. QED BY <3>1, <3>2
  <2>. QED BY <2>5
<1>10. (k + 1) + 1 = k + 2
  BY <1>4
<1>11. WritersOf(c)' = WritersOf(c) /\ closed' = closed /\ out' = out /\ sent'[c] = sent[c]
  BY <1>1 DEF WritersOf, Writing, kernel, writers
<1>12. c \notin closed => Ends(start, c)'
  BY <1>5, <1>8, <1>9, <1>10, <1>11 DEF Written, Ends
<1>13. Written(start, c)'
  BY <1>5, <1>8, <1>9, <1>11, <1>12 DEF Written
<1>. QED BY <1>7, <1>13

\* A frame is refused.
LEMMA StreamedRefuse ==
    ASSUME TypeOK, NEW c \in Conn, Refuse(c), Streamed(c)
    PROVE  Streamed(c)'
<1>. SUFFICES ASSUME ~mixed'[c] PROVE Prefix(c)' /\ rpc'[c] # "recv"
  BY DEF Streamed
<1>1. rpc[c] = "recv" /\ ~mixed[c] /\ UNCHANGED <<sent, got, mixed>> /\ rpc'[c] = "refused"
  BY DEF Refuse, StopReading, TypeOK
<1>2. PICK l \in InHeader(c) : l > Limit
  BY DEF Refuse, TooLong
<1>3. Len(got[c]) < Len(sent[c]) /\ sent[c][Len(got[c]) + 1].len > Limit
  BY <1>1, <1>2, NextFrame
<1>4. Prefix(c)
  BY <1>1 DEF Streamed
<1>. QED BY <1>1, <1>3, <1>4 DEF Prefix

\* All steps together.
StreamInv == TypeOK /\ Ordered /\ \A c \in Conn : Streamed(c)

\* The invariants together are inductive.
LEMMA StreamNext == StreamInv /\ [Next]_vars => StreamInv'
<1>. SUFFICES ASSUME StreamInv, [Next]_vars PROVE StreamInv'
  OBVIOUS
<1>. USE DEF StreamInv
<1>1. TypeOK' /\ Ordered'
  BY TypeNext, OrderedNext
<1>2. CASE UNCHANGED vars
  <2>1. \A c \in Conn : Streamed(c)'
    BY <1>2 DEF Streamed, Prefix, Written, Ends, WritersOf, Writing, vars, kernel, writers
  <2>. QED BY <1>1, <2>1
<1>3. ASSUME NEW c \in Conn, NEW d \in Conn,
             \/ Accept(c) \/ Register(c) \/ Close(c) \/ Leave(c) \/ EndOfStream(c)
             \/ \E l \in Lengths[c] : SendBare(c, l)
      PROVE  Streamed(d)'
  <2>1. c \in Writer
    BY DEF Writer
  <2>. QED BY <1>3, <2>1, StreamedConnection, StreamedBegin
<1>4. ASSUME NEW c \in Conn, NEW d \in Conn, Receive(c) \/ Refuse(c) PROVE Streamed(d)'
  <2>1. CASE d = c
    BY <1>4, <2>1, StreamedReceive, StreamedRefuse
  <2>2. CASE d # c
    <3>1. /\ UNCHANGED <<closed, out, mixed, sent>> /\ got'[d] = got[d]
          /\ rpc'[d] = rpc[d] /\ pipe'[d] = pipe[d]
      BY <1>4, <2>2 DEF Receive, Refuse, StopReading, TypeOK, kernel, writers
    <3>2. WritersOf(d)' = WritersOf(d)
      BY <3>1 DEF WritersOf, Writing
    <3>. QED BY <3>1, <3>2, StreamedKept
  <2>. QED BY <2>1, <2>2
<1>5. ASSUME NEW w \in Writer, NEW d \in Conn,
             WriterStep(w) \/ \E c \in Conn : \E l \in Lengths[w] : SendLocked(w, c, l)
      PROVE  Streamed(d)'
  <2>1. CASE WriteCell(w)
    BY <2>1, StreamedHere, StreamedElsewhere
  <2>. QED BY <1>5, <2>1, StreamedLock, StreamedFails, StreamedBegin DEF WriterStep
<1>. QED BY <1>1, <1>2, <1>3, <1>4, <1>5 DEF Next, ReaderStep

\* They hold in every behaviour.
LEMMA StreamAlways == Spec => []StreamInv
<1>1. Init => StreamInv
  BY TypeInit, OrderedInit, StreamedInit DEF StreamInv
<1>. QED BY <1>1, StreamNext, PTL DEF Spec

\* A reader hands on no frame that is longer than the limit and none that is torn,
\* and gives its connection up for a longer one only (protocol.h, recv_message).
THEOREM LimitAlwaysKept == Spec => []LimitKept
<1>1. StreamInv => LimitKept
  <2>. SUFFICES ASSUME StreamInv, NEW c \in Conn, ~mixed[c]
                PROVE  /\ \A i \in DOMAIN got[c] : got[c][i] # Garbage /\ got[c][i].len <= Limit
                       /\ rpc[c] = "refused" => sent[c][Len(got[c]) + 1].len > Limit
    BY DEF LimitKept
  <2>1. Prefix(c) /\ got[c] \in Seq(Frame \cup {Garbage}) /\ sent[c] \in Seq(Frame)
    BY DEF StreamInv, Streamed, TypeOK
  <2>2. ASSUME NEW i \in DOMAIN got[c] PROVE got[c][i] # Garbage /\ got[c][i].len <= Limit
    <3>1. i \in 1..Len(got[c]) /\ i \in 1..Len(sent[c])
      BY <2>1 DEF Prefix
    <3>2. sent[c][i] \in Frame
      BY <2>1, <3>1
    <3>. QED BY <2>1, <3>1, <3>2, ConstantsOK DEF Prefix
  <2>. QED BY <2>1, <2>2 DEF Prefix
<1>. QED BY <1>1, StreamAlways, PTL

\* When no thread is in the middle of a frame, a reader that waits has all of one
\* before it, or the header of one it refuses (protocol.h, write_all and
\* read_exact).
THEOREM RestAlwaysComes == Spec => []RestComes
<1>1. StreamInv => RestComes
  <2>. SUFFICES ASSUME StreamInv, NEW c \in Conn, sock = c, rpc[c] = "recv", ~mixed[c],
                       WritersOf(c) = {}, pipe[c] # <<>>
                PROVE  \E l \in InHeader(c) : Len(pipe[c]) >= Header + l
    BY DEF RestComes
  <2>. DEFINE s == sent[c]
              p == pipe[c]
              k == Len(got[c])
              f == s[k + 1]
  <2>1. s \in Seq(Frame) /\ p \in Seq(Cell) /\ k \in Nat /\ Len(s) \in Nat /\ Len(p) \in Nat
    BY DEF StreamInv, TypeOK
  <2>2. PICK start : Layout(start, s) /\ Laid(start, s, k, p) /\ Ends(start, c)
    BY DEF StreamInv, Streamed, Written, Ordered, Placed
  <2>3. k < Len(s) /\ \A i \in 1..Len(p) : i <= FrameSize(f) => p[i] = [frame |-> f, at |-> i]
    BY <2>1, <2>2, FirstFrame
  <2>4. f \in Frame /\ FrameSize(f) \in Nat \ {0} /\ FrameSize(f) >= Header /\ Header \in Nat \ {0}
    <3>1. f \in Frame
      BY <2>1, <2>3
    <3>. QED BY <3>1, FrameSizeType
  <2>5. start[k + 1] + Len(p) = start[Len(s) + 1]
    BY <2>2 DEF Ends
  <2>6. /\ start[k + 1] \in Nat /\ start[Len(s) + 1] \in Nat
        /\ start[k + 1] + FrameSize(f) <= start[Len(s) + 1]
    <3>1. /\ k + 1 \in 1..Len(s) /\ k + 1 \in 1..(Len(s) + 1) /\ (k + 1) + 1 \in 1..(Len(s) + 1)
          /\ Len(s) + 1 \in 1..(Len(s) + 1) /\ (k + 1) + 1 <= Len(s) + 1
      BY <2>1, <2>3
    <3>2. start[(k + 1) + 1] = start[k + 1] + FrameSize(f)
      BY <2>2, <3>1 DEF Layout
    <3>3. start[(k + 1) + 1] <= start[Len(s) + 1]
      BY <2>2, <3>1 DEF Layout
    <3>4. start[k + 1] \in Nat /\ start[Len(s) + 1] \in Nat
      BY <2>2, <3>1 DEF Layout
    <3>. QED BY <3>2, <3>3, <3>4
  <2>7. FrameSize(f) <= Len(p)
    <3>1. PICK u \in Nat : u = start[k + 1]
      BY <2>6
    <3>2. PICK y \in Nat : y = FrameSize(f)
      BY <2>4
    <3>3. PICK v \in Nat : v = Len(p)
      BY <2>1
    <3>4. u + y <= u + v
      BY <2>5, <2>6, <3>1, <3>2, <3>3, Zenon
    <3>5. y <= v
      BY <3>4
    <3>. QED BY <3>2, <3>3, <3>5
  <2>8. f.len \in InHeader(c)
    <3>1. Len(p) >= Header
      BY <2>1, <2>4, <2>7
    <3>2. Announced(p) = {f.len}
      BY <2>1, <2>3, <2>4, <3>1, Reading
    <3>. QED BY <2>1, <2>4, <3>1, <3>2 DEF InHeader
  <2>9. Len(p) >= Header + f.len
    BY <2>1, <2>4, <2>7 DEF FrameSize
  <2>. QED BY <2>8, <2>9
<1>. QED BY <1>1, StreamAlways, PTL

-----------------------------------------------------------------------------
(* The promise of a channel *)

\* An empty connection is an empty channel.
LEMMA ChannelInit == Init => \A c \in Conn : Chan(c)!Init
  BY DEF Init, Chan!Init


\* A frame is sent when its first cell is written.
LEMMA ChannelSend ==
    ASSUME TypeOK, NEW w \in Writer, WriteCell(w), NEW c \in Conn, ~mixed'[c]
    PROVE  [Chan(c)!Next]_<<sent[c], got[c], mixed[c]>>
<1>. DEFINE f == out[w].frame
<1>1. got' = got /\ sock \in Conn /\ mixed'[c] = mixed[c]
  BY DEF WriteCell, TypeOK
<1>2. f \in Frame /\ sent[c] \in Seq(Frame)
  BY StageType DEF WriteCell, Writing, TypeOK
<1>3. CASE sent'[c] = sent[c]
  BY <1>1, <1>3
<1>4. CASE sent'[c] = Append(sent[c], f)
  <2>1. f \in {sent'[c][i] : i \in DOMAIN sent'[c]}
    BY <1>2, <1>4, AppendProperties
  <2>2. Chan(c)!Send
    BY <1>1, <1>2, <1>4, <2>1 DEF Chan!Send
  <2>. QED BY <1>1, <2>2 DEF Chan!Next
<1>. QED BY <1>1, <1>3, <1>4 DEF WriteCell, TypeOK

\* The frame that a reader hands on is the first that it has not handed on.
LEMMA ChannelReceive ==
    ASSUME StreamInv, NEW d \in Conn, Receive(d), NEW c \in Conn, ~mixed'[c]
    PROVE  [Chan(c)!Next]_<<sent[c], got[c], mixed[c]>>
<1>1. UNCHANGED <<sent, mixed>> /\ rpc[d] = "recv" /\ TypeOK
  BY DEF Receive, StreamInv
<1>2. PICK l \in InHeader(d) :
         /\ Len(pipe[d]) >= Header + l
         /\ got' = [got EXCEPT ![d] = Append(@, Decoded(SubSeq(pipe[d], 1, Header + l)))]
  BY DEF Receive
<1>3. CASE d # c
  BY <1>1, <1>2, <1>3 DEF TypeOK
<1>4. CASE d = c
  <2>1. /\ Len(got[c]) < Len(sent[c])
        /\ Decoded(SubSeq(pipe[c], 1, Header + l)) = sent[c][Len(got[c]) + 1]
    BY <1>1, <1>2, <1>4, NextFrame DEF StreamInv
  <2>2. got'[c] = Append(got[c], sent[c][Len(got[c]) + 1])
    BY <1>1, <1>2, <1>4, <2>1 DEF TypeOK
  <2>3. Chan(c)!Receive
    BY <1>1, <2>1, <2>2 DEF Chan!Receive
  <2>. QED BY <1>1, <2>3 DEF Chan!Next
<1>. QED BY <1>3, <1>4

\* Every step is one of each channel, or leaves it as it is.
LEMMA ChannelNext ==
    StreamInv /\ [Next]_vars => \A c \in Conn : [Chan(c)!Next]_<<sent[c], got[c], mixed[c]>>
<1>. SUFFICES ASSUME StreamInv, [Next]_vars, NEW c \in Conn
              PROVE  [Chan(c)!Next]_<<sent[c], got[c], mixed[c]>>
  OBVIOUS
<1>0. TypeOK /\ mixed[c] \in BOOLEAN /\ mixed'[c] \in BOOLEAN
  <2>1. TypeOK /\ TypeOK'
    BY TypeNext DEF StreamInv
  <2>. QED BY <2>1 DEF TypeOK
<1>1. CASE mixed'[c]
  BY <1>1 DEF Chan!Next
<1>2. ASSUME ~mixed'[c], UNCHANGED <<sent, got>>, mixed[c] => mixed'[c]
      PROVE  UNCHANGED <<sent[c], got[c], mixed[c]>>
  <2>1. mixed'[c] = mixed[c]
    BY <1>0, <1>2, Zenon
  <2>. QED BY <1>2, <2>1
<1>3. CASE UNCHANGED vars
  BY <1>3 DEF vars
<1>4. ASSUME NEW d \in Conn,
             Accept(d) \/ Register(d) \/ Close(d) \/ Leave(d) \/ Refuse(d) \/ EndOfStream(d)
      PROVE  UNCHANGED <<sent[c], got[c], mixed[c]>>
  BY <1>4 DEF Accept, Register, Close, Leave, Refuse, EndOfStream
<1>5. ASSUME ~mixed'[c], NEW w \in Writer, NEW d \in Conn, NEW l \in Lengths[w],
             SendLocked(w, d, l) \/ (w = d /\ SendBare(d, l))
      PROVE  UNCHANGED <<sent[c], got[c], mixed[c]>>
  <2>1. UNCHANGED <<sent, got>> /\ (mixed[c] => mixed'[c])
    BY <1>0, <1>5 DEF SendLocked, SendBare, Begin, TypeOK
  <2>. QED BY <1>2, <1>5, <2>1
<1>6. ASSUME ~mixed'[c], NEW w \in Writer, Lock(w) \/ WriteFails(w)
      PROVE  UNCHANGED <<sent[c], got[c], mixed[c]>>
  <2>1. UNCHANGED <<sent, got>> /\ (mixed[c] => mixed'[c])
    BY <1>0, <1>6 DEF Lock, WriteFails, TypeOK
  <2>. QED BY <1>2, <1>6, <2>1
<1>7. Conn \subseteq Writer
  BY DEF Writer
<1>. QED BY <1>0, <1>1, <1>3, <1>4, <1>5, <1>6, <1>7, ChannelSend, ChannelReceive
         DEF Next, ReaderStep, WriterStep

\* A connection is a channel: frames arrive whole, in order, once, and none that was
\* not sent, until two threads write to it without a mutex in common (protocol.h;
\* server.cpp, send_locked).
THEOREM ImplementsChannel == Spec => ChannelSpec
  BY StreamAlways, ChannelInit, ChannelNext, PTL DEF Spec, ChannelSpec

-----------------------------------------------------------------------------
(* Who writes at the same time *)

\* A thread sends bare for its own connection, and others send for a session only
\* from the registry; a thread that has closed its descriptor sends no more.
Sends(w) ==
    out[w] # NoSend =>
        /\ out[w].bare => w = out[w].to
        /\ ~out[w].bare => out[w].to \in registered \cup closed

Ended == \A c \in closed : out[c] = NoSend

\* A client that is not rude has no bare answer coming while it is registered, and
\* its frames were mixed only by writers of an earlier connection.
Polite(c) ==
    /\ out[c] # NoSend /\ out[c].bare => c \notin registered
    /\ mixed[c] => closed \ {c} # {}

Excluded ==
    /\ Ended
    /\ \A w \in Writer : Sends(w)
    /\ \A c \in Conn \ Rude : Polite(c)

\* While a thread sends bare for a session that is not rude, no other does.
LEMMA BareIsAlone ==
    ASSUME TypeOK, Ordered, Excluded, NEW c \in Conn \ Rude,
           NEW v \in Writer, out[v] # NoSend, out[v].bare, out[v].to = c,
           NEW w \in Writer, out[w] # NoSend, out[w].to = c
    PROVE  w = v
<1>1. v = c /\ Polite(c)
  BY DEF Excluded, Sends
<1>2. c \notin registered /\ c \notin closed
  BY <1>1 DEF Excluded, Ended, Polite
<1>. QED BY <1>1, <1>2 DEF Excluded, Sends

\* The threads that write exclude each other ...
LEMMA ExcludedWriters ==
    ASSUME TypeOK, Ordered, Excluded, NEW c \in Conn \ Rude,
           NEW v \in WritersOf(c), NEW w \in WritersOf(c)
    PROVE  v = w
<1>1. /\ v \in Writer /\ Writing(v) /\ out[v].to = c /\ Orderly(v) /\ out[v] # NoSend
      /\ w \in Writer /\ Writing(w) /\ out[w].to = c /\ Orderly(w) /\ out[w] # NoSend
  BY StageType DEF WritersOf, Writing, Ordered
<1>2. CASE ~out[v].bare /\ ~out[w].bare
  BY <1>1, <1>2 DEF Orderly
<1>3. CASE out[v].bare \/ out[w].bare
  BY <1>1, <1>3, BareIsAlone
<1>. QED BY <1>2, <1>3

\* At first nobody is registered.
LEMMA ExcludedInit == Init => Excluded
  BY ConstantsOK DEF Init, Excluded, Ended, Sends, Polite, NoSend, Writer

\* ... at a connection's beginning and end and while it is read, ...
LEMMA ExcludedConnection ==
    ASSUME TypeOK, Ordered, Excluded, NEW c \in Conn,
           Accept(c) \/ Register(c) \/ Close(c) \/ Leave(c) \/ ReaderStep(c)
    PROVE  Excluded'
<1>1. UNCHANGED <<out, mixed>> /\ closed \subseteq closed'
  BY DEF Accept, Register, Close, Leave, ReaderStep, Receive, Refuse, EndOfStream, kernel, writers
<1>2. /\ registered' \cup closed' \in SUBSET Conn
      /\ registered \cup closed \subseteq registered' \cup closed'
      /\ \A d \in closed' : d \in closed \/ out[d] = NoSend
      /\ \A d \in registered' : d \in registered \/ out[d] = NoSend
  BY DEF TypeOK, Accept, Register, Close, Leave, ReaderStep, Receive, Refuse, EndOfStream, kernel,
     writers
<1>3. Ended'
  BY <1>1, <1>2 DEF Excluded, Ended
<1>4. ASSUME NEW w \in Writer PROVE Sends(w)'
  BY <1>1, <1>2 DEF Excluded, Sends
<1>5. ASSUME NEW d \in Conn \ Rude PROVE Polite(d)'
  BY <1>1, <1>2 DEF Excluded, Polite
<1>. QED BY <1>3, <1>4, <1>5 DEF Excluded

\* ... when a thread sets out to send, ...
LEMMA ExcludedBegin ==
    ASSUME TypeOK, Ordered, Excluded, NEW w \in Writer, NEW c \in Conn, NEW l \in Lengths[w],
           SendLocked(w, c, l) \/ (w = c /\ SendBare(c, l))
    PROVE  Excluded'
<1>1. PICK stage \in {"wait", "write"}, bare \in BOOLEAN :
         /\ Begin(w, c, l, stage, bare)
         /\ bare => w = c /\ sock = c /\ (c \in registered => c \in Rude)
         /\ ~bare => c \in registered /\ (w = c \/ w \in Other)
         /\ mixed' = IF bare THEN [mixed EXCEPT ![c] = @ \/ WritersOf(c) # {}] ELSE mixed
  BY DEF SendLocked, SendBare
<1>2. /\ out[w] = NoSend /\ \A v \in Writer : v # w => out'[v] = out[v]
      /\ out'[w].to = c /\ out'[w].bare = bare
      /\ UNCHANGED <<closed, sock, registered>>
  <2>1. out' = [out EXCEPT ![w] = out'[w]] /\ out'[w].to = c /\ out'[w].bare = bare
        /\ UNCHANGED <<kernel, registered>>
    BY <1>1, BeginType
  <2>. QED BY <1>1, <2>1 DEF TypeOK, Begin, kernel
<1>3. c \notin closed /\ w \notin closed
  BY <1>1, ConstantsOK DEF Ordered, Placed, TypeOK
<1>4. Ended'
  <2>1. closed \subseteq Writer
    BY DEF TypeOK, Writer
  <2>. QED BY <1>2, <1>3, <2>1 DEF Excluded, Ended
<1>5. ASSUME NEW v \in Writer PROVE Sends(v)'
  BY <1>1, <1>2 DEF Excluded, Sends
<1>6. ASSUME NEW d \in Conn \ Rude PROVE Polite(d)'
  <2>1. Polite(d) /\ d \in Writer
    BY DEF Excluded, Writer
  <2>2. out'[d] # NoSend /\ out'[d].bare => d \notin registered
    BY <1>1, <1>2, <2>1 DEF Polite
  <2>3. mixed'[d] => mixed[d]
    <3>1. CASE ~bare \/ d # c
      BY <1>1, <3>1 DEF TypeOK
    <3>2. CASE bare /\ d = c
      <4>1. WritersOf(c) = {}
        <5>1. SUFFICES ASSUME NEW v \in WritersOf(c) PROVE FALSE
          OBVIOUS
        <5>2. v \in Writer /\ out[v].to = c /\ out[v] # NoSend /\ Sends(v)
          BY StageType DEF WritersOf, Writing, Excluded
        <5>3. c \notin registered
          BY <1>1, <3>2
        <5>. QED BY <1>1, <1>2, <1>3, <3>2, <5>2, <5>3 DEF Sends
      <4>. QED BY <1>1, <3>2, <4>1 DEF TypeOK
    <3>. QED BY <3>1, <3>2
  <2>. QED BY <1>2, <2>1, <2>2, <2>3 DEF Polite
<1>. QED BY <1>4, <1>5, <1>6 DEF Excluded

\* ... and when it writes.
LEMMA ExcludedWriter ==
    ASSUME TypeOK, Ordered, Excluded, NEW w \in Writer, WriterStep(w)
    PROVE  Excluded'
<1>1. out[w] \in Sending /\ out[w] # NoSend /\ out[w].to \in Conn /\ out[w].bare \in BOOLEAN
  BY StageType DEF WriterStep, Lock, WriteCell, WriteFails, Writing
<1>2. UNCHANGED <<sock, closed, registered>>
  BY DEF WriterStep, Lock, WriteCell, WriteFails, kernel
<1>3. /\ \A v \in Writer : v # w => out'[v] = out[v]
      /\ out'[w] # NoSend => out'[w].to = out[w].to /\ out'[w].bare = out[w].bare
  BY <1>1 DEF WriterStep, Lock, WriteCell, WriteFails, Finish, TypeOK, Sending
<1>4. Ended'
  <2>1. closed \subseteq Writer /\ w \notin closed
    BY <1>1 DEF TypeOK, Writer, Excluded, Ended
  <2>. QED BY <1>2, <1>3, <2>1 DEF Excluded, Ended
<1>5. ASSUME NEW v \in Writer PROVE Sends(v)'
  BY <1>1, <1>2, <1>3 DEF Excluded, Sends
<1>6. ASSUME NEW d \in Conn \ Rude PROVE Polite(d)'
  <2>1. Polite(d) /\ d \in Writer
    BY DEF Excluded, Writer
  <2>2. out'[d] # NoSend /\ out'[d].bare => d \notin registered
    BY <1>1, <1>2, <1>3, <2>1 DEF Polite
  <2>3. ASSUME mixed'[d], ~mixed[d] PROVE closed \ {d} # {}
    <3>1. CASE Lock(w)
      <4>1. PICK v \in WritersOf(d) : out[v].bare /\ out[w].to = d
        BY <1>1, <2>3, <3>1 DEF Lock, TypeOK
      <4>2. v \in Writer /\ Writing(v) /\ out[v].to = d /\ out[v] # NoSend
        BY <4>1, StageType DEF WritersOf, Writing
      <4>3. w = v
        BY <1>1, <4>1, <4>2, BareIsAlone
      <4>. QED BY <3>1, <4>2, <4>3 DEF Lock, Writing
    <3>2. CASE WriteCell(w)
      <4>1. d = sock /\ out[w].to # sock
        BY <2>3, <3>2 DEF WriteCell, TypeOK
      <4>2. out[w].to \in closed
        BY <1>1, <4>1 DEF Ordered, Orderly
      <4>. QED BY <4>1, <4>2
    <3>3. CASE WriteFails(w)
      BY <2>3, <3>3 DEF WriteFails
    <3>. QED BY <3>1, <3>2, <3>3 DEF WriterStep
  <2>. QED BY <1>2, <2>1, <2>2, <2>3 DEF Polite
<1>. QED BY <1>4, <1>5, <1>6 DEF Excluded

\* Every step keeps it.
LEMMA ExcludedNext == TypeOK /\ Ordered /\ Excluded /\ [Next]_vars => Excluded'
<1>1. Excluded /\ UNCHANGED vars => Excluded'
  BY DEF Excluded, Ended, Sends, Polite, vars, kernel, writers
<1>2. Conn \subseteq Writer
  BY DEF Writer
<1>. QED BY <1>1, <1>2, ExcludedConnection, ExcludedBegin, ExcludedWriter DEF Next

\* Only one thread writes for a session at a time, bare or with the mutex, unless its
\* client asks for bare answers while it is registered; and only the writers of an
\* earlier connection mix the frames of one that does not (server.cpp, send_locked and
\* send_response_bare).
THEOREM WritersAlwaysExclude == Spec => []WritersExclude
<1>1. TypeOK /\ Ordered /\ Excluded => WritersExclude
  <2>. SUFFICES ASSUME TypeOK, Ordered, Excluded, NEW c \in Conn \ Rude
                PROVE  /\ \A v, w \in WritersOf(c) : v = w
                       /\ mixed[c] => closed \ {c} # {}
    BY DEF WritersExclude
  <2>1. \A v, w \in WritersOf(c) : v = w
    BY ExcludedWriters
  <2>. QED BY <2>1 DEF Excluded, Polite
<1>2. Init => Ordered /\ TypeOK /\ Excluded
  BY TypeInit, OrderedInit, ExcludedInit
<1>. QED BY <1>1, <1>2, TypeNext, OrderedNext, ExcludedNext, PTL DEF Spec

=============================================================================
