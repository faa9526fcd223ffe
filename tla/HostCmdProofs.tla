---------------------------- MODULE HostCmdProofs ----------------------------
(***************************************************************************)
(* Theorems about HostCmd, for every set of sequence numbers, commands and *)
(* neighbours and every size of the ring, the requests and the messages.   *)
(***************************************************************************)
EXTENDS HostCmd, SequenceTheorems, TLAPS

Item    == [ch : Channels, frag : Nat, of : Nat]
Asked   == [seq : Bytes, cmd : Bytes, count : Nat, next : Nat]
Command == [active : BOOLEAN, seq : Bytes, cmd : Bytes]
Mail    == [state : {"empty", "text", "notice"}, frags : Nat, late : BOOLEAN]

\* What the host is writing has no answer to come yet.
AskInv ==
  /\ asking \in Asked
  /\ asking # NoAsk => /\ asking.seq \in Seqs \ owed /\ asking.cmd \in Cmds
                       /\ asking.next < asking.count

\* A message in the mailbox has a fragment.
MailInv == mailbox.state # "empty" => mailbox.frags # 0

TypeInv == TypeOK /\ AskInv /\ MailInv

-----------------------------------------------------------------------------
(* The ring. *)

Whole(r) ==
  /\ \A i \in 1 .. Len(r) - 1 : Follows(r[i], r[i + 1])
  /\ r # <<>> => r[Len(r)].frag = r[Len(r)].of

LEMMA MessageFacts ==
  ASSUME NEW c \in Channels, NEW n \in Nat \ {0}
  PROVE  LET s == [i \in 1 .. n |-> [ch |-> c, frag |-> i, of |-> n]]
         IN  /\ s \in Seq(Item) /\ Len(s) = n
             /\ s[1].frag = 1 /\ s[n].frag = n /\ s[n].of = n
             /\ \A i \in 1 .. n - 1 : Follows(s[i], s[i + 1])
<1> DEFINE s == [i \in 1 .. n |-> [ch |-> c, frag |-> i, of |-> n]]
<1>1. \A i \in 1 .. n : [ch |-> c, frag |-> i, of |-> n] \in Item
  BY DEF Item
<1>2. s \in [1 .. n -> Item]
  BY <1>1
<1>3. s \in Seq(Item) /\ Len(s) = n
  <2>. HIDE DEF s
  <2>. QED  BY <1>2, SeqDef, LenProperties
<1>4. \A i \in 1 .. n : s[i] = [ch |-> c, frag |-> i, of |-> n]
  OBVIOUS
<1>5. s[1].frag = 1 /\ s[n].frag = n /\ s[n].of = n
  BY <1>4
<1>6. ASSUME NEW i \in 1 .. n - 1 PROVE Follows(s[i], s[i + 1])
  <2>1. /\ s[i] = [ch |-> c, frag |-> i, of |-> n] /\ i < n
        /\ s[i + 1] = [ch |-> c, frag |-> i + 1, of |-> n]
    BY <1>4
  <2>2. PICK x, y : x = s[i] /\ y = s[i + 1]
    OBVIOUS
  <2>3. /\ x = [ch |-> c, frag |-> i, of |-> n] /\ y = [ch |-> c, frag |-> i + 1, of |-> n]
    BY <2>1, <2>2
  <2>4. x.frag < x.of /\ y = [x EXCEPT !.frag = @ + 1]
    BY <2>1, <2>3
  <2>. QED  BY <2>2, <2>4 DEF Follows
<1>. QED  BY <1>3, <1>5, <1>6

\* Whole messages stay whole when one is put behind them.
LEMMA PutFacts ==
  ASSUME NEW r \in Seq(Item), Len(r) <= RingSize, NEW c \in Channels, NEW n \in Nat \ {0}
  PROVE  /\ Put(r, c, n) \in Seq(Item) /\ Len(Put(r, c, n)) <= RingSize
         /\ ~Up => Put(r, c, n) = r
         /\ Whole(r) => Whole(Put(r, c, n))
<1>1. PICK s : s = [i \in 1 .. n |-> [ch |-> c, frag |-> i, of |-> n]]
  OBVIOUS
<1>2. /\ s \in Seq(Item) /\ Len(s) = n /\ s[1].frag = 1 /\ s[n].frag = n /\ s[n].of = n
      /\ \A i \in 1 .. n - 1 : Follows(s[i], s[i + 1])
  BY <1>1, MessageFacts
<1>3. CASE ~Accepts(r, c, n)
  BY <1>3 DEF Put
<1>4. CASE Accepts(r, c, n)
  <2>1. Up /\ Len(r) + n <= RingSize /\ Put(r, c, n) = r \o s
    BY <1>1, <1>4 DEF Accepts, Put
  <2>2. PICK q : q = r \o s
    OBVIOUS
  <2>3. /\ q \in Seq(Item) /\ Len(q) = Len(r) + n /\ Len(r) \in Nat
        /\ \A i \in 1 .. Len(r) + n : q[i] = IF i <= Len(r) THEN r[i] ELSE s[i - Len(r)]
    BY <1>2, <2>2, ConcatProperties, LenProperties
  <2>4. ASSUME Whole(r) PROVE Whole(q)
    <3>1. ASSUME NEW i \in 1 .. Len(q) - 1 PROVE Follows(q[i], q[i + 1])
      <4>1. CASE i < Len(r)
        <5>1. q[i] = r[i] /\ q[i + 1] = r[i + 1] /\ i \in 1 .. Len(r) - 1
          BY <2>3, <4>1
        <5>. QED  BY <2>4, <5>1 DEF Whole
      <4>2. CASE i = Len(r)
        <5>1. q[i] = r[Len(r)] /\ q[i + 1] = s[1] /\ r # <<>>
          BY <2>3, <4>2, EmptySeq
        <5>. QED  BY <1>2, <2>4, <5>1 DEF Whole, Follows
      <4>3. CASE i > Len(r)
        <5>1. /\ q[i] = s[i - Len(r)] /\ q[i + 1] = s[(i - Len(r)) + 1]
              /\ i - Len(r) \in 1 .. n - 1
          BY <2>3, <4>3
        <5>. QED  BY <1>2, <5>1
      <4>. QED  BY <2>3, <4>1, <4>2, <4>3
    <3>2. q[Len(q)] = s[n]
      BY <2>3
    <3>. QED  BY <1>2, <3>1, <3>2 DEF Whole
  <2>. QED  BY <2>1, <2>2, <2>3, <2>4
<1>. QED  BY <1>3, <1>4

LEMMA TailFacts ==
  ASSUME NEW r \in Seq(Item), r # <<>>, Len(r) <= RingSize, Whole(r)
  PROVE  Tail(r) \in Seq(Item) /\ Len(Tail(r)) <= RingSize /\ Whole(Tail(r))
<1>1. /\ Tail(r) \in Seq(Item) /\ Len(Tail(r)) = Len(r) - 1 /\ Len(r) \in Nat \ {0}
      /\ \A i \in 1 .. Len(r) - 1 : Tail(r)[i] = r[i + 1]
  BY HeadTailProperties, LenProperties, EmptySeq
<1>2. ASSUME NEW i \in 1 .. Len(Tail(r)) - 1 PROVE Follows(Tail(r)[i], Tail(r)[i + 1])
  <2>1. Tail(r)[i] = r[i + 1] /\ Tail(r)[i + 1] = r[(i + 1) + 1] /\ i + 1 \in 1 .. Len(r) - 1
    BY <1>1
  <2>. QED  BY <2>1 DEF Whole
<1>3. ASSUME Tail(r) # <<>>
      PROVE  Tail(r)[Len(Tail(r))].frag = Tail(r)[Len(Tail(r))].of
  <2>1. Len(r) - 1 # 0
    BY <1>1, <1>3, EmptySeq
  <2>2. Tail(r)[Len(Tail(r))] = r[Len(r)]
    BY <1>1, <2>1
  <2>. QED  BY <2>2 DEF Whole
<1>. QED  BY <1>1, <1>2, <1>3, SizeAssumption DEF Whole

\* What a step does to the ring.
RingMoves ==
  \/ ring' = ring
  \/ \E c \in Channels, n \in Nat \ {0} : ring' = Put(ring, c, n)
  \/ ring # <<>> /\ ring' = Tail(ring)
  \/ ring' = <<>>

\* What is deferred: its response is still owed, or its link is gone and the
\* poll that clears it comes before the next one, or the reset of an update
\* that has lost its link.
PendingInv ==
  pending.active /\ pending.cmd \in Deferred =>
    \/ pending.seq \in owed
    \/ link = "lost" /\ turn \in {"stack", "cmd"}
    \/ ota = "broken"

OtaInv == (ota = "active" => Up) /\ (ota = "broken" => turn = "stack")

AnswerInv == PendingInv /\ OtaInv /\ ~stray

RingInv == Whole(ring) /\ (~Up => ring = <<>>)

LEMMA Bytewise ==
  /\ Seqs \subseteq Bytes /\ Cmds \subseteq Bytes
  /\ \A e \in Eids : /\ EidByte[e][0] \in Bytes /\ EidByte[e][1] \in Bytes
                     /\ EidByte[e][2] \in Bytes
BY ByteAssumption DEF Bytes

-----------------------------------------------------------------------------
(* What a request and its fragments do. *)

LEMMA RequestFacts ==
  ASSUME AskInv, NEW r \in Requested
  PROVE  /\ r \in Asked /\ r.seq \in Seqs \ owed /\ r.cmd \in Cmds /\ r.next < r.count
<1>1. CASE r \in Beginnings
  <2>1. r \in [seq : Seqs \ owed, cmd : Cmds, count : 1 .. RequestCap + 1, next : {0}]
    BY <1>1 DEF Beginnings
  <2>. QED  BY <2>1, Bytewise, SizeAssumption DEF Asked
<1>2. CASE r = asking /\ asking # NoAsk
  BY <1>2 DEF AskInv
<1>. QED  BY <1>1, <1>2 DEF Requested

Received == [active : BOOLEAN, seq : Bytes, cmd : Bytes, count : Nat, next : Nat]

LEMMA HandleFacts ==
  ASSUME NEW seq \in Seqs \ owed, NEW cmd, HandleCommand(seq, cmd)
  PROVE  /\ ring' = ring \/ \E n \in Nat \ {0} : ring' = Put(ring, "rsp", n)
         /\ \/ owed' = owed /\ pending' = pending
            \/ /\ owed' = owed /\ ~pending.active /\ cmd \in Copying
               /\ pending' \in Overlaid(cmd)
            \/ /\ ~pending.active /\ owed' = owed \cup {seq} /\ cmd \in Deferred
               /\ pending' = [active |-> TRUE, seq |-> seq, cmd |-> cmd]
<1>1. owed \ {seq} = owed
  OBVIOUS
<1>2. RspFrags \in Nat \ {0} /\ 1 \in Nat \ {0}
  BY SizeAssumption
<1>. QED  BY <1>1, <1>2 DEF HandleCommand, Respond, Busy

LEMMA FrameFacts ==
  ASSUME TypeInv, NEW seq \in Seqs \ owed, NEW cmd \in Cmds, NEW count \in Nat,
         NEW index \in Nat, OnRxFrame(seq, cmd, count, index)
  PROVE  /\ rx' \in Received
         /\ ring' = ring \/ \E n \in Nat \ {0} : ring' = Put(ring, "rsp", n)
         /\ \/ owed' = owed /\ pending' = pending
            \/ /\ owed' = owed /\ ~pending.active /\ cmd \in Copying
               /\ pending' \in Overlaid(cmd)
            \/ /\ index + 1 = count /\ ~pending.active /\ owed' = owed \cup {seq} /\ cmd \in Deferred
               /\ pending' = [active |-> TRUE, seq |-> seq, cmd |-> cmd]
<1> DEFINE begun == IF index = 0
                    THEN [active |-> TRUE, seq |-> seq, cmd |-> cmd,
                          count |-> count, next |-> 0]
                    ELSE rx
<1>1. begun \in Received /\ NoRx \in Received /\ [begun EXCEPT !.next = index + 1] \in Received
  <2>1. /\ rx \in Received /\ seq \in Bytes /\ cmd \in Bytes
    BY Bytewise DEF TypeInv, TypeOK, Received
  <2>2. begun \in Received
    BY <2>1 DEF Received
  <2>3. NoRx \in Received
    BY DEF NoRx, Received, Bytes
  <2>4. index + 1 \in Nat
    OBVIOUS
  <2>. HIDE DEF begun
  <2>. QED  BY <2>2, <2>3, <2>4 DEF Received
<1>2. /\ rx' \in {NoRx, [begun EXCEPT !.next = index + 1]}
      /\ \/ Respond(seq, 1) /\ UNCHANGED pending
         \/ UNCHANGED <<pending, ring, owed>>
         \/ index + 1 = count /\ HandleCommand(seq, cmd)
  BY DEF OnRxFrame
<1>3. owed \ {seq} = owed
  OBVIOUS
<1>. HIDE DEF begun
<1>4. CASE Respond(seq, 1) /\ UNCHANGED pending
  <2>1. ring' = Put(ring, "rsp", 1) /\ owed' = owed /\ pending' = pending
    BY <1>3, <1>4 DEF Respond
  <2>. QED  BY <1>1, <1>2, <2>1
<1>5. CASE UNCHANGED <<pending, ring, owed>>
  BY <1>1, <1>2, <1>5
<1>6. CASE index + 1 = count /\ HandleCommand(seq, cmd)
  BY <1>1, <1>2, <1>6, HandleFacts
<1>. QED  BY <1>2, <1>4, <1>5, <1>6

LEMMA OverlaidType ==
  ASSUME pending \in Command, NEW cmd, NEW p \in Overlaid(cmd)
  PROVE  p \in Command
<1>1. \A e \in Eids : TableAlias(e) \in Command /\ ProfileAlias(e) \in Command
  <2>. SUFFICES ASSUME NEW e \in Eids PROVE TableAlias(e) \in Command /\ ProfileAlias(e) \in Command
    OBVIOUS
  <2>1. PICK x, y, z : x = (EidByte[e][0] # 0) /\ y = EidByte[e][1] /\ z = EidByte[e][2]
    OBVIOUS
  <2>2. x \in BOOLEAN /\ y \in Bytes /\ z \in Bytes
    BY <2>1, Bytewise
  <2>3. TableAlias(e) = [active |-> x, seq |-> y, cmd |-> z]
    BY <2>1 DEF TableAlias
  <2>4. TableAlias(e) \in Command
    BY <2>2, <2>3 DEF Command
  <2>5. ProfileAlias(e) \in Command
    BY Bytewise DEF ProfileAlias, Command
  <2>. QED  BY <2>4, <2>5
<1>2. p = pending \/ \E e \in Eids : p = TableAlias(e) \/ p = ProfileAlias(e)
  BY DEF Overlaid
<1>. QED  BY <1>1, <1>2

\* What a step of the host, or of the poll, does to what is owed.
LEMMA WriteFacts ==
  ASSUME TypeInv, NEW r \in Requested, Write(r)
  PROVE  /\ asking' \in Asked
         /\ asking' # NoAsk => /\ asking'.seq = r.seq /\ asking'.cmd = r.cmd
                               /\ asking'.next < asking'.count /\ r.next + 1 # r.count
<1>1. /\ r \in Asked /\ r.next < r.count
  BY RequestFacts DEF TypeInv
<1>2. asking' = IF r.next + 1 = r.count THEN NoAsk ELSE [r EXCEPT !.next = @ + 1]
  BY DEF Write
<1>3. CASE r.next + 1 = r.count
  BY <1>2, <1>3 DEF NoAsk, Asked, Bytes
<1>4. CASE r.next + 1 # r.count
  <2>1. asking' = [r EXCEPT !.next = @ + 1] /\ r.next \in Nat /\ r.count \in Nat
    BY <1>1, <1>2, <1>4 DEF Asked
  <2>2. /\ asking'.seq = r.seq /\ asking'.cmd = r.cmd /\ asking'.count = r.count
        /\ asking'.next = r.next + 1 /\ asking' \in Asked
    BY <1>1, <2>1 DEF Asked
  <2>. QED  BY <1>1, <1>4, <2>1, <2>2
<1>. QED  BY <1>3, <1>4

-----------------------------------------------------------------------------
(* The ring holds whole messages. *)

LEMMA RingKept ==
  ASSUME ring \in Seq(Item), Len(ring) <= RingSize, RingInv, RingMoves,
         Up' \/ ~Up \/ ring' = <<>>
  PROVE  ring' \in Seq(Item) /\ Len(ring') <= RingSize /\ RingInv'
<1>1. <<>> \in Seq(Item) /\ Len(<<>>) <= RingSize /\ Whole(<<>>)
  <2>1. <<>> \in Seq(Item) /\ Len(<<>>) = 0
    BY EmptySeq
  <2>2. \A i \in 1 .. Len(<<>>) - 1 : FALSE
    BY <2>1
  <2>. QED  BY <2>1, <2>2, SizeAssumption DEF Whole
<1>2. Whole(ring) /\ (~Up => ring = <<>>)
  BY DEF RingInv
<1>3. PICK q : q = ring'
  OBVIOUS
<1>4. q \in Seq(Item) /\ Len(q) <= RingSize /\ Whole(q) /\ (~Up => q = <<>>)
  <2>1. CASE \E c \in Channels, n \in Nat \ {0} : ring' = Put(ring, c, n)
    BY <1>2, <1>3, <2>1, PutFacts
  <2>2. CASE ring # <<>> /\ ring' = Tail(ring)
    BY <1>2, <1>3, <2>2, TailFacts
  <2>3. CASE ring' = ring \/ ring' = <<>>
    BY <1>1, <1>2, <1>3, <2>3
  <2>. QED  BY <2>1, <2>2, <2>3 DEF RingMoves
<1>5. Whole(ring')
  BY <1>3, <1>4
<1>. QED  BY <1>3, <1>4, <1>5 DEF RingInv, Whole

LEMMA RingStep ==
  ASSUME TypeInv, RingInv, [Next]_vars
  PROVE  ring' \in Seq(Item) /\ Len(ring') <= RingSize /\ RingInv'
<1>1. ring \in Seq(Item) /\ Len(ring) <= RingSize /\ AskInv
  BY DEF TypeInv, TypeOK, Item
<1>2. "rsp" \in Channels /\ "evt" \in Channels /\ 1 \in Nat \ {0} /\ RspFrags \in Nat \ {0}
  BY SizeAssumption DEF Channels
<1>3. CASE UNCHANGED <<ring, link>>
  BY <1>1, <1>3, RingKept DEF RingMoves, Up
<1>4. CASE FlashPending
  <2>1. link' = link /\ (ring' = ring \/ \E n \in {1, RspFrags} : ring' = Put(ring, "rsp", n))
    BY <1>4 DEF FlashPending, Respond
  <2>. QED  BY <1>1, <1>2, <2>1, RingKept DEF RingMoves, Up
<1>5. CASE ChatEventPending
  <2>1. Retimed(mailbox).state # "empty" => Retimed(mailbox).frags \in Nat \ {0}
    BY DEF Retimed, NoEvent, TypeInv, TypeOK, MailInv
  <2>2. /\ link' = link
        /\ \/ ring' = ring
           \/ /\ Retimed(mailbox).state # "empty"
              /\ ring' = Put(ring, "evt", Retimed(mailbox).frags)
    BY <1>5 DEF ChatEventPending
  <2>. QED  BY <1>1, <1>2, <2>1, <2>2, RingKept DEF RingMoves, Up
<1>6. CASE GattPoll
  <2>1. /\ ring' = ring \/ (ring # <<>> /\ ring' = Tail(ring))
        /\ link' = IF link = "lost" THEN "down" ELSE link
    BY <1>6 DEF GattPoll
  <2>. QED  BY <1>1, <2>1, RingKept DEF RingMoves, Up
<1>7. CASE EventOnce
  <2>1. link' = link /\ ring' = Put(ring, "evt", 1)
    BY <1>7 DEF EventOnce
  <2>. QED  BY <1>1, <1>2, <2>1, RingKept DEF RingMoves, Up
<1>8. CASE Connect
  <2>1. ring' = ring /\ link' = "up"
    BY <1>8 DEF Connect
  <2>. QED  BY <1>1, <2>1, RingKept DEF RingMoves, Up
<1>9. CASE Disconnect
  <2>1. ring' = <<>>
    BY <1>9 DEF Disconnect
  <2>. QED  BY <1>1, <2>1, RingKept DEF RingMoves
<1>10. CASE CmdWrite
  <2>1. PICK r \in Requested : Write(r) /\ OnRxFrame(r.seq, r.cmd, r.count, r.next)
    BY <1>10 DEF CmdWrite
  <2>2. r \in Asked /\ r.seq \in Seqs \ owed /\ r.cmd \in Cmds
    BY <1>1, RequestFacts
  <2>3. r.count \in Nat /\ r.next \in Nat
    BY <2>2 DEF Asked
  <2>4. ring' = ring \/ \E n \in Nat \ {0} : ring' = Put(ring, "rsp", n)
    BY <2>1, <2>2, <2>3, FrameFacts
  <2>5. link' = link
    BY <2>1 DEF Write
  <2>. QED  BY <1>1, <1>2, <2>4, <2>5, RingKept DEF RingMoves, Up
<1>11. CASE EndOfStack
  <2>1. ring' = ring /\ (link' = link \/ link = "lost")
    BY <1>11 DEF EndOfStack
  <2>. QED  BY <1>1, <2>1, RingKept DEF RingMoves, Up
<1>12. CASE ChatArrives \/ TimePasses \/ CccWrite \/ DamagedWrite \/ OtaStart
           \/ OtaSucceeds \/ UNCHANGED vars
  <2>1. UNCHANGED <<ring, link>>
    BY <1>12 DEF ChatArrives, TimePasses, CccWrite, DamagedWrite, Write, OtaStart,
                 OtaSucceeds, vars, device
  <2>. QED  BY <1>3, <2>1
<1>13. CASE OtaReset
  <2>1. ring' = <<>>
    BY <1>13 DEF OtaReset
  <2>. QED  BY <1>1, <2>1, RingKept DEF RingMoves
<1>. QED  BY <1>4, <1>5, <1>6, <1>7, <1>8, <1>9, <1>10, <1>11, <1>12, <1>13 DEF Next

-----------------------------------------------------------------------------
(* Types. *)

\* The variables but for the ring, the host's request and the commands.
PlainType ==
  /\ turn \in {"stack", "cmd", "chat", "gatt"} /\ link \in {"down", "up", "lost"}
  /\ ccc \in [Channels -> BOOLEAN] /\ mailbox \in Mail
  /\ ota \in {"idle", "active", "broken", "over"}
  /\ stray \in BOOLEAN /\ MailInv

LEMMA PlainStep == PlainType /\ [Next]_vars => PlainType'
<1>. SUFFICES ASSUME PlainType, [Next]_vars PROVE PlainType'
  OBVIOUS
<1>1. CASE FlashPending
  BY <1>1 DEF FlashPending, PlainType, MailInv, outside
<1>2. CASE ChatEventPending
  <2>1. Retimed(mailbox) \in Mail /\ NoEvent \in Mail
    BY DEF Retimed, NoEvent, PlainType, Mail
  <2>2. Retimed(mailbox).state # "empty" => Retimed(mailbox).frags # 0
    BY DEF Retimed, NoEvent, PlainType, Mail, MailInv
  <2>3. mailbox' \in {Retimed(mailbox), NoEvent}
    BY <1>2 DEF ChatEventPending
  <2>4. mailbox' \in Mail /\ MailInv'
    <3>1. PICK event : event = Retimed(mailbox)
      OBVIOUS
    <3>2. NoEvent.state = "empty"
      BY DEF NoEvent
    <3>. QED  BY <2>1, <2>2, <2>3, <3>1, <3>2 DEF MailInv
  <2>5. UNCHANGED <<link, ccc, ota, stray>> /\ turn' = "gatt"
    BY <1>2 DEF ChatEventPending, history
  <2>. QED  BY <2>4, <2>5 DEF PlainType
<1>3. CASE GattPoll
  BY <1>3 DEF GattPoll, PlainType, MailInv, history
<1>4. CASE EndOfStack
  BY <1>4 DEF EndOfStack, PlainType, MailInv, history
<1>5. CASE ChatArrives
  <2>1. PICK n \in ChatFrags : mailbox' = [state |-> "text", frags |-> n, late |-> FALSE]
    BY <1>5 DEF ChatArrives
  <2>2. n \in Nat /\ n # 0
    BY SizeAssumption
  <2>3. mailbox' \in Mail
    BY <2>1, <2>2 DEF Mail
  <2>4. mailbox'.frags = n
    BY <2>1
  <2>5. MailInv'
    BY <2>2, <2>4 DEF MailInv
  <2>. QED  BY <1>5, <2>3, <2>5 DEF ChatArrives, PlainType, history
<1>6. CASE TimePasses
  <2>1. mailbox' \in Mail /\ MailInv'
    BY <1>6 DEF TimePasses, PlainType, Mail, MailInv
  <2>. QED  BY <1>6, <2>1 DEF TimePasses, PlainType, history
<1>7. CASE EventOnce
  BY <1>7 DEF EventOnce, PlainType, MailInv, history
<1>8. CASE Connect
  BY <1>8 DEF Connect, PlainType, MailInv, history
<1>9. CASE Disconnect
  <2>1. Off \in [Channels -> BOOLEAN]
    BY DEF Off
  <2>. QED  BY <1>9, <2>1 DEF Disconnect, PlainType, MailInv
<1>10. CASE CccWrite
  BY <1>10 DEF CccWrite, PlainType, MailInv, history
<1>11. CASE CmdWrite \/ DamagedWrite
  BY <1>11 DEF CmdWrite, DamagedWrite, Write, PlainType, MailInv
<1>12. CASE OtaStart \/ OtaSucceeds
  BY <1>12 DEF OtaStart, OtaSucceeds, PlainType, MailInv, history
<1>13. CASE UNCHANGED vars
  BY <1>13 DEF vars, device, history, PlainType, MailInv
<1>14. CASE OtaReset
  <2>1. Off \in [Channels -> BOOLEAN] /\ NoEvent \in Mail /\ NoEvent.state = "empty"
    BY DEF Off, NoEvent, Mail
  <2>2. MailInv'
    BY <1>14, <2>1 DEF OtaReset, MailInv
  <2>. QED  BY <1>14, <2>1, <2>2 DEF OtaReset, PlainType
<1>. QED  BY <1>1, <1>2, <1>3, <1>4, <1>5, <1>6, <1>7, <1>8, <1>9, <1>10, <1>11, <1>12, <1>13, <1>14
          DEF Next

\* What the command layer and the host hold.
CommandType == /\ rx \in Received /\ pending \in Command
               /\ owed \subseteq Seqs /\ AskInv

LEMMA TypeParts ==
  TypeInv <=> /\ PlainType /\ CommandType
              /\ ring \in Seq(Item) /\ Len(ring) <= RingSize
BY DEF TypeInv, TypeOK, PlainType, CommandType, Item, Mail, Received, Command

LEMMA AskKept ==
  ASSUME AskInv, asking' = asking, owed' \subseteq owed
  PROVE  AskInv'
BY DEF AskInv

LEMMA FlashFacts ==
  ASSUME FlashPending
  PROVE  /\ pending' = pending \/ pending' = Idle
         /\ owed' \subseteq owed
BY DEF FlashPending, Respond, Cleared

LEMMA CmdWriteFacts ==
  ASSUME TypeInv, CmdWrite
  PROVE  \E r \in Requested :
           /\ r.seq \in Seqs \ owed /\ r.cmd \in Cmds /\ r.cmd \in Bytes /\ r.seq \in Bytes
           /\ rx' \in Received
           /\ asking' \in Asked
           /\ asking' # NoAsk => /\ asking'.seq = r.seq /\ asking'.cmd = r.cmd
                                 /\ asking'.next < asking'.count /\ owed' = owed
           /\ \/ owed' = owed /\ pending' = pending
              \/ /\ owed' = owed /\ ~pending.active /\ r.cmd \in Copying
                 /\ pending' \in Overlaid(r.cmd)
              \/ /\ ~pending.active /\ owed' = owed \cup {r.seq} /\ r.cmd \in Deferred
                 /\ pending' = [active |-> TRUE, seq |-> r.seq, cmd |-> r.cmd]
<1>1. PICK r \in Requested : Write(r) /\ OnRxFrame(r.seq, r.cmd, r.count, r.next)
  BY DEF CmdWrite
<1>2. r \in Asked /\ r.seq \in Seqs \ owed /\ r.cmd \in Cmds
  BY RequestFacts DEF TypeInv
<1>3. r.count \in Nat /\ r.next \in Nat /\ r.cmd \in Bytes /\ r.seq \in Bytes
  BY <1>2 DEF Asked
<1>4. /\ asking' \in Asked
      /\ asking' # NoAsk => /\ asking'.seq = r.seq /\ asking'.cmd = r.cmd
                            /\ asking'.next < asking'.count /\ r.next + 1 # r.count
  BY <1>1, WriteFacts
<1>5. /\ rx' \in Received
      /\ \/ owed' = owed /\ pending' = pending
         \/ /\ owed' = owed /\ ~pending.active /\ r.cmd \in Copying
            /\ pending' \in Overlaid(r.cmd)
         \/ /\ r.next + 1 = r.count /\ ~pending.active /\ owed' = owed \cup {r.seq} /\ r.cmd \in Deferred
            /\ pending' = [active |-> TRUE, seq |-> r.seq, cmd |-> r.cmd]
  BY <1>1, <1>2, <1>3, FrameFacts
<1>6. asking' # NoAsk => owed' = owed
  BY <1>4, <1>5
<1>. QED  BY <1>2, <1>3, <1>4, <1>5, <1>6

LEMMA CommandStep ==
  ASSUME TypeInv, [Next]_vars
  PROVE  CommandType'
<1>1. /\ rx \in Received /\ pending \in Command /\ owed \subseteq Seqs /\ AskInv
  BY TypeParts DEF CommandType
<1>2. CASE UNCHANGED <<rx, pending, owed, asking>>
  BY <1>1, <1>2, AskKept DEF CommandType
<1>3. CASE FlashPending
  <2>1. rx' = rx /\ asking' = asking
    BY <1>3 DEF FlashPending, outside
  <2>2. Idle \in Command
    BY DEF Idle, Command, Bytes
  <2>. QED  BY <1>1, <1>3, <2>1, <2>2, FlashFacts, AskKept DEF CommandType
<1>4. CASE Disconnect
  <2>1. rx' = rx /\ pending' = pending /\ asking' = NoAsk /\ owed' = {}
    BY <1>4 DEF Disconnect
  <2>2. NoAsk \in Asked
    BY DEF NoAsk, Asked, Bytes
  <2>3. AskInv'
    BY <2>1, <2>2 DEF AskInv
  <2>. QED  BY <1>1, <2>1, <2>3 DEF CommandType
<1>5. CASE DamagedWrite
  <2>1. PICK r \in Requested : Write(r) /\ UNCHANGED <<ring, rx, pending, owed>>
    BY <1>5 DEF DamagedWrite
  <2>2. r.seq \in Seqs \ owed /\ r.cmd \in Cmds
    BY <1>1, RequestFacts
  <2>3. /\ asking' \in Asked
        /\ asking' # NoAsk => /\ asking'.seq = r.seq /\ asking'.cmd = r.cmd
                              /\ asking'.next < asking'.count
    BY <2>1, WriteFacts
  <2>4. AskInv'
    BY <2>1, <2>2, <2>3 DEF AskInv
  <2>. QED  BY <1>1, <2>1, <2>4 DEF CommandType
<1>6. CASE CmdWrite
  <2>1. PICK r \in Requested :
           /\ r.seq \in Seqs \ owed /\ r.cmd \in Cmds /\ r.cmd \in Bytes /\ r.seq \in Bytes
           /\ rx' \in Received
           /\ asking' \in Asked
           /\ asking' # NoAsk => /\ asking'.seq = r.seq /\ asking'.cmd = r.cmd
                                 /\ asking'.next < asking'.count /\ owed' = owed
           /\ \/ owed' = owed /\ pending' = pending
              \/ /\ owed' = owed /\ ~pending.active /\ r.cmd \in Copying
                 /\ pending' \in Overlaid(r.cmd)
              \/ /\ ~pending.active /\ owed' = owed \cup {r.seq} /\ r.cmd \in Deferred
                 /\ pending' = [active |-> TRUE, seq |-> r.seq, cmd |-> r.cmd]
    BY <1>6, CmdWriteFacts
  <2>2. AskInv'
    BY <2>1 DEF AskInv
  <2>3. [active |-> TRUE, seq |-> r.seq, cmd |-> r.cmd] \in Command
    BY <2>1 DEF Command
  <2>4. \A p \in Overlaid(r.cmd) : p \in Command
    BY <1>1, OverlaidType
  <2>5. pending' \in Command /\ owed' \subseteq Seqs
    BY <1>1, <2>1, <2>3, <2>4
  <2>. QED  BY <2>1, <2>2, <2>5 DEF CommandType
<1>7. CASE ChatEventPending \/ GattPoll \/ EndOfStack \/ ChatArrives \/ TimePasses \/ EventOnce
           \/ Connect \/ CccWrite \/ OtaStart \/ OtaSucceeds \/ UNCHANGED vars
  <2>1. UNCHANGED <<rx, pending, owed, asking>>
    BY <1>7 DEF ChatEventPending, GattPoll, EndOfStack, ChatArrives, TimePasses, EventOnce,
                Connect, CccWrite, OtaStart, OtaSucceeds, vars, device, outside, history
  <2>. QED  BY <1>2, <2>1
<1>8. CASE OtaReset
  <2>1. rx' = NoRx /\ pending' = Idle /\ asking' = NoAsk /\ owed' = {}
    BY <1>8 DEF OtaReset
  <2>2. NoRx \in Received /\ Idle \in Command /\ NoAsk \in Asked
    BY DEF NoRx, Received, Idle, Command, NoAsk, Asked, Bytes
  <2>3. AskInv'
    BY <2>1, <2>2 DEF AskInv
  <2>. QED  BY <2>1, <2>2, <2>3 DEF CommandType
<1>. QED  BY <1>3, <1>4, <1>5, <1>6, <1>7, <1>8 DEF Next

LEMMA InitHolds == Init => TypeInv /\ RingInv /\ AnswerInv
<1>. SUFFICES ASSUME Init PROVE TypeInv /\ RingInv /\ AnswerInv
  OBVIOUS
<1>1. PlainType
  <2>1. Off \in [Channels -> BOOLEAN]
    BY DEF Off
  <2>2. NoEvent \in Mail /\ NoEvent.state = "empty"
    BY DEF NoEvent, Mail
  <2>. QED  BY <2>1, <2>2 DEF Init, PlainType, MailInv
<1>2. CommandType
  <2>1. NoRx \in Received /\ Idle \in Command /\ NoAsk \in Asked
    BY DEF NoRx, Received, Idle, Command, NoAsk, Asked, Bytes
  <2>. QED  BY <2>1 DEF Init, CommandType, AskInv
<1>3. ring = <<>> /\ ring \in Seq(Item) /\ Len(ring) = 0
  BY EmptySeq DEF Init
<1>4. RingInv
  <2>1. \A i \in 1 .. Len(ring) - 1 : FALSE
    BY <1>3
  <2>. QED  BY <1>3, <2>1 DEF RingInv, Whole
<1>5. AnswerInv
  <2>1. ~pending.active /\ ota = "idle" /\ stray = FALSE
    BY DEF Init, Idle
  <2>. QED  BY <2>1 DEF AnswerInv, PendingInv, OtaInv
<1>. QED  BY <1>1, <1>2, <1>3, <1>4, <1>5, TypeParts, SizeAssumption

LEMMA TypeStep == TypeInv /\ RingInv /\ [Next]_vars => TypeInv' /\ RingInv'
<1>. SUFFICES ASSUME TypeInv, RingInv, [Next]_vars PROVE TypeInv' /\ RingInv'
  OBVIOUS
<1>1. PlainType' /\ CommandType'
  BY PlainStep, CommandStep, TypeParts
<1>2. ring' \in Seq(Item) /\ Len(ring') <= RingSize /\ RingInv'
  BY RingStep
<1>3. (/\ PlainType /\ CommandType
       /\ ring \in Seq(Item) /\ Len(ring) <= RingSize)' => TypeInv'
  BY DEF TypeInv, TypeOK, PlainType, CommandType, Item, Mail, Received, Command
<1>. QED  BY <1>1, <1>2, <1>3

LEMMA TypesHold == Spec => [](TypeInv /\ RingInv)
BY InitHolds, TypeStep, PTL DEF Spec

\* The variables keep their types; the ring never holds more than its size.
THEOREM TypeCorrect == Spec => []TypeOK
<1>1. TypeInv => TypeOK
  BY DEF TypeInv
<1>. QED  BY <1>1, TypesHold, PTL

\* A host that listens can put every message together, whatever shares the
\* ring and whenever the link goes (app_host_gatt_send_message_with_seq,
\* app_host_gatt_on_disconnected).
THEOREM MessagesWhole == Spec => []WholeMessages
<1>1. RingInv => WholeMessages
  BY DEF RingInv, Whole, WholeMessages
<1>. QED  BY <1>1, TypesHold, PTL

-----------------------------------------------------------------------------
(* Responses. *)

(* No neighbour's identity reads as a command put off where its record      *)
(* begins, in a copy a host asks for.                                       *)
NoAlias ==
  \A e \in Eids :
    /\ GET_PEER_TABLE \in Cmds /\ EidByte[e][0] # 0 => EidByte[e][2] \notin Deferred
    /\ GET_PEER_PROFILES \in Cmds => EidByte[e][1] \notin Deferred

LEMMA OverlaidIdle ==
  ASSUME NoAlias, NEW cmd \in Cmds, cmd \in Copying, ~pending.active,
         NEW p \in Overlaid(cmd)
  PROVE  ~(p.active /\ p.cmd \in Deferred)
<1>1. CASE p = pending
  BY <1>1
<1>2. ASSUME NEW e \in Eids, cmd = GET_PEER_TABLE, p = TableAlias(e)
      PROVE  ~(p.active /\ p.cmd \in Deferred)
  <2>1. p.active = (EidByte[e][0] # 0) /\ p.cmd = EidByte[e][2]
    BY <1>2 DEF TableAlias
  <2>. QED  BY <1>2, <2>1 DEF NoAlias
<1>3. ASSUME NEW e \in Eids, cmd = GET_PEER_PROFILES, p = ProfileAlias(e)
      PROVE  ~(p.active /\ p.cmd \in Deferred)
  <2>1. p.cmd = EidByte[e][1]
    BY <1>3 DEF ProfileAlias
  <2>. QED  BY <1>3, <2>1 DEF NoAlias
<1>4. \/ p = pending
      \/ cmd = GET_PEER_TABLE /\ \E e \in Eids : p = TableAlias(e)
      \/ cmd = GET_PEER_PROFILES /\ \E e \in Eids : p = ProfileAlias(e)
  BY DEF Overlaid, Copying
<1>. QED  BY <1>1, <1>2, <1>3, <1>4

LEMMA AnswerStep ==
  ASSUME NoAlias, TypeInv, AnswerInv, [Next]_vars
  PROVE  AnswerInv'
<1>1. PendingInv /\ OtaInv /\ ~stray
  BY DEF AnswerInv
<1>2. ASSUME UNCHANGED <<pending, owed, stray, ota>>, OtaInv',
             turn \in {"chat", "gatt"} \/ link = "down"
      PROVE  AnswerInv'
  <2>1. pending.active /\ pending.cmd \in Deferred => pending.seq \in owed \/ ota = "broken"
    BY <1>1, <1>2 DEF PendingInv
  <2>. QED  BY <1>1, <1>2, <2>1 DEF AnswerInv, PendingInv
<1>3. CASE UNCHANGED <<turn, link, pending, ota, owed, stray>>
  BY <1>1, <1>3 DEF AnswerInv, PendingInv, OtaInv, Up
<1>4. CASE FlashPending
  <2>1. UNCHANGED <<link, ota>> /\ turn = "cmd" /\ turn' = "chat"
    BY <1>4 DEF FlashPending
  <2>2. CASE pending.active /\ pending.cmd \in Deferred
    <3>1. /\ pending' = Idle
          /\ \E n \in {1, RspFrags} :
               stray' = (stray \/ (Accepts(ring, "rsp", n) /\ pending.seq \notin owed))
      BY <1>4, <2>2 DEF FlashPending, Cleared, SHELL_EXEC, Deferred, CHAT_SEND, SET_PROFILE, FILE_SEND
    <3>2. Up => pending.seq \in owed
      BY <1>1, <2>1, <2>2 DEF PendingInv, OtaInv, Up
    <3>3. ~stray'
      BY <1>1, <3>1, <3>2 DEF Accepts
    <3>4. ~pending'.active
      BY <3>1 DEF Idle
    <3>. QED  BY <1>1, <2>1, <3>3, <3>4 DEF AnswerInv, PendingInv, OtaInv, Up
  <2>3. CASE ~(pending.active /\ pending.cmd \in Deferred)
    <3>1. (pending' = pending \/ pending' = Idle) /\ stray' = stray
      BY <1>4, <2>3 DEF FlashPending, Cleared
    <3>2. ~(pending'.active /\ pending'.cmd \in Deferred)
      BY <2>3, <3>1 DEF Idle
    <3>. QED  BY <1>1, <2>1, <3>1, <3>2 DEF AnswerInv, PendingInv, OtaInv, Up
  <2>. QED  BY <2>2, <2>3
<1>5. CASE ChatEventPending
  <2>1. UNCHANGED <<pending, owed, stray, link, ota>> /\ turn = "chat"
    BY <1>5 DEF ChatEventPending, history
  <2>. QED  BY <1>1, <1>2, <2>1 DEF OtaInv, Up
<1>6. CASE GattPoll
  <2>1. /\ UNCHANGED <<pending, owed, stray, ota>> /\ turn = "gatt"
        /\ link' = IF link = "lost" THEN "down" ELSE link
    BY <1>6 DEF GattPoll, history
  <2>. QED  BY <1>1, <1>2, <2>1 DEF OtaInv, Up
<1>7. CASE EndOfStack
  <2>1. /\ UNCHANGED <<pending, owed, stray, ota>> /\ turn = "stack"
        /\ \/ ~Updating /\ turn' = "cmd" /\ UNCHANGED link
           \/ /\ Updating /\ UNCHANGED turn
              /\ link' = IF link = "lost" THEN "down" ELSE link
    BY <1>7 DEF EndOfStack, history
  <2>2. CASE ~Updating /\ turn' = "cmd" /\ UNCHANGED link
    BY <1>1, <2>1, <2>2 DEF AnswerInv, PendingInv, OtaInv, Updating, Up
  <2>3. CASE ota = "active" /\ UNCHANGED turn /\ link' = IF link = "lost" THEN "down" ELSE link
    BY <1>1, <2>1, <2>3 DEF AnswerInv, PendingInv, OtaInv, Up
  <2>4. CASE ota = "broken" /\ UNCHANGED turn
    BY <1>1, <2>1, <2>4 DEF AnswerInv, PendingInv, OtaInv
  <2>. QED  BY <2>1, <2>2, <2>3, <2>4 DEF Updating
<1>8. CASE Connect
  <2>1. UNCHANGED <<turn, pending, owed, stray, ota>> /\ link = "down" /\ link' = "up"
    BY <1>8 DEF Connect, history
  <2>. QED  BY <1>1, <1>2, <2>1 DEF OtaInv, Up
<1>9. CASE Disconnect
  <2>1. /\ UNCHANGED <<pending, stray, turn>> /\ turn = "stack" /\ link' = "lost"
        /\ ota' = IF ota = "active" THEN "broken" ELSE ota
    BY <1>9 DEF Disconnect
  <2>. QED  BY <1>1, <2>1 DEF AnswerInv, PendingInv, OtaInv
<1>10. CASE CmdWrite
  <2>1. PICK r \in Requested :
           /\ r.seq \in Seqs \ owed /\ r.cmd \in Cmds /\ r.cmd \in Bytes /\ r.seq \in Bytes
           /\ rx' \in Received
           /\ asking' \in Asked
           /\ asking' # NoAsk => /\ asking'.seq = r.seq /\ asking'.cmd = r.cmd
                                 /\ asking'.next < asking'.count /\ owed' = owed
           /\ \/ owed' = owed /\ pending' = pending
              \/ /\ owed' = owed /\ ~pending.active /\ r.cmd \in Copying
                 /\ pending' \in Overlaid(r.cmd)
              \/ /\ ~pending.active /\ owed' = owed \cup {r.seq} /\ r.cmd \in Deferred
                 /\ pending' = [active |-> TRUE, seq |-> r.seq, cmd |-> r.cmd]
    BY <1>10, CmdWriteFacts
  <2>2. UNCHANGED <<turn, link, ota, stray>>
    BY <1>10 DEF CmdWrite, Write
  <2>3. CASE owed' = owed /\ pending' = pending
    BY <1>3, <2>2, <2>3
  <2>4. CASE /\ owed' = owed /\ ~pending.active /\ r.cmd \in Copying
             /\ pending' \in Overlaid(r.cmd)
    <3>1. ~(pending'.active /\ pending'.cmd \in Deferred)
      BY <2>1, <2>4, OverlaidIdle
    <3>. QED  BY <1>1, <2>2, <3>1 DEF AnswerInv, PendingInv, OtaInv, Up
  <2>5. CASE /\ ~pending.active /\ owed' = owed \cup {r.seq} /\ r.cmd \in Deferred
             /\ pending' = [active |-> TRUE, seq |-> r.seq, cmd |-> r.cmd]
    <3>1. pending'.seq \in owed'
      BY <2>5
    <3>. QED  BY <1>1, <2>2, <3>1 DEF AnswerInv, PendingInv, OtaInv, Up
  <2>. QED  BY <2>1, <2>3, <2>4, <2>5
<1>11. CASE OtaStart \/ OtaSucceeds
  <2>1. /\ UNCHANGED <<turn, link, pending, owed, stray>> /\ ota # "broken"
        /\ (ota' = "active" /\ Up) \/ ota' = "over"
    BY <1>11 DEF OtaStart, OtaSucceeds, history
  <2>. QED  BY <1>1, <2>1 DEF AnswerInv, PendingInv, OtaInv, Up
<1>12. CASE ChatArrives \/ TimePasses \/ EventOnce \/ CccWrite \/ DamagedWrite \/ UNCHANGED vars
  <2>1. UNCHANGED <<turn, link, pending, ota, owed, stray>>
    BY <1>12 DEF ChatArrives, TimePasses, EventOnce, CccWrite, DamagedWrite, Write, vars, device,
                 history
  <2>. QED  BY <1>3, <2>1
<1>13. CASE OtaReset
  <2>1. ~pending'.active /\ ota' = "idle" /\ stray' = stray
    BY <1>13 DEF OtaReset, Idle
  <2>. QED  BY <1>1, <2>1 DEF AnswerInv, PendingInv, OtaInv
<1>. QED  BY <1>4, <1>5, <1>6, <1>7, <1>8, <1>9, <1>10, <1>11, <1>12, <1>13 DEF Next

(* A response answers a request of this connection that has none yet, also  *)
(* over a lost link or an update before the poll, as long as no neighbour's *)
(* identity reads as a command put off.  s_pending lies under the copies of *)
(* the peer table and of the profile cache: without NoAlias TLC refutes it  *)
(* (send_rsp, handle_flash_pending).                                        *)
THEOREM ResponsesMatch == ASSUME NoAlias PROVE Spec => []RspReusesSeq
<1>1. Init => TypeInv /\ RingInv /\ AnswerInv
  BY InitHolds
<1>2. TypeInv /\ RingInv /\ AnswerInv /\ [Next]_vars => (TypeInv /\ RingInv /\ AnswerInv)'
  BY TypeStep, AnswerStep
<1>3. AnswerInv => RspReusesSeq
  BY DEF AnswerInv, RspReusesSeq
<1>. QED  BY <1>1, <1>2, <1>3, PTL DEF Spec

\* A request without a response is the one that is put off.
OwedInv ==
  \A seq \in owed : pending.active /\ pending.cmd \in Deferred /\ pending.seq = seq

LEMMA OwedStep ==
  ASSUME TypeInv, OwedInv, [Next]_vars
  PROVE  OwedInv'
<1>1. CASE UNCHANGED <<pending, owed>>
  BY <1>1 DEF OwedInv
<1>2. CASE FlashPending
  <2>1. CASE pending.active /\ pending.cmd \in Deferred
    <3>1. owed' = owed \ {pending.seq}
      BY <1>2, <2>1 DEF FlashPending, Respond, SHELL_EXEC, Deferred, CHAT_SEND, SET_PROFILE, FILE_SEND
    <3>2. owed' = {}
      BY <3>1 DEF OwedInv
    <3>. QED  BY <3>2 DEF OwedInv
  <2>2. CASE ~(pending.active /\ pending.cmd \in Deferred)
    <3>1. owed = {} /\ owed' \subseteq owed
      BY <1>2, <2>2, FlashFacts DEF OwedInv
    <3>. QED  BY <3>1 DEF OwedInv
  <2>. QED  BY <2>1, <2>2
<1>3. CASE Disconnect \/ OtaReset
  <2>1. owed' = {}
    BY <1>3 DEF Disconnect, OtaReset
  <2>. QED  BY <2>1 DEF OwedInv
<1>4. CASE CmdWrite
  <2>1. PICK r \in Requested :
           \/ owed' = owed /\ pending' = pending
           \/ owed' = owed /\ ~pending.active
           \/ /\ ~pending.active /\ owed' = owed \cup {r.seq} /\ r.cmd \in Deferred
              /\ pending' = [active |-> TRUE, seq |-> r.seq, cmd |-> r.cmd]
    BY <1>4, CmdWriteFacts
  <2>2. CASE owed' = owed /\ pending' = pending
    BY <1>1, <2>2
  <2>3. CASE owed' = owed /\ ~pending.active
    BY <2>3 DEF OwedInv
  <2>4. CASE /\ ~pending.active /\ owed' = owed \cup {r.seq} /\ r.cmd \in Deferred
             /\ pending' = [active |-> TRUE, seq |-> r.seq, cmd |-> r.cmd]
    <3>1. owed' = {r.seq}
      BY <2>4 DEF OwedInv
    <3>2. pending'.active /\ pending'.cmd \in Deferred /\ pending'.seq = r.seq
      BY <2>4
    <3>. QED  BY <3>1, <3>2 DEF OwedInv
  <2>. QED  BY <2>1, <2>2, <2>3, <2>4
<1>5. CASE ChatEventPending \/ GattPoll \/ EndOfStack \/ ChatArrives \/ TimePasses \/ EventOnce
           \/ Connect \/ CccWrite \/ OtaStart \/ OtaSucceeds \/ DamagedWrite \/ UNCHANGED vars
  <2>1. UNCHANGED <<pending, owed>>
    BY <1>5 DEF ChatEventPending, GattPoll, EndOfStack, ChatArrives, TimePasses, EventOnce,
                Connect, CccWrite, OtaStart, OtaSucceeds, DamagedWrite, vars, device, outside, history
  <2>. QED  BY <1>1, <2>1
<1>. QED  BY <1>2, <1>3, <1>4, <1>5 DEF Next

(* No request is forgotten: while one has no response, the poll still holds *)
(* it, so no later command, copy or update overwrites it (s_pending,        *)
(* handle_command).  A lost link or a reset ends the request too; that the  *)
(* poll comes is a matter of fairness.                                      *)
THEOREM NoneForgotten == Spec => []OwedInv
<1>1. Init => TypeInv /\ RingInv /\ OwedInv
  BY InitHolds DEF Init, OwedInv
<1>2. TypeInv /\ RingInv /\ OwedInv /\ [Next]_vars => (TypeInv /\ RingInv /\ OwedInv)'
  BY TypeStep, OwedStep
<1>. QED  BY <1>1, <1>2, PTL DEF Spec

=============================================================================
