---------------------------- MODULE ChatSendProofs ----------------------------
(***************************************************************************)
(* Theorems about ChatSend, for every set of neighbours and every number   *)
(* of messages and faults.                                                 *)
(***************************************************************************)
EXTENDS ChatSend, SequenceTheorems, FunctionTheorems, FiniteSetTheorems,
        WellFoundedInduction, TLAPS

-----------------------------------------------------------------------------
(* Sequences without repetition. *)

LEMMA Elements ==
  ASSUME NEW S, NEW s \in Seq(S)
  PROVE  /\ Len(s) \in Nat /\ DOMAIN s = 1 .. Len(s)
         /\ \A i \in 1 .. Len(s) : s[i] \in S
         /\ ToSet(s) \subseteq S /\ ToSet(s) = {s[i] : i \in 1 .. Len(s)}
         /\ s # <<>> => Len(s) > 0
         /\ IsInjective(s) <=> \A i, j \in 1 .. Len(s) : s[i] = s[j] => i = j
BY LenProperties, EmptySeq DEF ToSet, IsInjective

LEMMA Emptied ==
  ASSUME NEW S
  PROVE  <<>> \in Seq(S) /\ ToSet(<<>>) = {} /\ IsInjective(<<>>) /\ Len(<<>>) = 0
<1>1. <<>> \in Seq(S) /\ Len(<<>>) = 0
  BY EmptySeq
<1>2. PICK s \in Seq(S) : s = <<>>
  BY <1>1
<1>3. Len(s) = 0 /\ \A i \in 1 .. Len(s) : FALSE
  BY <1>1, <1>2
<1>4. ToSet(s) = {}
  <2>1. ToSet(s) = {s[i] : i \in 1 .. Len(s)}
    BY Elements
  <2>. QED  BY <1>3, <2>1
<1>5. IsInjective(s)
  BY <1>3, Elements
<1>. QED  BY <1>1, <1>2, <1>4, <1>5

LEMMA SubSeqRange ==
  ASSUME NEW S, NEW s \in Seq(S), NEW a \in Nat \ {0}, NEW b \in Nat, b <= Len(s)
  PROVE  /\ SubSeq(s, a, b) \in Seq(S)
         /\ Len(SubSeq(s, a, b)) = IF a <= b THEN (b - a) + 1 ELSE 0
         /\ ToSet(SubSeq(s, a, b)) = {s[i] : i \in a .. b}
         /\ ToSet(SubSeq(s, a, b)) \subseteq ToSet(s)
         /\ IsInjective(s) => IsInjective(SubSeq(s, a, b))
<1>1. Len(s) \in Nat /\ \A i \in 1 .. Len(s) : s[i] \in S
  BY Elements
<1>2. \A i \in a .. b : s[i] \in S /\ i \in 1 .. Len(s)
  BY <1>1
<1>3. PICK t : t = SubSeq(s, a, b)
  OBVIOUS
<1>4. /\ t \in Seq(S) /\ Len(t) = IF a <= b THEN (b - a) + 1 ELSE 0
      /\ \A i \in 1 .. (b - a) + 1 : t[i] = s[(a + i) - 1]
  BY <1>2, <1>3, SubSeqProperties
<1>5. ToSet(t) = {t[i] : i \in 1 .. Len(t)}
  BY <1>4, Elements
<1>6. ASSUME NEW x PROVE x \in ToSet(t) <=> \E i \in a .. b : x = s[i]
  <2>1. ASSUME NEW i \in 1 .. Len(t), x = t[i] PROVE \E k \in a .. b : x = s[k]
    <3>1. (a + i) - 1 \in a .. b /\ x = s[(a + i) - 1]
      BY <1>4, <2>1
    <3>. QED  BY <3>1
  <2>2. ASSUME NEW i \in a .. b, x = s[i] PROVE \E k \in 1 .. Len(t) : x = t[k]
    <3>1. (i - a) + 1 \in 1 .. Len(t) /\ t[(i - a) + 1] = s[i]
      BY <1>4
    <3>. QED  BY <2>2, <3>1
  <2>. QED  BY <1>5, <2>1, <2>2
<1>7. ToSet(t) = {s[i] : i \in a .. b}
  BY <1>6
<1>8. ToSet(t) \subseteq ToSet(s)
  BY <1>2, <1>7, Elements
<1>9. ASSUME IsInjective(s) PROVE IsInjective(t)
  <2>1. ASSUME NEW i \in 1 .. Len(t), NEW j \in 1 .. Len(t), t[i] = t[j] PROVE i = j
    <3>1. /\ (a + i) - 1 \in 1 .. Len(s) /\ t[i] = s[(a + i) - 1]
          /\ (a + j) - 1 \in 1 .. Len(s) /\ t[j] = s[(a + j) - 1]
      BY <1>1, <1>4
    <3>2. \A k, l \in 1 .. Len(s) : s[k] = s[l] => k = l
      BY <1>9, Elements
    <3>3. (a + i) - 1 = (a + j) - 1
      BY <2>1, <3>1, <3>2
    <3>. QED  BY <3>3
  <2>. QED  BY <1>4, <2>1, Elements
<1>. QED  BY <1>3, <1>4, <1>7, <1>8, <1>9

LEMMA ConcatRange ==
  ASSUME NEW S, NEW s \in Seq(S), NEW t \in Seq(S)
  PROVE  /\ s \o t \in Seq(S)
         /\ ToSet(s \o t) = ToSet(s) \cup ToSet(t)
         /\ IsInjective(s) /\ IsInjective(t) /\ ToSet(s) \cap ToSet(t) = {} => IsInjective(s \o t)
<1>1. PICK u : u = s \o t
  OBVIOUS
<1>2. /\ u \in Seq(S) /\ Len(u) = Len(s) + Len(t) /\ Len(s) \in Nat /\ Len(t) \in Nat
      /\ \A i \in 1 .. Len(s) + Len(t) : u[i] = IF i <= Len(s) THEN s[i] ELSE t[i - Len(s)]
  BY <1>1, ConcatProperties, LenProperties
<1>3. ASSUME NEW x PROVE x \in ToSet(u) <=> x \in ToSet(s) \cup ToSet(t)
  <2>1. ASSUME NEW i \in 1 .. Len(u) PROVE u[i] \in ToSet(s) \cup ToSet(t)
    <3>1. CASE i <= Len(s)
      BY <1>2, <3>1, Elements
    <3>2. CASE i > Len(s)
      <4>1. i - Len(s) \in 1 .. Len(t) /\ u[i] = t[i - Len(s)]
        BY <1>2, <3>2
      <4>. QED  BY <4>1, Elements
    <3>. QED  BY <1>2, <3>1, <3>2
  <2>2. ASSUME NEW i \in 1 .. Len(s) PROVE s[i] \in ToSet(u)
    <3>1. i \in 1 .. Len(u) /\ u[i] = s[i]
      BY <1>2
    <3>. QED  BY <1>2, <3>1, Elements
  <2>3. ASSUME NEW i \in 1 .. Len(t) PROVE t[i] \in ToSet(u)
    <3>1. i + Len(s) \in 1 .. Len(u) /\ u[i + Len(s)] = t[i]
      BY <1>2
    <3>. QED  BY <1>2, <3>1, Elements
  <2>4. /\ ToSet(u) = {u[i] : i \in 1 .. Len(u)} /\ ToSet(s) = {s[i] : i \in 1 .. Len(s)}
        /\ ToSet(t) = {t[i] : i \in 1 .. Len(t)}
    BY <1>2, Elements
  <2>. QED  BY <2>1, <2>2, <2>3, <2>4
<1>4. ASSUME IsInjective(s), IsInjective(t), ToSet(s) \cap ToSet(t) = {} PROVE IsInjective(u)
  <2>1. ASSUME NEW i \in 1 .. Len(u), NEW j \in 1 .. Len(u), u[i] = u[j] PROVE i = j
    <3>1. CASE i <= Len(s) /\ j <= Len(s)
      BY <1>2, <1>4, <2>1, <3>1, Elements
    <3>2. CASE i > Len(s) /\ j > Len(s)
      <4>1. /\ i - Len(s) \in 1 .. Len(t) /\ u[i] = t[i - Len(s)]
            /\ j - Len(s) \in 1 .. Len(t) /\ u[j] = t[j - Len(s)]
        BY <1>2, <3>2
      <4>2. i - Len(s) = j - Len(s)
        BY <1>4, <2>1, <4>1, Elements
      <4>. QED  BY <1>2, <4>2
    <3>3. ASSUME NEW k \in 1 .. Len(s), NEW l \in 1 .. Len(u), l > Len(s) PROVE u[k] # u[l]
      <4>1. k \in 1 .. Len(u) /\ u[k] = s[k] /\ l - Len(s) \in 1 .. Len(t) /\ u[l] = t[l - Len(s)]
        BY <1>2, <3>3
      <4>2. u[k] \in ToSet(s) /\ u[l] \in ToSet(t)
        BY <4>1, Elements
      <4>. QED  BY <1>4, <4>2
    <3>. QED  BY <1>2, <2>1, <3>1, <3>2, <3>3
  <2>. QED  BY <1>2, <2>1, Elements
<1>. QED  BY <1>1, <1>2, <1>3, <1>4

LEMMA AppendRange ==
  ASSUME NEW S, NEW s \in Seq(S), NEW e \in S
  PROVE  /\ Append(s, e) \in Seq(S)
         /\ ToSet(Append(s, e)) = ToSet(s) \cup {e}
         /\ IsInjective(s) /\ e \notin ToSet(s) => IsInjective(Append(s, e))
<1>1. PICK t : t = <<e>>
  OBVIOUS
<1>2. t \in Seq(S) /\ Len(t) = 1 /\ t[1] = e
  BY <1>1
<1>3. ToSet(t) = {e}
  BY <1>2, Elements
<1>4. \A i, j \in 1 .. Len(t) : i = j
  BY <1>2
<1>5. IsInjective(t)
  BY <1>2, <1>4, Elements
<1>6. Append(s, e) = s \o t
  BY <1>1, AppendIsConcat
<1>. QED  BY <1>2, <1>3, <1>5, <1>6, ConcatRange

LEMMA TailRange ==
  ASSUME NEW S, NEW s \in Seq(S), s # <<>>
  PROVE  /\ Tail(s) \in Seq(S) /\ Head(s) \in S /\ Head(s) \in ToSet(s)
         /\ ToSet(Tail(s)) \subseteq ToSet(s)
         /\ IsInjective(s) => IsInjective(Tail(s)) /\ Head(s) \notin ToSet(Tail(s))
<1>1. /\ Tail(s) \in Seq(S) /\ Head(s) \in S /\ Len(Tail(s)) = Len(s) - 1 /\ Len(s) \in Nat \ {0}
      /\ \A i \in 1 .. Len(Tail(s)) : Tail(s)[i] = s[i + 1]
  BY HeadTailProperties, EmptySeq
<1>2. Head(s) = s[1]
  OBVIOUS
<1>3. Head(s) \in ToSet(s)
  BY <1>1, <1>2, Elements
<1>4. Tail(s) = SubSeq(s, 2, Len(s))
  BY TailIsSubSeq
<1>5. PICK b : b = Len(s)
  OBVIOUS
<1>6. /\ ToSet(Tail(s)) = {s[i] : i \in 2 .. b} /\ ToSet(Tail(s)) \subseteq ToSet(s)
      /\ IsInjective(s) => IsInjective(Tail(s))
  <2>1. PICK a \in Nat \ {0} : a = 2
    OBVIOUS
  <2>2. b \in Nat /\ b <= Len(s)
    BY <1>1, <1>5
  <2>3. PICK t : t = SubSeq(s, a, b)
    OBVIOUS
  <2>4. /\ ToSet(t) = {s[i] : i \in a .. b} /\ ToSet(t) \subseteq ToSet(s)
        /\ IsInjective(s) => IsInjective(t)
    BY <2>2, <2>3, SubSeqRange
  <2>5. Tail(s) = t
    BY <1>4, <1>5, <2>1, <2>3
  <2>. QED  BY <2>1, <2>4, <2>5
<1>7. ASSUME IsInjective(s) PROVE Head(s) \notin ToSet(Tail(s))
  <2>1. \A i \in 2 .. b : s[i] # s[1]
    BY <1>1, <1>5, <1>7, Elements
  <2>. QED  BY <1>2, <1>6, <2>1
<1>. QED  BY <1>1, <1>3, <1>6, <1>7

LEMMA WithoutRange ==
  ASSUME NEW S, NEW s \in Seq(S), NEW p, IsInjective(s)
  PROVE  /\ Without(s, p) \in Seq(S) /\ IsInjective(Without(s, p))
         /\ ToSet(Without(s, p)) = ToSet(s) \ {p}
<1>1. CASE p \notin ToSet(s)
  BY <1>1 DEF Without
<1>2. CASE p \in ToSet(s)
  <2>1. Len(s) \in Nat /\ DOMAIN s = 1 .. Len(s)
    BY Elements
  <2>2. PICK i : i = CHOOSE j \in DOMAIN s : s[j] = p
    OBVIOUS
  <2>3. \E j \in DOMAIN s : s[j] = p
    BY <1>2 DEF ToSet
  <2>4. i \in 1 .. Len(s) /\ s[i] = p
    BY <2>1, <2>2, <2>3
  <2>5. PICK b, c, d : b = i - 1 /\ c = i + 1 /\ d = Len(s)
    OBVIOUS
  <2>6. b \in Nat /\ b <= Len(s) /\ c \in Nat \ {0} /\ d \in Nat /\ d <= Len(s) /\ 1 \in Nat \ {0}
    BY <2>1, <2>4, <2>5
  <2>7. PICK t, u : t = SubSeq(s, 1, b) /\ u = SubSeq(s, c, d)
    OBVIOUS
  <2>8. /\ t \in Seq(S) /\ IsInjective(t) /\ ToSet(t) = {s[j] : j \in 1 .. b}
        /\ u \in Seq(S) /\ IsInjective(u) /\ ToSet(u) = {s[j] : j \in c .. d}
    BY <2>6, <2>7, SubSeqRange
  <2>9. Without(s, p) = t \o u
    BY <1>2, <2>2, <2>5, <2>7 DEF Without, RemoveAt
  <2>10. \A k, l \in 1 .. d : s[k] = s[l] => k = l
    BY <2>5, Elements
  <2>11. ToSet(s) = {s[k] : k \in 1 .. d}
    BY <2>5, Elements
  <2>12. 1 .. d = (1 .. b) \cup {i} \cup (c .. d)
    BY <2>4, <2>5, <2>6
  <2>13. ToSet(t) \cap ToSet(u) = {}
    <3>1. \A k \in 1 .. b, l \in c .. d : k # l /\ k \in 1 .. d /\ l \in 1 .. d
      BY <2>4, <2>5, <2>6
    <3>. QED  BY <2>8, <2>10, <3>1
  <2>14. ToSet(t) \cup ToSet(u) = ToSet(s) \ {p}
    <3>1. i \in 1 .. d /\ \A k \in (1 .. b) \cup (c .. d) : k # i
      BY <2>4, <2>5, <2>6
    <3>2. \A k \in (1 .. b) \cup (c .. d) : k \in 1 .. d
      BY <2>12
    <3>3. \A k \in (1 .. b) \cup (c .. d) : s[k] # p
      BY <2>4, <2>10, <3>1, <3>2
    <3>. QED  BY <2>4, <2>8, <2>11, <2>12, <3>3
  <2>15. /\ t \o u \in Seq(S) /\ ToSet(t \o u) = ToSet(t) \cup ToSet(u)
         /\ IsInjective(t \o u)
    BY <2>8, <2>13, ConcatRange
  <2>. QED  BY <2>9, <2>14, <2>15
<1>. QED  BY <1>1, <1>2

LEMMA SetToSeqRange ==
  ASSUME NEW S, NEW T, T \subseteq S, IsFiniteSet(T)
  PROVE  SetToSeq(T) \in Seq(S) /\ IsInjective(SetToSeq(T)) /\ ToSet(SetToSeq(T)) = T
<1>1. PICK n : n = Cardinality(T)
  OBVIOUS
<1>2. n \in Nat /\ ExistsBijection(1 .. n, T)
  BY <1>1, FS_CardinalityType
<1>3. PICK g : g \in Bijection(1 .. n, T)
  BY <1>2 DEF ExistsBijection
<1>4. g \in [1 .. n -> T] /\ IsInjective(g)
  BY <1>3 DEF Bijection, Injection
<1>5. PICK f : f = SetToSeq(T)
  OBVIOUS
<1>6. f = CHOOSE h \in [1 .. n -> T] : IsInjective(h)
  BY <1>1, <1>5 DEF SetToSeq
<1>7. f \in [1 .. n -> T] /\ IsInjective(f)
  BY <1>4, <1>6
<1>8. f \in Injection(1 .. n, T)
  BY <1>7 DEF Injection
<1>9. f \in Surjection(1 .. n, T)
  <2>1. Cardinality(1 .. n) = n
    BY <1>2, FS_Interval
  <2>. QED  BY <1>1, <1>8, <2>1, FS_Injection
<1>10. \A x \in T : \E i \in 1 .. n : f[i] = x
  BY <1>9 DEF Surjection
<1>11. f \in [1 .. n -> S] /\ DOMAIN f = 1 .. n
  BY <1>7
<1>12. f \in Seq(S)
  BY <1>2, <1>11, SeqDef
<1>13. ToSet(f) = T
  BY <1>7, <1>10, <1>11 DEF ToSet
<1>. QED  BY <1>5, <1>7, <1>12, <1>13

LEMMA LeastExists ==
  ASSUME NEW S, S \subseteq Nat, S # {}
  PROVE  \E i \in S : \A j \in S : i <= j
<1>1. PICK i \in S : \A j \in S : ~ (<<j, i>> \in OpToRel(<, Nat))
  BY NatLessThanWellFounded, WFMin
<1>2. \A j \in S : ~(j < i)
  BY <1>1 DEF OpToRel
<1>. QED  BY <1>2

-----------------------------------------------------------------------------
(* The invariant. *)

\* A file transfer of an avatar is to a neighbour.
TypeInv == TypeOK /\ (app.file = "avatar" => app.fileTo \in Peer)

\* AvatarsMove, of a state x.
Moves(x) ==
  x.avatars # <<>> /\ ~x.stranded =>
    x.avatarTimer \/ HasPendingChatWork(x) \/ x.file = "avatar"

\* The messages with the pendant, and what waits, are reported once at most.
Unreported(m) == m <= typed /\ truth[m] = "none"

OnceInv ==
  /\ IsInjective(app.queue) /\ IsInjective(pendant.cmds)
  /\ \A m \in ToSet(app.queue) : Unreported(m)
  /\ \A m \in ToSet(pendant.cmds) : Unreported(m) /\ m \notin ToSet(app.queue)
  /\ pendant.tx # Nobody => /\ Unreported(pendant.tx)
                            /\ pendant.tx \notin ToSet(app.queue)
                            /\ pendant.tx \notin ToSet(pendant.cmds)
  /\ \A m \in Message : truth[m] # "none" => m <= typed

\* What the transport reported has not changed since.
Told(note) ==
  note.name = "result" /\ note.result = "success" =>
    \/ note.to = None /\ truth[note.message] = "unnamed"
    \/ /\ truth[note.message] = "success"
       /\ note.to # None /\ app.to[note.message] = note.to

NotesInv == \A i \in 1 .. Len(pendant.notes) : Told(pendant.notes[i])

IInv == TypeInv /\ OnceInv /\ NotesInv /\ DeliveredByPeer /\ Moves(app)

-----------------------------------------------------------------------------
(* The methods of the app. *)

SameLink(x, y)    == y.ready = x.ready /\ y.peers = x.peers /\ y.blocked = x.blocked
SameAvatars(x, y) == /\ y.avatars = x.avatars /\ y.queuedKeys = x.queuedKeys
                     /\ y.sentKeys = x.sentKeys /\ y.file = x.file /\ y.fileTo = x.fileTo
SameChat(x, y)    == /\ y.active = x.active /\ y.queue = x.queue /\ y.timeout = x.timeout
                     /\ y.status = x.status /\ y.to = x.to /\ y.long = x.long
SameTimer(x, y)   == y.avatarTimer = x.avatarTimer /\ y.stranded = x.stranded

\* What the app is told stays, no message is called delivered anew.
NoneDelivered(x, y) == \A m \in Message : y.status[m] = "delivered" => x.status[m] = "delivered"

LEMMA TimerFacts ==
  ASSUME NEW x \in App, NEW y \in {ScheduleAvatarSend(x), CancelAvatarSend(x), Strand(x)}
  PROVE  y \in App /\ SameLink(x, y) /\ SameAvatars(x, y) /\ SameChat(x, y)
<1>1. CASE y = ScheduleAvatarSend(x)
  <2>1. y = [x EXCEPT !.avatarTimer = TRUE, !.stranded = FALSE]
    BY <1>1 DEF ScheduleAvatarSend
  <2>. QED  BY <2>1 DEF App, SameLink, SameAvatars, SameChat
<1>2. CASE y = CancelAvatarSend(x)
  <2>1. y = [x EXCEPT !.avatarTimer = FALSE]
    BY <1>2 DEF CancelAvatarSend
  <2>. QED  BY <2>1 DEF App, SameLink, SameAvatars, SameChat
<1>3. CASE y = Strand(x)
  <2>1. y = [x EXCEPT !.avatarTimer = FALSE, !.stranded = TRUE]
    BY <1>3 DEF Strand
  <2>. QED  BY <2>1 DEF App, SameLink, SameAvatars, SameChat
<1>. QED  BY <1>1, <1>2, <1>3

LEMMA ScheduledMoves ==
  ASSUME NEW x \in App
  PROVE  Moves(ScheduleAvatarSend(x)) /\ Moves(Strand(x))
<1>1. ScheduleAvatarSend(x).avatarTimer
  BY DEF ScheduleAvatarSend, App
<1>2. Strand(x).stranded
  BY DEF Strand, App
<1>. QED  BY <1>1, <1>2 DEF Moves

LEMMA AfterChatFacts ==
  ASSUME NEW x \in App
  PROVE  LET y == AvatarsAfterChat(x)
         IN  /\ y \in App /\ SameLink(x, y) /\ SameAvatars(x, y) /\ SameChat(x, y) /\ Moves(y)
<1>1. CASE ~HasPendingChatWork(x) /\ x.avatars # <<>>
  <2>1. AvatarsAfterChat(x) = ScheduleAvatarSend(x)
    BY <1>1 DEF AvatarsAfterChat
  <2>. QED  BY <2>1, TimerFacts, ScheduledMoves
<1>2. CASE HasPendingChatWork(x) \/ x.avatars = <<>>
  <2>1. AvatarsAfterChat(x) = x
    BY <1>2 DEF AvatarsAfterChat
  <2>. QED  BY <1>2, <2>1 DEF SameLink, SameAvatars, SameChat, Moves
<1>. QED  BY <1>1, <1>2

LEMMA MarkFacts ==
  ASSUME NEW x \in App, NEW M, NEW s \in Status, NEW y, y = Mark(x, M, s)
  PROVE  /\ y \in App /\ SameLink(x, y) /\ SameAvatars(x, y) /\ SameTimer(x, y)
         /\ y.active = x.active /\ y.queue = x.queue /\ y.timeout = x.timeout
         /\ y.to = x.to /\ y.long = x.long
         /\ \A m \in Message : y.status[m] = IF m \in M THEN s ELSE x.status[m]
<1>1. PICK f : f = [m \in Message |-> IF m \in M THEN s ELSE x.status[m]]
  OBVIOUS
<1>2. x.status \in [Message -> Status]
  BY DEF App
<1>3. f \in [Message -> Status]
  BY <1>1, <1>2
<1>4. y = [x EXCEPT !.status = f]
  BY <1>1 DEF Mark
<1>5. y \in App /\ y.status = f
  BY <1>3, <1>4 DEF App
<1>6. /\ SameLink(x, y) /\ SameAvatars(x, y) /\ SameTimer(x, y)
      /\ y.active = x.active /\ y.queue = x.queue /\ y.timeout = x.timeout
      /\ y.to = x.to /\ y.long = x.long
  BY <1>4 DEF App, SameLink, SameAvatars, SameTimer
<1>. QED  BY <1>1, <1>5, <1>6

(* dispatchNextChatSend *)
LEMMA DispatchFacts ==
  ASSUME NEW x \in App, IsInjective(x.queue), NEW y, y = DispatchNext(x)
  PROVE  /\ y \in App /\ SameLink(x, y) /\ SameAvatars(x, y) /\ y.to = x.to
         /\ NoneDelivered(x, y) /\ Moves(y)
         /\ IsInjective(y.queue) /\ ToSet(y.queue) \subseteq ToSet(x.queue)
         /\ y.active # x.active => y.active \in ToSet(x.queue) \ ToSet(y.queue)
<1>1. CASE x.active # Nobody
  <2>1. y = x
    BY <1>1 DEF DispatchNext
  <2>. QED
    BY <1>1, <2>1 DEF SameLink, SameAvatars, NoneDelivered, Moves, HasPendingChatWork
<1>2. CASE x.active = Nobody
  <2> DEFINE sendable == {i \in DOMAIN x.queue :
                            x.ready /\ x.to[x.queue[i]] \notin x.blocked /\ x.queue[i] \notin x.long}
             first == CHOOSE i \in sendable : \A j \in sendable : i <= j
             failed == IF sendable = {} THEN ToSet(x.queue)
                       ELSE {x.queue[i] : i \in 1..first - 1}
  <2>1. PICK u, v : u = Mark(x, failed, "failed") /\ v = [u EXCEPT !.long = @ \ failed]
    OBVIOUS
  <2>2. "failed" \in Status /\ "sending" \in Status /\ "failed" # "delivered" /\ "sending" # "delivered"
    BY DEF Status, Final
  <2>3. y = IF sendable = {} THEN AvatarsAfterChat([v EXCEPT !.queue = <<>>])
            ELSE [Mark(v, {x.queue[first]}, "sending") EXCEPT
                    !.active = x.queue[first], !.timeout = TRUE,
                    !.queue = SubSeq(@, first + 1, Len(@))]
    <3> DEFINE z == [Mark(x, failed, "failed") EXCEPT !.long = @ \ failed]
    <3>1. y = IF x.active # Nobody THEN x
              ELSE IF sendable = {} THEN AvatarsAfterChat([z EXCEPT !.queue = <<>>])
              ELSE [Mark(z, {x.queue[first]}, "sending") EXCEPT
                      !.active = x.queue[first], !.timeout = TRUE,
                      !.queue = SubSeq(@, first + 1, Len(@))]
      BY Zenon DEF DispatchNext
    <3>2. v = z
      BY <2>1
    <3>. HIDE DEF z, sendable, first, failed
    <3>. QED  BY <1>2, <3>1, <3>2
  <2>4. sendable \subseteq 1 .. Len(x.queue) /\ Len(x.queue) \in Nat /\ x.queue \in Seq(Message)
    <3>1. x.queue \in Seq(Message)
      BY DEF App
    <3>. QED  BY <3>1, Elements
  <2>5. sendable # {} => first \in sendable
    <3>1. sendable # {} => \E i \in sendable : \A j \in sendable : i <= j
      <4>1. sendable \subseteq Nat
        BY <2>4
      <4>. HIDE DEF sendable
      <4>. QED  BY <4>1, LeastExists
    <3>. QED  BY <3>1
  <2>. HIDE DEF sendable, first, failed
  <2>6. /\ u \in App /\ SameLink(x, u) /\ SameAvatars(x, u) /\ SameTimer(x, u)
        /\ u.active = x.active /\ u.queue = x.queue /\ u.to = x.to
        /\ NoneDelivered(x, u)
    <3>1. /\ u \in App /\ SameLink(x, u) /\ SameAvatars(x, u) /\ SameTimer(x, u)
          /\ u.active = x.active /\ u.queue = x.queue /\ u.to = x.to
          /\ \A m \in Message : u.status[m] = IF m \in failed THEN "failed" ELSE x.status[m]
      BY <2>1, <2>2, MarkFacts
    <3>. QED  BY <2>2, <3>1 DEF NoneDelivered
  <2>7. /\ v \in App /\ SameLink(x, v) /\ SameAvatars(x, v)
        /\ v.active = x.active /\ v.queue = x.queue /\ v.to = x.to
        /\ NoneDelivered(x, v)
    <3>1. v \in App /\ SameLink(u, v) /\ SameAvatars(u, v) /\ v.status = u.status /\ v.to = u.to
          /\ v.active = u.active /\ v.queue = u.queue
      BY <2>1, <2>6 DEF App, SameLink, SameAvatars
    <3>. QED  BY <2>6, <3>1 DEF SameLink, SameAvatars, NoneDelivered
  <2>8. CASE sendable = {}
    <3>1. PICK w : w = [v EXCEPT !.queue = <<>>]
      OBVIOUS
    <3>2. <<>> \in Seq(Message) /\ ToSet(<<>>) = {} /\ IsInjective(<<>>)
      BY Emptied
    <3>3. /\ w \in App /\ SameLink(x, w) /\ SameAvatars(x, w) /\ w.active = x.active
          /\ w.queue = <<>> /\ w.to = x.to /\ w.status = v.status
      BY <2>7, <3>1, <3>2 DEF App, SameLink, SameAvatars
    <3>4. /\ y \in App /\ SameLink(w, y) /\ SameAvatars(w, y) /\ SameChat(w, y) /\ Moves(y)
      BY <2>3, <2>8, <3>1, <3>3, AfterChatFacts
    <3>5. SameLink(x, y) /\ SameAvatars(x, y)
      BY <3>3, <3>4 DEF SameLink, SameAvatars
    <3>6. y.active = x.active /\ y.queue = <<>> /\ y.to = x.to /\ y.status = v.status
      BY <3>3, <3>4 DEF SameChat
    <3>7. NoneDelivered(x, y)
      BY <2>7, <3>6 DEF NoneDelivered
    <3>. QED  BY <3>2, <3>4, <3>5, <3>6, <3>7
  <2>9. CASE sendable # {}
    <3>1. PICK i, m : i = first /\ m = x.queue[i]
      OBVIOUS
    <3>2. i \in 1 .. Len(x.queue)
      BY <2>4, <2>5, <2>9, <3>1
    <3>3. m \in Message /\ m \in ToSet(x.queue)
      BY <2>4, <3>1, <3>2, Elements
    <3>4. PICK w, q : w = Mark(v, {m}, "sending") /\ q = SubSeq(x.queue, i + 1, Len(x.queue))
      OBVIOUS
    <3>5. /\ w \in App /\ SameLink(v, w) /\ SameAvatars(v, w) /\ w.queue = v.queue /\ w.to = v.to
          /\ \A k \in Message : w.status[k] = IF k \in {m} THEN "sending" ELSE v.status[k]
      BY <2>2, <2>7, <3>4, MarkFacts
    <3>6. y = [w EXCEPT !.active = m, !.timeout = TRUE, !.queue = q]
      BY <2>3, <2>7, <2>9, <3>1, <3>4, <3>5
    <3>7. /\ q \in Seq(Message) /\ ToSet(q) = {x.queue[k] : k \in i + 1 .. Len(x.queue)}
          /\ ToSet(q) \subseteq ToSet(x.queue) /\ IsInjective(q)
      <4>1. PICK a, b : a = i + 1 /\ b = Len(x.queue)
        OBVIOUS
      <4>2. a \in Nat \ {0} /\ b \in Nat /\ b <= Len(x.queue) /\ q = SubSeq(x.queue, a, b)
        BY <2>4, <3>2, <3>4, <4>1
      <4>3. /\ q \in Seq(Message) /\ ToSet(q) = {x.queue[k] : k \in a .. b}
            /\ ToSet(q) \subseteq ToSet(x.queue) /\ IsInjective(q)
        BY <2>4, <4>2, SubSeqRange
      <4>. QED  BY <4>1, <4>3
    <3>8. m \notin ToSet(q)
      <4>1. \A k, l \in 1 .. Len(x.queue) : x.queue[k] = x.queue[l] => k = l
        BY <2>4, Elements
      <4>2. \A k \in i + 1 .. Len(x.queue) : x.queue[k] # x.queue[i]
        BY <2>4, <3>2, <4>1
      <4>. QED  BY <3>1, <3>7, <4>2
    <3>9. /\ y \in App /\ y.active = m /\ y.queue = q /\ SameLink(w, y) /\ SameAvatars(w, y)
          /\ y.to = w.to /\ y.status = w.status
      BY <3>3, <3>5, <3>6, <3>7 DEF App, SameLink, SameAvatars
    <3>10. SameLink(x, y) /\ SameAvatars(x, y) /\ y.to = x.to
      BY <2>7, <3>5, <3>9 DEF SameLink, SameAvatars
    <3>11. NoneDelivered(x, y)
      BY <2>2, <2>7, <3>5, <3>9 DEF NoneDelivered
    <3>12. Moves(y)
      <4>1. y.active # Nobody
        BY <3>3, <3>9 DEF Message, Nobody
      <4>. QED  BY <4>1 DEF Moves, HasPendingChatWork
    <3>. QED  BY <3>3, <3>7, <3>8, <3>9, <3>10, <3>11, <3>12
  <2>. QED  BY <2>8, <2>9
<1>. QED  BY <1>1, <1>2

(* A message in hand ends, and the next one is given to the pendant. *)
LEMMA FinishFacts ==
  ASSUME NEW x \in App, IsInjective(x.queue), NEW s \in Final, NEW y, y = FinishActive(x, s)
  PROVE  /\ y \in App /\ SameLink(x, y) /\ SameAvatars(x, y) /\ y.to = x.to /\ Moves(y)
         /\ IsInjective(y.queue) /\ ToSet(y.queue) \subseteq ToSet(x.queue)
         /\ y.active # Nobody => y.active \in ToSet(x.queue) \ ToSet(y.queue)
         /\ \A m \in Message : y.status[m] = "delivered" =>
              x.status[m] = "delivered" \/ (m = x.active /\ s = "delivered")
<1>1. PICK u, v : /\ u = Mark(x, {x.active}, s)
                  /\ v = [u EXCEPT !.active = Nobody, !.timeout = FALSE]
  OBVIOUS
<1>2. /\ u \in App /\ SameLink(x, u) /\ SameAvatars(x, u) /\ u.queue = x.queue /\ u.to = x.to
      /\ \A m \in Message : u.status[m] = IF m \in {x.active} THEN s ELSE x.status[m]
  <2>1. s \in Status
    BY DEF Status
  <2>. QED  BY <1>1, <2>1, MarkFacts
<1>3. /\ v \in App /\ SameLink(u, v) /\ SameAvatars(u, v) /\ v.queue = u.queue /\ v.to = u.to
      /\ v.status = u.status /\ v.active = Nobody
  BY <1>1, <1>2 DEF App, SameLink, SameAvatars
<1>4. y = DispatchNext(v)
  BY <1>1 DEF FinishActive
<1>5. /\ y \in App /\ SameLink(v, y) /\ SameAvatars(v, y) /\ y.to = v.to
      /\ NoneDelivered(v, y) /\ Moves(y)
      /\ IsInjective(y.queue) /\ ToSet(y.queue) \subseteq ToSet(v.queue)
      /\ y.active # v.active => y.active \in ToSet(v.queue) \ ToSet(y.queue)
  BY <1>2, <1>3, <1>4, DispatchFacts
<1>6. SameLink(x, y) /\ SameAvatars(x, y)
  BY <1>2, <1>3, <1>5 DEF SameLink, SameAvatars
<1>7. ASSUME NEW m \in Message, y.status[m] = "delivered"
      PROVE  x.status[m] = "delivered" \/ (m = x.active /\ s = "delivered")
  <2>1. u.status[m] = "delivered"
    BY <1>3, <1>5, <1>7 DEF NoneDelivered
  <2>. QED  BY <1>2, <2>1
<1>. QED  BY <1>2, <1>3, <1>5, <1>6, <1>7

\* Who waits for the avatar waits once.
GoodAvatars(x) ==
  /\ IsInjective(x.avatars) /\ ToSet(x.avatars) = x.queuedKeys
  /\ x.file = "avatar" => x.fileTo \in Peer

LEMMA EnqueueFacts ==
  ASSUME NEW x \in App, GoodAvatars(x), NEW ps \in SUBSET Peer, NEW y, y = EnqueueAvatars(x, ps)
  PROVE  y \in App /\ SameLink(x, y) /\ SameChat(x, y) /\ GoodAvatars(y) /\ (Moves(x) => Moves(y))
<1> DEFINE wanted == {p \in ps : WantsAvatar(x, p)}
<1>1. PICK new : new = wanted
  OBVIOUS
<1>2. y = IF new = {} THEN x
          ELSE ScheduleAvatarSend([x EXCEPT !.avatars = @ \o SetToSeq(new),
                                            !.queuedKeys = @ \cup new])
  BY <1>1 DEF EnqueueAvatars
<1>3. new \subseteq Peer /\ new \cap x.queuedKeys = {} /\ IsFiniteSet(new)
  <2>1. new \subseteq Peer /\ new \cap x.queuedKeys = {}
    BY <1>1 DEF WantsAvatar
  <2>. QED  BY <2>1, FS_Subset, PeerAssumption
<1>4. CASE new = {}
  BY <1>2, <1>4 DEF SameLink, SameChat
<1>5. CASE new # {}
  <2>1. PICK s, t : s = SetToSeq(new) /\ t = x.avatars \o s
    OBVIOUS
  <2>2. s \in Seq(Peer) /\ IsInjective(s) /\ ToSet(s) = new
    BY <1>3, <2>1, SetToSeqRange
  <2>3. x.avatars \in Seq(Peer) /\ IsInjective(x.avatars) /\ ToSet(x.avatars) = x.queuedKeys
        /\ x.queuedKeys \subseteq Peer
    BY DEF GoodAvatars, App
  <2>4. t \in Seq(Peer) /\ IsInjective(t) /\ ToSet(t) = x.queuedKeys \cup new
    BY <1>3, <2>1, <2>2, <2>3, ConcatRange
  <2>5. PICK w : w = [x EXCEPT !.avatars = t, !.queuedKeys = x.queuedKeys \cup new]
    OBVIOUS
  <2>6. /\ w \in App /\ SameLink(x, w) /\ SameChat(x, w) /\ w.avatars = t
        /\ w.queuedKeys = x.queuedKeys \cup new /\ w.file = x.file /\ w.fileTo = x.fileTo
    BY <1>3, <2>3, <2>4, <2>5 DEF App, SameLink, SameChat
  <2>7. y = ScheduleAvatarSend(w)
    BY <1>2, <1>5, <2>1, <2>5
  <2>8. y \in App /\ SameLink(w, y) /\ SameAvatars(w, y) /\ SameChat(w, y) /\ Moves(y)
    BY <2>6, <2>7, TimerFacts, ScheduledMoves
  <2>9. SameLink(x, y) /\ SameChat(x, y)
    BY <2>6, <2>8 DEF SameLink, SameChat
  <2>10. GoodAvatars(y)
    BY <2>4, <2>6, <2>8 DEF GoodAvatars, SameAvatars
  <2>. QED  BY <2>8, <2>9, <2>10
<1>. QED  BY <1>4, <1>5

LEMMA FileIdleFacts ==
  ASSUME NEW x \in App, GoodAvatars(x), NEW y, y = FileIdle(x)
  PROVE  /\ y \in App /\ SameLink(x, y) /\ SameChat(x, y) /\ SameTimer(x, y) /\ GoodAvatars(y)
         /\ y.avatars = x.avatars /\ y.file = "idle"
<1>1. y = [x EXCEPT !.file = "idle", !.fileTo = None]
  BY DEF FileIdle
<1>2. /\ y \in App /\ SameLink(x, y) /\ SameChat(x, y) /\ SameTimer(x, y)
      /\ y.avatars = x.avatars /\ y.queuedKeys = x.queuedKeys /\ y.file = "idle"
  BY <1>1 DEF App, SameLink, SameChat, SameTimer
<1>. QED  BY <1>2 DEF GoodAvatars

LEMMA AvatarFailedFacts ==
  ASSUME NEW x \in App, GoodAvatars(x), x.file = "avatar", NEW y, y = AvatarFailed(x)
  PROVE  y \in App /\ SameLink(x, y) /\ SameChat(x, y) /\ GoodAvatars(y) /\ y.avatarTimer
<1>1. PICK p, v : p = x.fileTo /\ v = [x EXCEPT !.sentKeys = @ \ {p}]
  OBVIOUS
<1>2. p \in Peer
  BY <1>1 DEF GoodAvatars
<1>3. /\ v \in App /\ SameLink(x, v) /\ SameChat(x, v) /\ v.avatars = x.avatars
      /\ v.queuedKeys = x.queuedKeys /\ v.file = x.file /\ v.fileTo = x.fileTo
  BY <1>1 DEF App, SameLink, SameChat
<1>4. GoodAvatars(v)
  BY <1>3 DEF GoodAvatars
<1>5. PICK w : w = IF p \in v.queuedKeys THEN v
                   ELSE [v EXCEPT !.queuedKeys = @ \cup {p}, !.avatars = Append(@, p)]
  OBVIOUS
<1>6. w \in App /\ SameLink(v, w) /\ SameChat(v, w) /\ GoodAvatars(w)
  <2>1. CASE p \in v.queuedKeys
    BY <1>3, <1>4, <1>5, <2>1 DEF SameLink, SameChat
  <2>2. CASE p \notin v.queuedKeys
    <3>1. PICK t : t = Append(v.avatars, p)
      OBVIOUS
    <3>2. v.avatars \in Seq(Peer) /\ v.queuedKeys \subseteq Peer
      BY <1>3 DEF App
    <3>3. t \in Seq(Peer) /\ ToSet(t) = v.queuedKeys \cup {p} /\ IsInjective(t)
      BY <1>2, <1>4, <2>2, <3>1, <3>2, AppendRange DEF GoodAvatars
    <3>4. w = [v EXCEPT !.queuedKeys = v.queuedKeys \cup {p}, !.avatars = t]
      BY <1>5, <2>2, <3>1
    <3>5. /\ w \in App /\ SameLink(v, w) /\ SameChat(v, w) /\ w.avatars = t
          /\ w.queuedKeys = v.queuedKeys \cup {p} /\ w.file = v.file /\ w.fileTo = v.fileTo
      BY <1>2, <1>3, <3>2, <3>3, <3>4 DEF App, SameLink, SameChat
    <3>. QED  BY <1>4, <3>3, <3>5 DEF GoodAvatars
  <2>. QED  BY <2>1, <2>2
<1>7. y = ScheduleAvatarSend(w)
  BY <1>1, <1>5 DEF AvatarFailed
<1>8. y \in App /\ SameLink(w, y) /\ SameAvatars(w, y) /\ SameChat(w, y)
  BY <1>6, <1>7, TimerFacts
<1>9. y.avatarTimer
  BY <1>6, <1>7 DEF ScheduleAvatarSend, App
<1>10. SameLink(x, y) /\ SameChat(x, y)
  BY <1>3, <1>6, <1>8 DEF SameLink, SameChat
<1>11. GoodAvatars(y)
  BY <1>6, <1>8 DEF GoodAvatars, SameAvatars
<1>. QED  BY <1>8, <1>9, <1>10, <1>11

LEMMA FailAllFacts ==
  ASSUME NEW x \in App, NEW y, y = FailAll(x)
  PROVE  /\ y \in App /\ SameLink(x, y) /\ SameAvatars(x, y) /\ y.to = x.to
         /\ y.active = Nobody /\ y.queue = <<>> /\ NoneDelivered(x, y)
<1> DEFINE M == {m \in Message : x.status[m] \in {"queued", "sending"}}
<1>1. PICK u : u = Mark(x, M, "failed")
  OBVIOUS
<1>2. "failed" \in Status /\ "failed" # "delivered"
  BY DEF Status, Final
<1>3. y = [u EXCEPT !.active = Nobody, !.timeout = FALSE, !.queue = <<>>, !.long = {}]
  BY <1>1 DEF FailAll
<1>. HIDE DEF M
<1>4. /\ u \in App /\ SameLink(x, u) /\ SameAvatars(x, u) /\ u.to = x.to
      /\ \A m \in Message : u.status[m] = IF m \in M THEN "failed" ELSE x.status[m]
  BY <1>1, <1>2, MarkFacts
<1>5. <<>> \in Seq(Message)
  BY Emptied
<1>6. /\ y \in App /\ SameLink(u, y) /\ SameAvatars(u, y) /\ y.to = u.to /\ y.status = u.status
      /\ y.active = Nobody /\ y.queue = <<>>
  BY <1>3, <1>4, <1>5 DEF App, SameLink, SameAvatars
<1>7. SameLink(x, y) /\ SameAvatars(x, y)
  BY <1>4, <1>6 DEF SameLink, SameAvatars
<1>8. NoneDelivered(x, y)
  BY <1>2, <1>4, <1>6 DEF NoneDelivered
<1>. QED  BY <1>4, <1>6, <1>7, <1>8

-----------------------------------------------------------------------------
(* The shapes of a step. *)

Held == [cmds: Seq(Message), tx: Message \cup {Nobody}, notes: Seq(Note)]

LEMMA TypeParts ==
  TypeInv <=> /\ app \in App /\ GoodAvatars(app) /\ pendant \in Held
              /\ truth \in [Message -> {"none", "success", "unnamed"}]
              /\ typed \in 0..MaxMessages /\ faults \in 0..MaxFaults
BY DEF TypeInv, TypeOK, GoodAvatars, Held

\* A message that becomes the active one is one of those that have waited (Q),
\* and has not been with the pendant.
LEMMA BecomesKeeps ==
  ASSUME TypeInv, OnceInv, NEW Q, NEW x, NEW p \in Held,
         p.cmds = pendant.cmds, p.tx = pendant.tx, Becomes(x, p), truth' = truth,
         typed' \in Nat, typed <= typed',
         IsInjective(x.queue), ToSet(x.queue) \subseteq Q,
         \A m \in Q : /\ m \in Message /\ m <= typed' /\ truth[m] = "none"
                      /\ m \notin ToSet(pendant.cmds) /\ m # pendant.tx,
         x.active \in {Nobody, app.active} \/ x.active \in Q \ ToSet(x.queue)
  PROVE  OnceInv' /\ app' = x /\ pendant' \in Held /\ pendant'.notes = p.notes
<1>1. app' = x
  BY DEF Becomes
<1>2. /\ pendant.cmds \in Seq(Message) /\ typed \in Nat
      /\ \A m \in Message : m \in Nat
  BY TypeParts, BoundAssumption DEF Held, Message
<1>3. /\ pendant' \in Held /\ pendant'.tx = pendant.tx /\ pendant'.notes = p.notes
      /\ IsInjective(pendant'.cmds)
      /\ \A m \in ToSet(pendant'.cmds) : m \in ToSet(pendant.cmds) \/ m \in Q \ ToSet(x.queue)
  <2>1. CASE x.active \in {Nobody, app.active}
    <3>1. pendant' = p
      BY <2>1 DEF Becomes
    <3>. QED  BY <3>1 DEF OnceInv
  <2>2. CASE x.active \notin {Nobody, app.active}
    <3>1. PICK m, s : m = x.active /\ s = Append(pendant.cmds, m)
      OBVIOUS
    <3>2. m \in Q \ ToSet(x.queue) /\ m \in Message /\ m \notin ToSet(pendant.cmds)
      BY <2>2, <3>1
    <3>3. s \in Seq(Message) /\ ToSet(s) = ToSet(pendant.cmds) \cup {m} /\ IsInjective(s)
      BY <1>2, <3>1, <3>2, AppendRange DEF OnceInv
    <3>4. pendant' = [p EXCEPT !.cmds = s]
      BY <2>2, <3>1 DEF Becomes
    <3>5. /\ pendant' \in Held /\ pendant'.tx = p.tx /\ pendant'.notes = p.notes
          /\ pendant'.cmds = s
      BY <3>3, <3>4 DEF Held
    <3>. QED  BY <3>2, <3>3, <3>5
  <2>. QED  BY <2>1, <2>2
<1>4. ASSUME NEW m, Unreported(m) PROVE m \in Nat => m <= typed' /\ truth'[m] = "none"
  BY <1>2, <1>4 DEF Unreported
<1>5. PICK c : c = pendant'.cmds
  OBVIOUS
<1>6. ASSUME NEW m \in ToSet(c)
      PROVE  m <= typed' /\ truth'[m] = "none" /\ m \notin ToSet(x.queue) /\ m # pendant.tx
  <2>1. CASE m \in ToSet(pendant.cmds)
    <3>1. m \in Message /\ Unreported(m) /\ m \notin Q /\ m # pendant.tx
      <4>1. m \in Message
        BY <1>2, <2>1, Elements
      <4>2. Unreported(m) /\ m # pendant.tx
        BY <2>1, <4>1 DEF OnceInv, Message, Nobody
      <4>. QED  BY <2>1, <4>1, <4>2
    <3>. QED  BY <1>2, <1>4, <3>1
  <2>2. CASE m \in Q \ ToSet(x.queue)
    BY <2>2
  <2>. QED  BY <1>3, <1>5, <1>6, <2>1, <2>2
<1>7. pendant.tx # Nobody => /\ pendant.tx <= typed' /\ truth'[pendant.tx] = "none"
                             /\ pendant.tx \notin ToSet(x.queue)
  <2>1. pendant.tx \in Message \cup {Nobody}
    BY TypeParts DEF Held
  <2>. QED  BY <1>2, <1>4, <2>1 DEF OnceInv
<1>8. \A m \in Message : truth'[m] # "none" => m <= typed'
  BY <1>2 DEF OnceInv
<1>9. OnceInv'
  BY <1>1, <1>3, <1>5, <1>6, <1>7, <1>8 DEF OnceInv, Unreported
<1>. QED  BY <1>1, <1>3, <1>9

\* The app goes on with y; nothing is called delivered that was not before.
LEMMA StepKeeps ==
  ASSUME IInv, NEW y \in App, app' = y, y.to = app.to, truth' = truth,
         typed' \in 0..MaxMessages, faults' \in 0..MaxFaults, GoodAvatars(y),
         NoneDelivered(app, y), Moves(y), OnceInv', pendant' \in Held,
         \A i \in 1 .. Len(pendant'.notes) : Told(pendant'.notes[i])
  PROVE  IInv'
<1>1. (app \in App /\ GoodAvatars(app) /\ pendant \in Held
       /\ truth \in [Message -> {"none", "success", "unnamed"}]
       /\ typed \in 0..MaxMessages /\ faults \in 0..MaxFaults)'
  BY TypeParts DEF IInv, GoodAvatars
<1>2. TypeInv'
  BY <1>1 DEF TypeInv, TypeOK, GoodAvatars, Held
<1>3. NotesInv'
  BY DEF NotesInv, Told
<1>4. DeliveredByPeer'
  BY DEF IInv, DeliveredByPeer, NoneDelivered
<1>5. Moves(app)'
  BY DEF Moves, HasPendingChatWork
<1>. QED  BY <1>2, <1>3, <1>4, <1>5 DEF IInv

LEMMA ActsKeep ==
  ASSUME IInv, NEW y \in App, Acts(y), y.to = app.to, GoodAvatars(y),
         NoneDelivered(app, y), Moves(y),
         IsInjective(y.queue), ToSet(y.queue) \subseteq ToSet(app.queue),
         \/ y.active \in {Nobody, app.active}
         \/ y.active \in ToSet(app.queue) \ ToSet(y.queue)
  PROVE  IInv'
<1>1. /\ Becomes(y, pendant) /\ truth' = truth /\ typed' = typed /\ faults' = faults
  BY DEF Acts
<1>2. TypeInv /\ OnceInv /\ NotesInv
  BY DEF IInv
<1>3. /\ pendant \in Held /\ typed \in 0..MaxMessages /\ faults \in 0..MaxFaults
      /\ typed \in Nat /\ app.queue \in Seq(Message)
  BY <1>2, TypeParts, BoundAssumption DEF App
<1>4. PICK Q : Q = ToSet(app.queue)
  OBVIOUS
<1>5. \A m \in Q : /\ m \in Message /\ m <= typed' /\ truth[m] = "none"
                   /\ m \notin ToSet(pendant.cmds) /\ m # pendant.tx
  <2>1. \A m \in Q : m \in Message /\ m # Nobody
    <3>1. Q \subseteq Message
      BY <1>3, <1>4, Elements
    <3>. QED  BY <3>1 DEF Message, Nobody
  <2>. QED  BY <1>1, <1>2, <1>4, <2>1 DEF OnceInv, Unreported
<1>6. OnceInv' /\ app' = y /\ pendant' \in Held /\ pendant'.notes = pendant.notes
  BY <1>1, <1>2, <1>3, <1>4, <1>5, BecomesKeeps
<1>7. \A i \in 1 .. Len(pendant'.notes) : Told(pendant'.notes[i])
  BY <1>2, <1>6 DEF NotesInv
<1>. QED  BY <1>1, <1>3, <1>6, <1>7, StepKeeps

\* The chat and its messages are left alone.
LEMMA ApartKeeps ==
  ASSUME IInv, NEW y \in App, Acts(y), SameChat(app, y), GoodAvatars(y), Moves(y)
  PROVE  IInv'
<1>1. IsInjective(y.queue)
  BY DEF IInv, OnceInv, SameChat
<1>2. NoneDelivered(app, y)
  BY DEF NoneDelivered, SameChat
<1>. QED  BY <1>1, <1>2, ActsKeep DEF SameChat

\* The link goes, with what waits in the pendant's answers.
LEMMA GoneKeeps ==
  ASSUME IInv, NEW y \in App, LinkGone(y), UNCHANGED <<truth, typed>>,
         faults' \in 0..MaxFaults, y.to = app.to, GoodAvatars(y),
         NoneDelivered(app, y), Moves(y), y.queue \in {<<>>, app.queue}
  PROVE  IInv'
<1>1. TypeInv /\ OnceInv
  BY DEF IInv
<1>2. /\ pendant \in Held /\ typed \in 0..MaxMessages /\ pendant.cmds \in Seq(Message)
  BY <1>1, TypeParts DEF Held
<1>3. PICK n \in {k \in 0..1 : k <= Len(pendant.cmds)} : app' = y /\ pendant' = Unlinked(n)
  BY DEF LinkGone
<1>4. PICK s : s = SubSeq(pendant.cmds, 1, n)
  OBVIOUS
<1>5. s \in Seq(Message) /\ ToSet(s) \subseteq ToSet(pendant.cmds) /\ IsInjective(s)
  <2>1. n \in Nat /\ n <= Len(pendant.cmds) /\ 1 \in Nat \ {0}
    BY <1>3
  <2>. QED  BY <1>1, <1>2, <1>4, <2>1, SubSeqRange DEF OnceInv
<1>6. <<>> \in Seq(Note) /\ Len(<<>>) = 0
  BY Emptied
<1>7. pendant' = [pendant EXCEPT !.cmds = s, !.notes = <<>>]
  BY <1>3, <1>4 DEF Unlinked
<1>8. /\ pendant' \in Held /\ pendant'.cmds = s /\ pendant'.tx = pendant.tx
      /\ pendant'.notes = <<>>
  BY <1>2, <1>5, <1>6, <1>7 DEF Held
<1>9. IsInjective(y.queue) /\ ToSet(y.queue) \subseteq ToSet(app.queue)
  <2>1. ToSet(<<>>) = {} /\ IsInjective(<<>>)
    BY Emptied
  <2>. QED  BY <1>1, <2>1 DEF OnceInv
<1>10. OnceInv'
  <2>1. /\ IsInjective(y.queue) /\ IsInjective(s)
        /\ \A m \in ToSet(y.queue) : Unreported(m)
        /\ \A m \in ToSet(s) : Unreported(m) /\ m \notin ToSet(y.queue)
        /\ pendant.tx # Nobody => /\ Unreported(pendant.tx)
                                  /\ pendant.tx \notin ToSet(y.queue)
                                  /\ pendant.tx \notin ToSet(s)
        /\ \A m \in Message : truth[m] # "none" => m <= typed
    BY <1>1, <1>5, <1>9 DEF OnceInv
  <2>. QED  BY <1>3, <1>8, <2>1 DEF OnceInv, Unreported
<1>11. \A i \in 1 .. Len(pendant'.notes) : Told(pendant'.notes[i])
  BY <1>6, <1>8
<1>. QED  BY <1>2, <1>3, <1>8, <1>10, <1>11, StepKeeps

-----------------------------------------------------------------------------
(* The user and the Runnables. *)

LEMMA IInvParts ==
  ASSUME IInv
  PROVE  /\ app \in App /\ GoodAvatars(app) /\ Moves(app) /\ IsInjective(app.queue)
         /\ app.queue \in Seq(Message) /\ pendant \in Held
         /\ pendant.cmds \in Seq(Message) /\ pendant.notes \in Seq(Note)
         /\ typed \in 0..MaxMessages /\ typed \in Nat /\ faults \in 0..MaxFaults
         /\ faults \in Nat /\ MaxFaults \in Nat /\ MaxMessages \in Nat
BY TypeParts, BoundAssumption DEF IInv, OnceInv, App, Held

\* A new message: the highest number yet.
LEMMA SendKeeps ==
  ASSUME IInv, NEW p \in Peer, SendChatMessageText(p)
  PROVE  IInv'
<1>1. PICK m : m = typed + 1
  OBVIOUS
<1>2. PICK long \in SUBSET {m} :
        Becomes(DispatchNext([[Mark(CancelAvatarSend(app), {m}, "queued") EXCEPT
                                 !.to[m] = p, !.queue = Append(@, m)] EXCEPT
                                !.long = @ \cup long]), pendant)
  BY <1>1 DEF SendChatMessageText
<1>3. typed < MaxMessages /\ typed' = m /\ truth' = truth /\ faults' = faults
  BY <1>1 DEF SendChatMessageText
<1>4. m \in Message /\ m \in Nat /\ m \in 0..MaxMessages /\ typed <= m /\ ~(m <= typed)
  BY <1>1, <1>3, IInvParts DEF Message
<1>5. TypeInv /\ OnceInv /\ NotesInv
  BY DEF IInv
<1>6. /\ truth[m] = "none" /\ m \notin ToSet(app.queue)
      /\ m \notin ToSet(pendant.cmds) /\ m # pendant.tx
  BY <1>4, <1>5 DEF OnceInv, Unreported, Message, Nobody
<1>7. PICK u, v : u = CancelAvatarSend(app) /\ v = Mark(u, {m}, "queued")
  OBVIOUS
<1>8. u \in App /\ SameLink(app, u) /\ SameAvatars(app, u) /\ SameChat(app, u)
  BY <1>7, IInvParts, TimerFacts
<1>9. "queued" \in Status /\ "queued" # "delivered"
  BY DEF Status
<1>10. /\ v \in App /\ SameAvatars(u, v) /\ v.active = u.active /\ v.queue = u.queue
       /\ v.to = u.to
       /\ \A k \in Message : v.status[k] = IF k \in {m} THEN "queued" ELSE u.status[k]
  BY <1>7, <1>8, <1>9, MarkFacts
<1>11. PICK q, t : q = Append(app.queue, m) /\ t = [app.to EXCEPT ![m] = p]
  OBVIOUS
<1>12. q \in Seq(Message) /\ ToSet(q) = ToSet(app.queue) \cup {m} /\ IsInjective(q)
  BY <1>4, <1>6, <1>11, IInvParts, AppendRange
<1>13. /\ t \in [Message -> Peer \cup {None}]
       /\ \A k \in Message : k # m => t[k] = app.to[k]
  <2>1. app.to \in [Message -> Peer \cup {None}]
    BY IInvParts DEF App
  <2>. QED  BY <1>11, <2>1
<1>14. PICK x : x = [[v EXCEPT !.to[m] = p, !.queue = Append(@, m)] EXCEPT !.long = @ \cup long]
  OBVIOUS
<1>15. x = [v EXCEPT !.to = t, !.queue = q, !.long = v.long \cup long]
  BY <1>8, <1>10, <1>11, <1>14 DEF App, SameChat
<1>16. /\ x \in App /\ SameAvatars(v, x) /\ x.active = v.active /\ x.queue = q /\ x.to = t
       /\ x.status = v.status
  BY <1>4, <1>10, <1>12, <1>13, <1>15 DEF App, SameAvatars
<1>17. PICK y : y = DispatchNext(x)
  OBVIOUS
<1>18. /\ y \in App /\ SameAvatars(x, y) /\ y.to = x.to /\ NoneDelivered(x, y) /\ Moves(y)
       /\ IsInjective(y.queue) /\ ToSet(y.queue) \subseteq ToSet(x.queue)
       /\ y.active # x.active => y.active \in ToSet(x.queue) \ ToSet(y.queue)
  BY <1>12, <1>16, <1>17, DispatchFacts
<1>19. x.active = app.active
  BY <1>8, <1>10, <1>16 DEF SameChat
<1>20. Becomes(y, pendant)
  BY <1>2, <1>7, <1>14, <1>17
<1>21. PICK Q : Q = ToSet(q)
  OBVIOUS
<1>22. \A k \in Q : /\ k \in Message /\ k <= typed' /\ truth[k] = "none"
                    /\ k \notin ToSet(pendant.cmds) /\ k # pendant.tx
  <2>1. \A k \in ToSet(app.queue) : k \in Message
    BY IInvParts, Elements
  <2>2. \A k \in ToSet(app.queue) : k \in Nat /\ k # Nobody /\ Unreported(k)
    BY <1>5, <2>1 DEF OnceInv, Message, Nobody
  <2>3. \A k \in ToSet(app.queue) : k \notin ToSet(pendant.cmds) /\ k # pendant.tx
    BY <1>5, <2>2 DEF OnceInv
  <2>4. \A k \in ToSet(app.queue) : k <= m /\ truth[k] = "none"
    BY <1>1, <2>2, IInvParts DEF Unreported
  <2>. QED  BY <1>3, <1>4, <1>6, <1>12, <1>21, <2>1, <2>3, <2>4
<1>23. OnceInv' /\ app' = y /\ pendant' \in Held /\ pendant'.notes = pendant.notes
  BY <1>3, <1>4, <1>5, <1>16, <1>18, <1>19, <1>20, <1>21, <1>22, IInvParts, BecomesKeeps
<1>24. GoodAvatars(y)
  <2>1. SameAvatars(app, y)
    BY <1>8, <1>10, <1>16, <1>18 DEF SameAvatars
  <2>. QED  BY <2>1, IInvParts DEF GoodAvatars, SameAvatars
<1>25. TypeInv'
  <2>1. (app \in App /\ GoodAvatars(app) /\ pendant \in Held
         /\ truth \in [Message -> {"none", "success", "unnamed"}]
         /\ typed \in 0..MaxMessages /\ faults \in 0..MaxFaults)'
    BY <1>3, <1>4, <1>5, <1>18, <1>23, <1>24, TypeParts DEF GoodAvatars
  <2>. QED  BY <2>1 DEF TypeInv, TypeOK, GoodAvatars, Held
<1>26. NotesInv'
  <2>1. ASSUME NEW i \in 1 .. Len(pendant.notes) PROVE Told(pendant.notes[i])'
    <3>1. PICK note : note = pendant.notes[i]
      OBVIOUS
    <3>2. note \in Note /\ Told(note)
      BY <1>5, <3>1, IInvParts, ElementOfSeq DEF NotesInv
    <3>3. note.message \in Message
      BY <3>2 DEF Note
    <3>4. note.message # m => app'.to[note.message] = app.to[note.message]
      BY <1>13, <1>16, <1>18, <1>23, <3>3
    <3>5. truth'[note.message] = "none" \/ note.message # m
      BY <1>3, <1>6
    <3>6. note = pendant'.notes[i]
      BY <1>23, <3>1
    <3>. QED  BY <1>3, <1>6, <1>23, <3>1, <3>2, <3>4, <3>5, <3>6 DEF Told
  <2>. QED  BY <1>23, <2>1 DEF NotesInv, Told
<1>27. DeliveredByPeer'
  <2>1. ASSUME NEW k \in Message, app'.status[k] = "delivered"
        PROVE  \E j \in Message : \/ truth'[j] = "unnamed"
                                  \/ truth'[j] = "success" /\ app'.to[j] = app'.to[k]
    <3>1. v.status[k] = "delivered"
      BY <1>16, <1>18, <1>23, <2>1 DEF NoneDelivered
    <3>2. k # m /\ app.status[k] = "delivered"
      BY <1>8, <1>9, <1>10, <3>1 DEF SameChat
    <3>3. PICK j \in Message : \/ truth[j] = "unnamed"
                               \/ truth[j] = "success" /\ app.to[j] = app.to[k]
      BY <3>2 DEF IInv, DeliveredByPeer
    <3>4. j # m
      BY <1>6, <3>3
    <3>5. app'.to[j] = app.to[j] /\ app'.to[k] = app.to[k]
      BY <1>13, <1>16, <1>18, <1>23, <3>2, <3>4
    <3>. QED  BY <1>3, <3>3, <3>5
  <2>. QED  BY <2>1 DEF DeliveredByPeer
<1>28. Moves(app)'
  BY <1>18, <1>23 DEF Moves, HasPendingChatWork
<1>. QED  BY <1>23, <1>25, <1>26, <1>27, <1>28 DEF IInv

LEMMA UserKeeps ==
  ASSUME IInv,
         \/ \E p \in Peer : RefuseChatMessageText(p)
         \/ \E p \in Visible : BlockPeer(p) \/ UnblockPeer(p)
         \/ SavePickedAvatar
  PROVE  IInv'
<1>1. CASE \E p \in Peer : RefuseChatMessageText(p)
  <2>1. PICK y : y = Strand(app)
    OBVIOUS
  <2>2. y \in App /\ SameAvatars(app, y) /\ SameChat(app, y) /\ Moves(y)
    BY <2>1, IInvParts, TimerFacts, ScheduledMoves
  <2>3. GoodAvatars(y)
    BY <2>2, IInvParts DEF GoodAvatars, SameAvatars
  <2>4. Acts(y)
    BY <1>1, <2>1 DEF RefuseChatMessageText
  <2>. QED  BY <2>2, <2>3, <2>4, ApartKeeps
<1>2. ASSUME NEW p \in Visible, BlockPeer(p) PROVE IInv'
  <2>1. PICK s : s = Without(app.avatars, p)
    OBVIOUS
  <2>2. app.avatars \in Seq(Peer) /\ IsInjective(app.avatars) /\ ToSet(app.avatars) = app.queuedKeys
    BY IInvParts DEF App, GoodAvatars
  <2>3. s \in Seq(Peer) /\ IsInjective(s) /\ ToSet(s) = app.queuedKeys \ {p}
    BY <2>1, <2>2, WithoutRange
  <2>4. app.avatars = <<>> => s = <<>>
    <3>1. ToSet(<<>>) = {}
      BY Emptied
    <3>. QED  BY <2>1, <3>1 DEF Without
  <2>5. PICK y : y = [app EXCEPT !.blocked = @ \cup {p}, !.queuedKeys = @ \ {p},
                                 !.sentKeys = @ \ {p}, !.avatars = s]
    OBVIOUS
  <2>6. Acts(y)
    BY <1>2, <2>1, <2>5 DEF BlockPeer
  <2>7. p \in Peer
    BY PeerAssumption
  <2>8. /\ y \in App /\ SameChat(app, y) /\ SameTimer(app, y) /\ y.avatars = s
        /\ y.queuedKeys = app.queuedKeys \ {p} /\ y.file = app.file /\ y.fileTo = app.fileTo
    BY <2>3, <2>5, <2>7, IInvParts DEF App, SameChat, SameTimer
  <2>9. GoodAvatars(y)
    BY <2>3, <2>8, IInvParts DEF GoodAvatars
  <2>10. Moves(y)
    BY <2>4, <2>8, IInvParts DEF Moves, HasPendingChatWork, SameChat, SameTimer
  <2>. QED  BY <2>6, <2>8, <2>9, <2>10, ApartKeeps
<1>3. ASSUME NEW p \in Visible, UnblockPeer(p) PROVE IInv'
  <2>1. PICK y : y = [app EXCEPT !.blocked = @ \ {p}]
    OBVIOUS
  <2>2. Acts(y)
    BY <1>3, <2>1 DEF UnblockPeer
  <2>3. y \in App /\ SameChat(app, y) /\ SameTimer(app, y) /\ SameAvatars(app, y)
    BY <2>1, IInvParts DEF App, SameChat, SameTimer, SameAvatars
  <2>4. GoodAvatars(y)
    BY <2>3, IInvParts DEF GoodAvatars, SameAvatars
  <2>5. Moves(y)
    BY <2>3, IInvParts DEF Moves, HasPendingChatWork, SameChat, SameTimer, SameAvatars
  <2>. QED  BY <2>2, <2>3, <2>4, <2>5, ApartKeeps
<1>4. CASE SavePickedAvatar
  <2>1. PICK x, v, y : /\ x = [app EXCEPT !.sentKeys = {}, !.queuedKeys = {}, !.avatars = <<>>]
                       /\ v = EnqueueAvatars(x, app.peers) /\ y = ScheduleAvatarSend(v)
    OBVIOUS
  <2>2. Acts(y)
    BY <1>4, <2>1 DEF SavePickedAvatar
  <2>3. <<>> \in Seq(Peer) /\ ToSet(<<>>) = {} /\ IsInjective(<<>>)
    BY Emptied
  <2>4. /\ x \in App /\ SameChat(app, x) /\ x.avatars = <<>> /\ x.queuedKeys = {}
        /\ x.file = app.file /\ x.fileTo = app.fileTo
    BY <2>1, <2>3, IInvParts DEF App, SameChat
  <2>5. GoodAvatars(x) /\ app.peers \in SUBSET Peer
    BY <2>3, <2>4, IInvParts DEF GoodAvatars, App
  <2>6. v \in App /\ SameChat(x, v) /\ GoodAvatars(v)
    BY <2>1, <2>4, <2>5, EnqueueFacts
  <2>7. y \in App /\ SameChat(v, y) /\ SameAvatars(v, y) /\ Moves(y)
    BY <2>1, <2>6, TimerFacts, ScheduledMoves
  <2>8. GoodAvatars(y)
    BY <2>6, <2>7 DEF GoodAvatars, SameAvatars
  <2>9. SameChat(app, y)
    BY <2>4, <2>6, <2>7 DEF SameChat
  <2>. QED  BY <2>2, <2>7, <2>8, <2>9, ApartKeeps
<1>. QED  BY <1>1, <1>2, <1>3, <1>4

LEMMA TimeoutKeeps ==
  ASSUME IInv, RunChatTimeout
  PROVE  IInv'
<1>1. PICK y : y = FinishActive(app, "unconfirmed")
  OBVIOUS
<1>2. Acts(y)
  BY <1>1 DEF RunChatTimeout
<1>3. "unconfirmed" \in Final /\ "unconfirmed" # "delivered"
  BY DEF Final
<1>4. /\ y \in App /\ SameAvatars(app, y) /\ y.to = app.to /\ Moves(y)
      /\ IsInjective(y.queue) /\ ToSet(y.queue) \subseteq ToSet(app.queue)
      /\ y.active # Nobody => y.active \in ToSet(app.queue) \ ToSet(y.queue)
      /\ NoneDelivered(app, y)
  <2>1. PICK x, s : x = app /\ s = "unconfirmed"
    OBVIOUS
  <2>2. x \in App /\ IsInjective(x.queue) /\ s \in Final /\ s # "delivered" /\ y = FinishActive(x, s)
    BY <1>1, <1>3, <2>1, IInvParts
  <2>3. /\ y \in App /\ SameAvatars(x, y) /\ y.to = x.to /\ Moves(y)
        /\ IsInjective(y.queue) /\ ToSet(y.queue) \subseteq ToSet(x.queue)
        /\ y.active # Nobody => y.active \in ToSet(x.queue) \ ToSet(y.queue)
        /\ NoneDelivered(x, y)
    BY <2>2, FinishFacts DEF NoneDelivered
  <2>. QED  BY <2>1, <2>3
<1>5. GoodAvatars(y)
  BY <1>4, IInvParts DEF GoodAvatars, SameAvatars
<1>. QED  BY <1>2, <1>4, <1>5, ActsKeep

LEMMA TrySendKeeps ==
  ASSUME IInv, TrySendNextAvatar
  PROVE  IInv'
<1>1. PICK x : x = CancelAvatarSend(app)
  OBVIOUS
<1>2. x \in App /\ SameLink(app, x) /\ SameAvatars(app, x) /\ SameChat(app, x)
  BY <1>1, IInvParts, TimerFacts
<1>3. GoodAvatars(x)
  BY <1>2, IInvParts DEF GoodAvatars, SameAvatars
<1> DEFINE unsent == {i \in DOMAIN x.avatars : x.avatars[i] \notin x.sentKeys}
           first  == CHOOSE i \in unsent : \A j \in unsent : i <= j
           rest   == IF unsent = {} THEN <<>> ELSE SubSeq(x.avatars, first + 1, Len(x.avatars))
           popped == [x EXCEPT !.avatars = rest, !.queuedKeys = ToSet(rest)]
           going  == [popped EXCEPT !.file = "avatar", !.fileTo = x.avatars[first],
                                    !.sentKeys = @ \cup {x.avatars[first]}]
<1>4. \/ Acts(Strand(x))
      \/ Acts(ScheduleAvatarSend(x))
      \/ unsent = {} /\ Acts(popped)
      \/ unsent # {} /\ Acts(going)
  BY <1>1 DEF TrySendNextAvatar
<1>5. x.avatars \in Seq(Peer) /\ IsInjective(x.avatars) /\ x.queuedKeys = ToSet(x.avatars)
  BY <1>2, <1>3 DEF App, GoodAvatars
<1>6. unsent \subseteq 1 .. Len(x.avatars) /\ Len(x.avatars) \in Nat
  BY <1>5, Elements
<1>7. unsent # {} => first \in unsent
  <2>1. unsent \subseteq Nat
    BY <1>6
  <2>2. PICK S : S = unsent
    OBVIOUS
  <2>3. S # {} => \E i \in S : \A j \in S : i <= j
    BY <2>1, <2>2, LeastExists
  <2>. QED  BY <2>2, <2>3
<1>. HIDE DEF unsent, first
<1>8. CASE Acts(Strand(x)) \/ Acts(ScheduleAvatarSend(x))
  <2>1. PICK y \in {Strand(x), ScheduleAvatarSend(x)} : Acts(y)
    BY <1>8
  <2>2. y \in App /\ SameAvatars(x, y) /\ SameChat(x, y) /\ Moves(y)
    BY <1>2, <2>1, TimerFacts, ScheduledMoves
  <2>3. GoodAvatars(y) /\ SameChat(app, y)
    BY <1>2, <1>3, <2>2 DEF GoodAvatars, SameAvatars, SameChat
  <2>. QED  BY <2>1, <2>2, <2>3, ApartKeeps
<1>9. PICK s : s = rest
  OBVIOUS
<1>10. s \in Seq(Peer) /\ IsInjective(s) /\ ToSet(s) \subseteq Peer /\ (unsent = {} => s = <<>>)
  <2>1. CASE unsent = {}
    <3>1. <<>> \in Seq(Peer) /\ ToSet(<<>>) = {} /\ IsInjective(<<>>)
      BY Emptied
    <3>. QED  BY <1>9, <2>1, <3>1
  <2>2. CASE unsent # {}
    <3>1. PICK a, b : a = first + 1 /\ b = Len(x.avatars)
      OBVIOUS
    <3>2. a \in Nat \ {0} /\ b \in Nat /\ b <= Len(x.avatars) /\ s = SubSeq(x.avatars, a, b)
      <4>1. s = SubSeq(x.avatars, a, b)
        BY <1>9, <2>2, <3>1
      <4>2. first \in 1 .. Len(x.avatars)
        BY <1>6, <1>7, <2>2
      <4>3. a \in Nat \ {0} /\ b \in Nat /\ b <= Len(x.avatars)
        BY <1>6, <3>1, <4>2
      <4>. QED  BY <4>1, <4>3
    <3>3. s \in Seq(Peer) /\ IsInjective(s)
      BY <1>5, <3>2, SubSeqRange
    <3>. QED  BY <2>2, <3>3, Elements
  <2>. QED  BY <2>1, <2>2
<1>11. PICK v : v = [x EXCEPT !.avatars = s, !.queuedKeys = ToSet(s)]
  OBVIOUS
<1>12. popped = v
  BY <1>9, <1>11
<1>13. /\ v \in App /\ SameChat(x, v) /\ v.avatars = s /\ v.queuedKeys = ToSet(s)
       /\ v.file = x.file /\ v.fileTo = x.fileTo
  BY <1>2, <1>10, <1>11 DEF App, SameChat
<1>14. CASE unsent = {} /\ Acts(popped)
  <2>1. Acts(v) /\ v.avatars = <<>>
    BY <1>10, <1>12, <1>13, <1>14
  <2>2. GoodAvatars(v) /\ SameChat(app, v) /\ Moves(v)
    BY <1>2, <1>3, <1>10, <1>13, <2>1 DEF GoodAvatars, SameChat, Moves
  <2>. QED  BY <1>13, <2>1, <2>2, ApartKeeps
<1>15. CASE unsent # {} /\ Acts(going)
  <2>1. PICK p, y : /\ p = x.avatars[first]
                    /\ y = [v EXCEPT !.file = "avatar", !.fileTo = p, !.sentKeys = @ \cup {p}]
    OBVIOUS
  <2>2. Acts(y)
    BY <1>12, <1>15, <2>1
  <2>3. p \in Peer
    BY <1>5, <1>6, <1>7, <1>15, <2>1, ElementOfSeq
  <2>4. /\ y \in App /\ SameChat(v, y) /\ y.avatars = s /\ y.queuedKeys = ToSet(s)
        /\ y.file = "avatar" /\ y.fileTo = p
    BY <1>13, <2>1, <2>3 DEF App, SameChat
  <2>5. GoodAvatars(y) /\ SameChat(app, y) /\ Moves(y)
    BY <1>2, <1>10, <1>13, <2>3, <2>4 DEF GoodAvatars, SameChat, Moves
  <2>. QED  BY <2>2, <2>4, <2>5, ApartKeeps
<1>. QED  BY <1>4, <1>8, <1>14, <1>15

-----------------------------------------------------------------------------
(* The file transfer, the table and the link. *)

LEMMA FileKeeps ==
  ASSUME IInv, FileStarts \/ FileEnds
  PROVE  IInv'
<1>1. CASE FileStarts
  <2>1. PICK y : y = [app EXCEPT !.file = "other"]
    OBVIOUS
  <2>2. Acts(y) /\ app.file = "idle"
    BY <1>1, <2>1 DEF FileStarts
  <2>3. /\ y \in App /\ SameChat(app, y) /\ SameTimer(app, y) /\ y.avatars = app.avatars
        /\ y.queuedKeys = app.queuedKeys /\ y.file = "other"
    BY <2>1, IInvParts DEF App, SameChat, SameTimer
  <2>4. GoodAvatars(y)
    BY <2>3, IInvParts DEF GoodAvatars
  <2>5. Moves(y)
    BY <2>2, <2>3, IInvParts DEF Moves, HasPendingChatWork, SameChat, SameTimer
  <2>. QED  BY <2>2, <2>3, <2>4, <2>5, ApartKeeps
<1>2. ASSUME NEW x \in App, GoodAvatars(x), SameChat(app, x), Acts(FileIdle(x)),
             x.avatars # <<>> /\ ~x.stranded => x.avatarTimer \/ HasPendingChatWork(x)
      PROVE  IInv'
  <2>1. PICK y : y = FileIdle(x)
    OBVIOUS
  <2>2. /\ y \in App /\ SameChat(x, y) /\ SameTimer(x, y) /\ GoodAvatars(y)
        /\ y.avatars = x.avatars
    BY <1>2, <2>1, FileIdleFacts
  <2>3. Moves(y)
    BY <1>2, <2>2 DEF Moves, HasPendingChatWork, SameChat, SameTimer
  <2>4. SameChat(app, y)
    BY <1>2, <2>2 DEF SameChat
  <2>. QED  BY <1>2, <2>1, <2>2, <2>3, <2>4, ApartKeeps
<1>3. CASE app.file = "avatar" /\ Acts(FileIdle(AvatarDone(app)))
  <2>1. PICK x : x = AvatarDone(app)
    OBVIOUS
  <2>2. CASE app.avatars # <<>>
    <3>1. x = ScheduleAvatarSend(app)
      BY <2>1, <2>2 DEF AvatarDone
    <3>2. x \in App /\ SameAvatars(app, x) /\ SameChat(app, x)
      BY <3>1, IInvParts, TimerFacts
    <3>3. x.avatarTimer
      BY <3>1, IInvParts DEF ScheduleAvatarSend, App
    <3>4. GoodAvatars(x)
      BY <3>2, IInvParts DEF GoodAvatars, SameAvatars
    <3>. QED  BY <1>2, <1>3, <2>1, <3>2, <3>3, <3>4
  <2>3. CASE app.avatars = <<>>
    <3>1. x = app
      BY <2>1, <2>3 DEF AvatarDone
    <3>. QED  BY <1>2, <1>3, <2>1, <2>3, <3>1, IInvParts DEF SameChat
  <2>. QED  BY <2>2, <2>3
<1>4. CASE app.file = "avatar" /\ Acts(FileIdle(AvatarFailed(app)))
  <2>1. PICK x : x = AvatarFailed(app)
    OBVIOUS
  <2>2. x \in App /\ SameChat(app, x) /\ GoodAvatars(x) /\ x.avatarTimer
    BY <1>4, <2>1, IInvParts, AvatarFailedFacts
  <2>. QED  BY <1>2, <1>4, <2>1, <2>2
<1>5. CASE app.file = "other" /\ Acts(FileIdle(app))
  <2>1. app.avatars # <<>> /\ ~app.stranded => app.avatarTimer \/ HasPendingChatWork(app)
    BY <1>5, IInvParts DEF Moves
  <2>2. SameChat(app, app)
    BY DEF SameChat
  <2>. QED  BY <1>2, <1>5, <2>1, <2>2, IInvParts
<1>. QED  BY <1>1, <1>3, <1>4, <1>5 DEF FileEnds

LEMMA SeeKeeps ==
  ASSUME IInv, SeePeers \/ OnDebugReady
  PROVE  IInv'
<1>1. CASE SeePeers
  <2>1. PICK ps \in SUBSET Visible : Acts(EnqueueAvatars([app EXCEPT !.peers = ps], ps))
    BY <1>1 DEF SeePeers
  <2>2. PICK x, y : x = [app EXCEPT !.peers = ps] /\ y = EnqueueAvatars(x, ps)
    OBVIOUS
  <2>3. ps \in SUBSET Peer
    BY PeerAssumption
  <2>4. x \in App /\ SameAvatars(app, x) /\ SameChat(app, x) /\ SameTimer(app, x)
    BY <2>2, <2>3, IInvParts DEF App, SameAvatars, SameChat, SameTimer
  <2>5. GoodAvatars(x)
    BY <2>4, IInvParts DEF GoodAvatars, SameAvatars
  <2>6. Moves(x)
    BY <2>4, IInvParts DEF Moves, HasPendingChatWork, SameAvatars, SameChat, SameTimer
  <2>7. y \in App /\ SameChat(x, y) /\ GoodAvatars(y) /\ Moves(y)
    BY <2>2, <2>3, <2>4, <2>5, <2>6, EnqueueFacts
  <2>8. SameChat(app, y)
    BY <2>4, <2>7 DEF SameChat
  <2>. QED  BY <2>1, <2>2, <2>7, <2>8, ApartKeeps
<1>2. CASE OnDebugReady
  <2>1. PICK y : y = [app EXCEPT !.ready = TRUE]
    OBVIOUS
  <2>2. Acts(y)
    BY <1>2, <2>1 DEF OnDebugReady
  <2>3. y \in App /\ SameAvatars(app, y) /\ SameChat(app, y) /\ SameTimer(app, y)
    BY <2>1, IInvParts DEF App, SameAvatars, SameChat, SameTimer
  <2>4. GoodAvatars(y)
    BY <2>3, IInvParts DEF GoodAvatars, SameAvatars
  <2>5. Moves(y)
    BY <2>3, IInvParts DEF Moves, HasPendingChatWork, SameAvatars, SameChat, SameTimer
  <2>. QED  BY <2>2, <2>3, <2>4, <2>5, ApartKeeps
<1>. QED  BY <1>1, <1>2

LEMMA FreshFacts ==
  /\ Fresh \in App /\ GoodAvatars(Fresh) /\ Moves(Fresh)
  /\ Fresh.queue = <<>> /\ Fresh.active = Nobody /\ Fresh.avatars = <<>>
  /\ Fresh.queuedKeys = {} /\ Fresh.file = "idle"
<1>1. /\ <<>> \in Seq(Message) /\ <<>> \in Seq(Peer)
      /\ ToSet(<<>>) = {} /\ IsInjective(<<>>)
  BY Emptied
<1>2. PICK f, t : f = [m \in Message |-> "none"] /\ t = [m \in Message |-> None]
  OBVIOUS
<1>3. f \in [Message -> Status] /\ t \in [Message -> Peer \cup {None}]
  <2>1. "none" \in Status
    BY DEF Status
  <2>. QED  BY <1>2, <2>1
<1>4. Fresh = [ready |-> FALSE, peers |-> {}, blocked |-> {}, active |-> Nobody, queue |-> <<>>,
               timeout |-> FALSE, status |-> f, to |-> t, long |-> {}, avatars |-> <<>>,
               queuedKeys |-> {}, sentKeys |-> {}, avatarTimer |-> FALSE, stranded |-> FALSE,
               file |-> "idle", fileTo |-> None]
  BY <1>2 DEF Fresh
<1>5. Fresh \in App
  BY <1>1, <1>3, <1>4 DEF App
<1>6. /\ Fresh.queue = <<>> /\ Fresh.active = Nobody /\ Fresh.avatars = <<>>
      /\ Fresh.queuedKeys = {} /\ Fresh.file = "idle"
  BY <1>4
<1>. QED  BY <1>1, <1>5, <1>6 DEF GoodAvatars, Moves

LEMMA LinkKeeps ==
  ASSUME IInv, OnLinkLost \/ UnbindDevice \/ Restart
  PROVE  IInv'
<1>1. faults' \in 0..MaxFaults /\ UNCHANGED <<truth, typed>>
  <2>1. faults < MaxFaults /\ faults' = faults + 1
    BY DEF OnLinkLost, UnbindDevice, Restart, Happens
  <2>2. UNCHANGED <<truth, typed>>
    BY DEF OnLinkLost, UnbindDevice, Restart
  <2>. QED  BY <2>1, <2>2, IInvParts
<1>2. CASE OnLinkLost
  <2>1. PICK x : x = IF app.file = "avatar" THEN AvatarFailed(app) ELSE app
    OBVIOUS
  <2>2. LinkGone(Strand([FailAll(FileIdle(x)) EXCEPT !.ready = FALSE, !.peers = {}]))
    BY <1>2, <2>1 DEF OnLinkLost
  <2>3. x \in App /\ SameChat(app, x) /\ GoodAvatars(x)
    <3>1. CASE app.file = "avatar"
      BY <2>1, <3>1, IInvParts, AvatarFailedFacts
    <3>2. CASE app.file # "avatar"
      BY <2>1, <3>2, IInvParts DEF SameChat
    <3>. QED  BY <3>1, <3>2
  <2>4. PICK u, v, w, y : /\ u = FileIdle(x) /\ v = FailAll(u)
                          /\ w = [v EXCEPT !.ready = FALSE, !.peers = {}] /\ y = Strand(w)
    OBVIOUS
  <2>5. u \in App /\ SameChat(x, u) /\ GoodAvatars(u)
    BY <2>3, <2>4, FileIdleFacts
  <2>6. /\ v \in App /\ SameAvatars(u, v) /\ v.to = u.to /\ v.queue = <<>> /\ NoneDelivered(u, v)
    BY <2>4, <2>5, FailAllFacts
  <2>7. w \in App /\ SameAvatars(v, w) /\ SameChat(v, w)
    BY <2>4, <2>6 DEF App, SameAvatars, SameChat
  <2>8. y \in App /\ SameAvatars(w, y) /\ SameChat(w, y) /\ Moves(y)
    BY <2>4, <2>7, TimerFacts, ScheduledMoves
  <2>9. GoodAvatars(y)
    BY <2>5, <2>6, <2>7, <2>8 DEF GoodAvatars, SameAvatars
  <2>10. y.to = app.to /\ y.queue = <<>> /\ NoneDelivered(app, y)
    BY <2>3, <2>5, <2>6, <2>7, <2>8 DEF SameChat, NoneDelivered
  <2>11. LinkGone(y)
    BY <2>2, <2>4
  <2>. QED  BY <1>1, <2>8, <2>9, <2>10, <2>11, GoneKeeps
<1>3. CASE UnbindDevice
  <2>1. PICK y : y = [app EXCEPT !.ready = FALSE, !.peers = {}]
    OBVIOUS
  <2>2. LinkGone(y)
    BY <1>3, <2>1 DEF UnbindDevice
  <2>3. y \in App /\ SameAvatars(app, y) /\ SameChat(app, y) /\ SameTimer(app, y)
    BY <2>1, IInvParts DEF App, SameAvatars, SameChat, SameTimer
  <2>4. GoodAvatars(y)
    BY <2>3, IInvParts DEF GoodAvatars, SameAvatars
  <2>5. Moves(y)
    BY <2>3, IInvParts DEF Moves, HasPendingChatWork, SameAvatars, SameChat, SameTimer
  <2>6. y.to = app.to /\ y.queue = app.queue /\ NoneDelivered(app, y)
    BY <2>3 DEF SameChat, NoneDelivered
  <2>. QED  BY <1>1, <2>2, <2>3, <2>4, <2>5, <2>6, GoneKeeps
<1>4. CASE Restart
  <2>1. PICK f : f = [m \in Message |-> IF app.status[m] \in {"queued", "sending"}
                                        THEN "unconfirmed" ELSE app.status[m]]
    OBVIOUS
  <2>2. f \in [Message -> Status] /\ \A m \in Message : f[m] = "delivered" => app.status[m] = "delivered"
    <3>1. app.status \in [Message -> Status] /\ "unconfirmed" \in Status
      BY IInvParts DEF App, Status, Final
    <3>. QED  BY <2>1, <3>1
  <2>3. PICK y : y = [Fresh EXCEPT !.blocked = app.blocked, !.to = app.to, !.status = f]
    OBVIOUS
  <2>4. LinkGone(y)
    BY <1>4, <2>1, <2>3 DEF Restart, Restarted
  <2>5. /\ y \in App /\ y.to = app.to /\ y.status = f /\ y.queue = <<>> /\ y.avatars = <<>>
        /\ y.queuedKeys = {} /\ y.file = "idle"
    BY <2>2, <2>3, FreshFacts, IInvParts DEF App
  <2>6. GoodAvatars(y) /\ Moves(y) /\ NoneDelivered(app, y)
    BY <2>2, <2>5, FreshFacts DEF GoodAvatars, Moves, NoneDelivered
  <2>. QED  BY <1>1, <2>4, <2>5, <2>6, GoneKeeps
<1>. QED  BY <1>2, <1>3, <1>4

-----------------------------------------------------------------------------
(* What the pendant sends, and the pendant. *)

LEMMA HeadNote ==
  ASSUME IInv, pendant.notes # <<>>
  PROVE  /\ Head(pendant.notes) \in Note /\ Told(Head(pendant.notes))
         /\ Tail(pendant.notes) \in Seq(Note)
         /\ \A i \in 1 .. Len(Tail(pendant.notes)) : Told(Tail(pendant.notes)[i])
<1>1. PICK s : s = pendant.notes
  OBVIOUS
<1>2. s \in Seq(Note) /\ s # <<>>
  BY <1>1, IInvParts
<1>3. /\ Head(s) \in Note /\ Tail(s) \in Seq(Note) /\ Len(Tail(s)) = Len(s) - 1
      /\ Len(s) \in Nat \ {0} /\ Head(s) = s[1]
      /\ \A i \in 1 .. Len(Tail(s)) : Tail(s)[i] = s[i + 1]
  BY <1>2, HeadTailProperties, EmptySeq
<1>4. \A i \in 1 .. Len(s) : Told(s[i])
  BY <1>1 DEF IInv, NotesInv
<1>5. Told(s[1]) /\ \A i \in 1 .. Len(Tail(s)) : Told(s[i + 1])
  BY <1>3, <1>4
<1>6. \A i \in 1 .. Len(Tail(s)) : Told(Tail(s)[i])
  BY <1>3, <1>5
<1>. QED  BY <1>1, <1>3, <1>5, <1>6

LEMMA HostKeeps ==
  ASSUME IInv, OnHostMessage
  PROVE  IInv'
<1> DEFINE note  == Head(pendant.notes)
           heard == [pendant EXCEPT !.notes = Tail(@)]
           fits  == IF note.name = "rsp" THEN app.active = note.message ELSE SamePeer(app, note)
           s     == IF note.name = "rsp" THEN "failed" ELSE ChatTxStatus(note.result)
<1>1. /\ pendant.notes # <<>> /\ UNCHANGED <<truth, typed, faults>>
      /\ Becomes(IF fits THEN FinishActive(app, s) ELSE app, heard)
  BY DEF OnHostMessage
<1>2. /\ note \in Note /\ Told(note) /\ Tail(pendant.notes) \in Seq(Note)
      /\ \A i \in 1 .. Len(Tail(pendant.notes)) : Told(Tail(pendant.notes)[i])
  BY <1>1, HeadNote
<1>3. PICK p : p = heard
  OBVIOUS
<1>4. /\ p \in Held /\ p.cmds = pendant.cmds /\ p.tx = pendant.tx
      /\ p.notes = Tail(pendant.notes)
  BY <1>2, <1>3, IInvParts DEF Held
<1>5. s \in Final
  BY DEF ChatTxStatus, Final
<1>6. s = "delivered" => note.name = "result" /\ note.result = "success"
  BY <1>2 DEF ChatTxStatus, Note, Result
<1>7. PICK n, r, y : n = note /\ r = s /\ y = IF fits THEN FinishActive(app, r) ELSE app
  OBVIOUS
<1>8. Becomes(y, p)
  BY <1>1, <1>3, <1>7
<1>9. fits /\ app.active # Nobody => n.name = "rsp" \/ n.to \in {None, app.to[app.active]}
  BY <1>7 DEF SamePeer
<1>10. /\ y \in App /\ SameAvatars(app, y) /\ y.to = app.to /\ Moves(y)
       /\ IsInjective(y.queue) /\ ToSet(y.queue) \subseteq ToSet(app.queue)
       /\ \/ y.active \in {Nobody, app.active}
          \/ y.active \in ToSet(app.queue) \ ToSet(y.queue)
       /\ \A m \in Message : y.status[m] = "delivered" =>
            app.status[m] = "delivered" \/ (fits /\ m = app.active /\ r = "delivered")
  <2>1. CASE fits
    <3>1. PICK x : x = app
      OBVIOUS
    <3>2. x \in App /\ IsInjective(x.queue) /\ r \in Final /\ y = FinishActive(x, r)
      BY <1>5, <1>7, <2>1, <3>1, IInvParts
    <3>3. /\ y \in App /\ SameAvatars(x, y) /\ y.to = x.to /\ Moves(y)
          /\ IsInjective(y.queue) /\ ToSet(y.queue) \subseteq ToSet(x.queue)
          /\ y.active # Nobody => y.active \in ToSet(x.queue) \ ToSet(y.queue)
          /\ \A m \in Message : y.status[m] = "delivered" =>
               x.status[m] = "delivered" \/ (m = x.active /\ r = "delivered")
      BY <3>2, FinishFacts
    <3>. QED  BY <2>1, <3>1, <3>3
  <2>2. CASE ~fits
    <3>1. y = app
      BY <1>7, <2>2
    <3>. QED  BY <3>1, IInvParts DEF SameAvatars
  <2>. QED  BY <2>1, <2>2
<1>11. GoodAvatars(y)
  BY <1>10, IInvParts DEF GoodAvatars, SameAvatars
<1>12. PICK Q : Q = ToSet(app.queue)
  OBVIOUS
<1>13. \A m \in Q : /\ m \in Message /\ m <= typed' /\ truth[m] = "none"
                    /\ m \notin ToSet(pendant.cmds) /\ m # pendant.tx
  <2>1. Q \subseteq Message
    BY <1>12, IInvParts, Elements
  <2>2. \A m \in Q : m \in Message /\ m # Nobody
    BY <2>1 DEF Message, Nobody
  <2>. QED  BY <1>1, <1>12, <2>2 DEF IInv, OnceInv, Unreported
<1>14. TypeInv /\ OnceInv
  BY DEF IInv
<1>15. typed' \in Nat /\ typed <= typed'
  BY <1>1, IInvParts
<1>. HIDE DEF note, heard, fits, s
<1>16. OnceInv' /\ app' = y /\ pendant' \in Held /\ pendant'.notes = p.notes
  BY <1>1, <1>4, <1>8, <1>10, <1>12, <1>13, <1>14, <1>15, BecomesKeeps
<1>17. TypeInv'
  <2>1. (app \in App /\ GoodAvatars(app) /\ pendant \in Held
         /\ truth \in [Message -> {"none", "success", "unnamed"}]
         /\ typed \in 0..MaxMessages /\ faults \in 0..MaxFaults)'
    BY <1>1, <1>10, <1>11, <1>14, <1>16, TypeParts DEF GoodAvatars
  <2>. QED  BY <2>1 DEF TypeInv, TypeOK, GoodAvatars, Held
<1>18. NotesInv'
  <2>1. pendant'.notes = Tail(pendant.notes) /\ app'.to = app.to /\ truth' = truth
    BY <1>1, <1>4, <1>10, <1>16
  <2>2. PICK t : t = Tail(pendant.notes)
    OBVIOUS
  <2>3. \A i \in 1 .. Len(t) : Told(t[i])
    BY <1>2, <2>2
  <2>. QED  BY <2>1, <2>2, <2>3 DEF NotesInv, Told
<1>19. DeliveredByPeer'
  <2>1. ASSUME NEW m \in Message, app'.status[m] = "delivered"
        PROVE  \E k \in Message : \/ truth[k] = "unnamed"
                                  \/ truth[k] = "success" /\ app.to[k] = app.to[m]
    <3>1. CASE app.status[m] = "delivered"
      BY <3>1 DEF IInv, DeliveredByPeer
    <3>2. CASE fits /\ m = app.active /\ r = "delivered"
      <4>1. n.name = "result" /\ n.result = "success" /\ n.message \in Message /\ n \in Note
        BY <1>2, <1>6, <1>7, <3>2 DEF Note
      <4>2. app.active # Nobody
        BY <3>2 DEF Message, Nobody
      <4>3. n.to \in {None, app.to[m]}
        BY <1>9, <3>2, <4>1, <4>2
      <4>4. \/ n.to = None /\ truth[n.message] = "unnamed"
            \/ /\ truth[n.message] = "success"
             /\ n.to # None /\ app.to[n.message] = n.to
        BY <1>2, <1>7, <4>1 DEF Told
      <4>5. CASE truth[n.message] = "unnamed"
        BY <4>1, <4>5
      <4>6. CASE truth[n.message] = "success" /\ n.to # None /\ app.to[n.message] = n.to
        BY <4>1, <4>3, <4>6
      <4>. QED  BY <4>4, <4>5, <4>6
    <3>3. y.status[m] = "delivered"
      BY <1>16, <2>1
    <3>4. app.status[m] = "delivered" \/ (fits /\ m = app.active /\ r = "delivered")
      BY <1>10, <3>3
    <3>. QED  BY <3>1, <3>2, <3>4
  <2>2. app'.to = app.to /\ truth' = truth
    BY <1>1, <1>10, <1>16
  <2>. QED  BY <2>1, <2>2 DEF DeliveredByPeer
<1>20. Moves(app)'
  BY <1>10, <1>16 DEF Moves, HasPendingChatWork
<1>. QED  BY <1>16, <1>17, <1>18, <1>19, <1>20 DEF IInv

\* The pendant goes on with q and reports the messages as t; what was reported
\* stays reported.
LEMMA PendantStep ==
  ASSUME IInv, NEW q \in Held, pendant' = q, app' = app, typed' = typed,
         faults' \in 0..MaxFaults, truth' \in [Message -> {"none", "success", "unnamed"}],
         \A m \in Message : truth[m] # "none" => truth'[m] = truth[m],
         IsInjective(q.cmds), ToSet(q.cmds) \subseteq ToSet(pendant.cmds),
         \A m \in Message : m \in ToSet(app.queue) \cup ToSet(q.cmds) => truth'[m] = truth[m],
         \A m \in Message : truth'[m] # truth[m] => m <= typed,
         q.tx # Nobody => /\ Unreported(q.tx) /\ truth'[q.tx] = truth[q.tx]
                          /\ q.tx \notin ToSet(app.queue) /\ q.tx \notin ToSet(q.cmds),
         \A i \in 1 .. Len(q.notes) : Told(q.notes[i])'
  PROVE  IInv'
<1>1. TypeInv /\ OnceInv /\ DeliveredByPeer /\ Moves(app)
  BY DEF IInv
<1>2. TypeInv'
  <2>1. (app \in App /\ GoodAvatars(app) /\ pendant \in Held
         /\ truth \in [Message -> {"none", "success", "unnamed"}]
         /\ typed \in 0..MaxMessages /\ faults \in 0..MaxFaults)'
    BY IInvParts DEF GoodAvatars
  <2>. QED  BY <2>1 DEF TypeInv, TypeOK, GoodAvatars, Held
<1>3. OnceInv'
  <2>1. ToSet(app.queue) \subseteq Message /\ ToSet(q.cmds) \subseteq Message
    <3>1. app.queue \in Seq(Message) /\ q.cmds \in Seq(Message)
      BY IInvParts DEF Held
    <3>. QED  BY <3>1, Elements
  <2>2. \A m \in ToSet(app.queue) : m <= typed' /\ truth'[m] = "none"
    BY <1>1, <2>1 DEF OnceInv, Unreported
  <2>3. \A m \in ToSet(q.cmds) : m <= typed' /\ truth'[m] = "none" /\ m \notin ToSet(app.queue)
    BY <1>1, <2>1 DEF OnceInv, Unreported
  <2>4. q.tx # Nobody => q.tx <= typed' /\ truth'[q.tx] = "none"
    BY DEF Unreported
  <2>5. \A m \in Message : truth'[m] # "none" => m <= typed'
    BY <1>1 DEF OnceInv
  <2>6. IsInjective(app.queue)
    BY <1>1 DEF OnceInv
  <2>. QED  BY <2>2, <2>3, <2>4, <2>5, <2>6 DEF OnceInv, Unreported
<1>4. NotesInv'
  BY DEF NotesInv
<1>5. DeliveredByPeer'
  BY <1>1 DEF DeliveredByPeer
<1>6. Moves(app)'
  BY <1>1 DEF Moves, HasPendingChatWork
<1>. QED  BY <1>2, <1>3, <1>4, <1>5, <1>6 DEF IInv

\* A note that is told joins those that are.
LEMMA NotifyFacts ==
  ASSUME NEW q \in Held, NEW note \in Note, NEW r, r = Notify(q, note)
  PROVE  /\ r \in Held /\ r.cmds = q.cmds /\ r.tx = q.tx
         /\ \/ r.notes = q.notes
            \/ /\ Len(r.notes) = Len(q.notes) + 1 /\ r.notes[Len(q.notes) + 1] = note
               /\ \A i \in 1 .. Len(q.notes) : r.notes[i] = q.notes[i]
<1>1. PICK s, t : s = q.notes /\ t = Append(q.notes, note)
  OBVIOUS
<1>2. s \in Seq(Note)
  BY <1>1 DEF Held
<1>3. /\ t \in Seq(Note) /\ Len(t) = Len(s) + 1 /\ t[Len(s) + 1] = note
      /\ \A i \in 1 .. Len(s) : t[i] = s[i]
  BY <1>1, <1>2, AppendProperties
<1>4. CASE app.ready
  <2>1. r = [q EXCEPT !.notes = t]
    BY <1>1, <1>4 DEF Notify
  <2>2. r \in Held /\ r.cmds = q.cmds /\ r.tx = q.tx /\ r.notes = t
    BY <1>3, <2>1 DEF Held
  <2>. QED  BY <1>1, <1>3, <2>2
<1>5. CASE ~app.ready
  BY <1>5 DEF Notify
<1>. QED  BY <1>4, <1>5

LEMMA TakesKeeps ==
  ASSUME IInv, PendantTakes
  PROVE  IInv'
<1>1. pendant.cmds # <<>> /\ UNCHANGED <<app, truth, typed, faults>>
  BY DEF PendantTakes
<1>2. PICK m, c : m = Head(pendant.cmds) /\ c = Tail(pendant.cmds)
  OBVIOUS
<1>3. PICK taken : taken = [pendant EXCEPT !.cmds = c]
  OBVIOUS
<1>4. PICK rsp : rsp = [name |-> "rsp", message |-> m, to |-> None, result |-> "failed"]
  OBVIOUS
<1>5. \/ pendant.tx = Nobody /\ pendant' = [taken EXCEPT !.tx = m]
      \/ pendant' = Notify(taken, rsp)
  BY <1>2, <1>3, <1>4 DEF PendantTakes
<1>6. OnceInv /\ NotesInv /\ truth \in [Message -> {"none", "success", "unnamed"}]
  BY TypeParts DEF IInv
<1>7. /\ c \in Seq(Message) /\ m \in Message /\ m \in ToSet(pendant.cmds)
      /\ ToSet(c) \subseteq ToSet(pendant.cmds) /\ IsInjective(c) /\ m \notin ToSet(c)
  <2>1. pendant.cmds \in Seq(Message) /\ IsInjective(pendant.cmds)
    BY <1>6, IInvParts DEF OnceInv
  <2>. QED  BY <1>1, <1>2, <2>1, TailRange
<1>8. taken \in Held /\ taken.cmds = c /\ taken.tx = pendant.tx /\ taken.notes = pendant.notes
  BY <1>3, <1>7, IInvParts DEF Held
<1>9. rsp \in Note /\ rsp.name = "rsp"
  BY <1>4, <1>7 DEF Note, Result
<1>10. PICK s : s = pendant.notes
  OBVIOUS
<1>11. \A i \in 1 .. Len(s) : Told(s[i])'
  <2>1. \A i \in 1 .. Len(s) : Told(s[i])
    BY <1>6, <1>10 DEF NotesInv
  <2>. QED  BY <1>1, <2>1 DEF Told
<1>12. \A k \in Message : truth'[k] = truth[k]
  BY <1>1
<1>13. faults' \in 0..MaxFaults /\ truth' \in [Message -> {"none", "success", "unnamed"}]
  BY <1>1, <1>6, IInvParts
<1>14. CASE pendant.tx = Nobody /\ pendant' = [taken EXCEPT !.tx = m]
  <2>1. PICK q : q = [taken EXCEPT !.tx = m]
    OBVIOUS
  <2>2. q \in Held /\ q.cmds = c /\ q.tx = m /\ q.notes = pendant.notes
    BY <1>7, <1>8, <2>1 DEF Held
  <2>3. Unreported(m) /\ m \notin ToSet(app.queue)
    BY <1>6, <1>7 DEF OnceInv
  <2>4. \A i \in 1 .. Len(q.notes) : Told(q.notes[i])'
    BY <1>10, <1>11, <2>2
  <2>. QED  BY <1>1, <1>7, <1>12, <1>13, <1>14, <2>1, <2>2, <2>3, <2>4, PendantStep
<1>15. CASE pendant' = Notify(taken, rsp)
  <2>1. PICK q : q = Notify(taken, rsp)
    OBVIOUS
  <2>2. /\ q \in Held /\ q.cmds = c /\ q.tx = pendant.tx
        /\ \/ q.notes = s
           \/ /\ Len(q.notes) = Len(s) + 1
              /\ q.notes[Len(s) + 1] = rsp
              /\ \A i \in 1 .. Len(s) : q.notes[i] = s[i]
    BY <1>8, <1>9, <1>10, <2>1, NotifyFacts
  <2>3. Told(rsp)'
    BY <1>9 DEF Told
  <2>4. Len(s) \in Nat
    BY <1>10, IInvParts, LenProperties
  <2>5. \A i \in 1 .. Len(q.notes) : Told(q.notes[i])'
    <3>1. CASE q.notes = s
      BY <1>11, <3>1
    <3>2. ASSUME Len(q.notes) = Len(s) + 1,
                 q.notes[Len(s) + 1] = rsp,
                 \A i \in 1 .. Len(s) : q.notes[i] = s[i]
          PROVE  \A i \in 1 .. Len(q.notes) : Told(q.notes[i])'
      <4>1. ASSUME NEW i \in 1 .. Len(q.notes) PROVE Told(q.notes[i])'
        <5>1. CASE i \in 1 .. Len(s)
          BY <1>11, <3>2, <5>1 DEF Told
        <5>2. CASE i = Len(s) + 1
          BY <2>3, <3>2, <5>2 DEF Told
        <5>. QED  BY <2>4, <3>2, <5>1, <5>2
      <4>. QED  BY <4>1
    <3>. QED  BY <2>2, <3>1, <3>2
  <2>6. q.tx # Nobody => /\ Unreported(q.tx) /\ q.tx \notin ToSet(app.queue)
                         /\ q.tx \notin ToSet(q.cmds)
    BY <1>6, <1>7, <2>2 DEF OnceInv
  <2>. QED  BY <1>1, <1>7, <1>12, <1>13, <1>15, <2>1, <2>2, <2>5, <2>6, PendantStep
<1>. QED  BY <1>5, <1>14, <1>15

\* A message is reported for the first time, and told as it was reported.
LEMMA ReportsKeeps ==
  ASSUME IInv, PendantReports
  PROVE  IInv'
<1>1. PICK m : m = pendant.tx
  OBVIOUS
<1>2. PICK r \in Result, p \in {None, app.to[m]} :
        /\ pendant' = Notify([pendant EXCEPT !.tx = Nobody],
                             [name |-> "result", message |-> m, to |-> p, result |-> r])
        /\ truth' = [truth EXCEPT ![m] =
             IF r # "success" THEN @ ELSE IF p = None THEN "unnamed" ELSE "success"]
  BY <1>1 DEF PendantReports
<1>3. m # Nobody /\ UNCHANGED <<app, typed, faults>>
  BY <1>1 DEF PendantReports
<1>4. /\ OnceInv /\ NotesInv /\ truth \in [Message -> {"none", "success", "unnamed"}]
      /\ pendant \in Held /\ app.to \in [Message -> Peer \cup {None}]
  BY TypeParts DEF IInv, App
<1>5. m \in Message /\ p \in Peer \cup {None}
  <2>1. m \in Message
    BY <1>1, <1>3, <1>4 DEF Held
  <2>. QED  BY <1>4, <2>1
<1>6. /\ m <= typed /\ truth[m] = "none" /\ m \notin ToSet(app.queue)
      /\ m \notin ToSet(pendant.cmds)
  BY <1>1, <1>3, <1>4 DEF OnceInv, Unreported
<1>7. PICK q0, note : /\ q0 = [pendant EXCEPT !.tx = Nobody]
                      /\ note = [name |-> "result", message |-> m, to |-> p, result |-> r]
  OBVIOUS
<1>8. PICK s, c : s = pendant.notes /\ c = pendant.cmds
  OBVIOUS
<1>9. q0 \in Held /\ q0.cmds = c /\ q0.tx = Nobody /\ q0.notes = s
  BY <1>4, <1>7, <1>8 DEF Held
<1>10. note \in Note
  BY <1>5, <1>7 DEF Note
<1>11. PICK q : q = Notify(q0, note)
  OBVIOUS
<1>12. /\ q \in Held /\ q.cmds = c /\ q.tx = Nobody /\ pendant' = q
       /\ \/ q.notes = s
          \/ /\ Len(q.notes) = Len(s) + 1 /\ q.notes[Len(s) + 1] = note
             /\ \A i \in 1 .. Len(s) : q.notes[i] = s[i]
  <2>1. pendant' = q
    BY <1>2, <1>7, <1>11
  <2>2. /\ q \in Held /\ q.cmds = q0.cmds /\ q.tx = q0.tx
        /\ \/ q.notes = q0.notes
           \/ /\ Len(q.notes) = Len(q0.notes) + 1 /\ q.notes[Len(q0.notes) + 1] = note
              /\ \A i \in 1 .. Len(q0.notes) : q.notes[i] = q0.notes[i]
    BY <1>9, <1>10, <1>11, NotifyFacts
  <2>. QED  BY <1>9, <2>1, <2>2
<1>13. /\ truth' \in [Message -> {"none", "success", "unnamed"}]
       /\ \A k \in Message : k # m => truth'[k] = truth[k]
       /\ r = "success" => truth'[m] = IF p = None THEN "unnamed" ELSE "success"
  BY <1>2, <1>4, <1>5
<1>14. Told(note)'
  BY <1>2, <1>3, <1>5, <1>7, <1>13 DEF Told
<1>15. s \in Seq(Note) /\ Len(s) \in Nat /\ \A i \in 1 .. Len(s) : s[i] \in Note
  <2>1. s \in Seq(Note)
    BY <1>4, <1>8 DEF Held
  <2>. QED  BY <2>1, Elements
<1>16. \A i \in 1 .. Len(s) : Told(s[i])'
  <2>1. ASSUME NEW i \in 1 .. Len(s) PROVE Told(s[i])'
    <3>1. PICK n \in Note : n = s[i]
      BY <1>15
    <3>2. Told(n) /\ n.message \in Message
      BY <1>4, <1>8, <3>1 DEF NotesInv, Note
    <3>3. Told(n)'
      BY <1>3, <1>6, <1>13, <3>2 DEF Told
    <3>. QED  BY <3>1, <3>3 DEF Told
  <2>. QED  BY <2>1
<1>17. \A i \in 1 .. Len(q.notes) : Told(q.notes[i])'
  <2>1. CASE q.notes = s
    BY <1>16, <2>1
  <2>2. ASSUME Len(q.notes) = Len(s) + 1, q.notes[Len(s) + 1] = note,
               \A i \in 1 .. Len(s) : q.notes[i] = s[i]
        PROVE  \A i \in 1 .. Len(q.notes) : Told(q.notes[i])'
    <3>1. ASSUME NEW i \in 1 .. Len(q.notes) PROVE Told(q.notes[i])'
      <4>1. CASE i \in 1 .. Len(s)
        BY <1>16, <2>2, <4>1 DEF Told
      <4>2. CASE i = Len(s) + 1
        BY <1>14, <2>2, <4>2 DEF Told
      <4>. QED  BY <1>15, <2>2, <3>1, <4>1, <4>2
    <3>. QED  BY <3>1
  <2>. QED  BY <1>12, <2>1, <2>2
<1>18. IsInjective(q.cmds) /\ ToSet(q.cmds) \subseteq ToSet(pendant.cmds)
  BY <1>4, <1>8, <1>12 DEF OnceInv
<1>19. \A k \in Message : /\ truth[k] # "none" => truth'[k] = truth[k]
                          /\ k \in ToSet(app.queue) \cup ToSet(q.cmds) => truth'[k] = truth[k]
                          /\ truth'[k] # truth[k] => k <= typed
  BY <1>6, <1>8, <1>12, <1>13
<1>20. faults' \in 0..MaxFaults
  BY <1>3, IInvParts
<1>. QED  BY <1>3, <1>12, <1>13, <1>17, <1>18, <1>19, <1>20, PendantStep

LEMMA LoseKeeps ==
  ASSUME IInv, Lose
  PROVE  IInv'
<1>1. faults < MaxFaults /\ faults' = faults + 1 /\ UNCHANGED <<app, truth, typed>>
  BY DEF Lose, Happens
<1>2. /\ OnceInv /\ NotesInv /\ truth \in [Message -> {"none", "success", "unnamed"}]
  BY TypeParts DEF IInv
<1>3. faults' \in 0..MaxFaults
  BY <1>1, IInvParts
<1>4. PICK s, c : s = pendant.notes /\ c = pendant.cmds
  OBVIOUS
<1>5. s \in Seq(Note) /\ c \in Seq(Message) /\ pendant \in Held /\ IsInjective(c)
  BY <1>2, <1>4, IInvParts DEF OnceInv
<1>6. \A i \in 1 .. Len(s) : Told(s[i])'
  <2>1. \A i \in 1 .. Len(s) : Told(s[i])
    BY <1>2, <1>4 DEF NotesInv
  <2>. QED  BY <1>1, <2>1 DEF Told
<1>7. pendant.tx # Nobody => /\ Unreported(pendant.tx) /\ pendant.tx \notin ToSet(app.queue)
                             /\ pendant.tx \notin ToSet(c)
  BY <1>2, <1>4 DEF OnceInv
<1>8. ASSUME NEW q \in Held, pendant' = q, q.tx = pendant.tx, IsInjective(q.cmds),
             ToSet(q.cmds) \subseteq ToSet(c), \A i \in 1 .. Len(q.notes) : Told(q.notes[i])'
      PROVE  IInv'
  <2>1. q.tx # Nobody => /\ Unreported(q.tx) /\ q.tx \notin ToSet(app.queue)
                         /\ q.tx \notin ToSet(q.cmds)
    BY <1>7, <1>8
  <2>2. ToSet(q.cmds) \subseteq ToSet(pendant.cmds)
    BY <1>4, <1>8
  <2>3. truth' = truth
    BY <1>1
  <2>. QED  BY <1>1, <1>2, <1>3, <1>8, <2>1, <2>2, <2>3, PendantStep
<1>9. CASE pendant.cmds # <<>> /\ pendant' = [pendant EXCEPT !.cmds = Tail(@)]
  <2>1. PICK t : t = Tail(c)
    OBVIOUS
  <2>2. t \in Seq(Message) /\ IsInjective(t) /\ ToSet(t) \subseteq ToSet(c)
    BY <1>4, <1>5, <1>9, <2>1, TailRange
  <2>3. PICK q : q = [pendant EXCEPT !.cmds = t]
    OBVIOUS
  <2>4. q \in Held /\ q.cmds = t /\ q.tx = pendant.tx /\ q.notes = s
    BY <1>4, <1>5, <2>2, <2>3 DEF Held
  <2>5. pendant' = q
    BY <1>4, <1>9, <2>1, <2>3
  <2>6. \A i \in 1 .. Len(q.notes) : Told(q.notes[i])'
    BY <1>6, <2>4
  <2>. QED  BY <1>8, <2>2, <2>4, <2>5, <2>6
<1>10. CASE pendant.notes # <<>> /\ pendant' = [pendant EXCEPT !.notes = Front(@)]
  <2>1. PICK t : t = Front(s)
    OBVIOUS
  <2>2. Len(s) \in Nat \ {0} /\ \A i \in 1 .. Len(s) : s[i] \in Note
    BY <1>4, <1>5, <1>10, Elements
  <2>3. t = SubSeq(s, 1, Len(s) - 1)
    BY <2>1 DEF Front
  <2>4. /\ t \in Seq(Note) /\ Len(t) = Len(s) - 1
        /\ \A i \in 1 .. Len(t) : t[i] = s[i]
    <3>1. PICK b : b = Len(s) - 1
      OBVIOUS
    <3>2. b \in Nat /\ b <= Len(s) /\ \A i \in 1 .. b : s[i] \in Note
      BY <2>2, <3>1
    <3>3. /\ t \in Seq(Note) /\ Len(t) = b /\ \A i \in 1 .. b : t[i] = s[i]
      BY <2>3, <3>1, <3>2, SubSeqProperties
    <3>. QED  BY <3>1, <3>3
  <2>5. PICK q : q = [pendant EXCEPT !.notes = t]
    OBVIOUS
  <2>6. q \in Held /\ q.cmds = c /\ q.tx = pendant.tx /\ q.notes = t
    BY <1>4, <1>5, <2>4, <2>5 DEF Held
  <2>7. pendant' = q
    BY <1>4, <1>10, <2>1, <2>5
  <2>8. \A i \in 1 .. Len(t) : Told(t[i])'
    BY <1>6, <2>2, <2>4 DEF Told
  <2>9. \A i \in 1 .. Len(q.notes) : Told(q.notes[i])'
    BY <2>6, <2>8
  <2>. QED  BY <1>5, <1>8, <2>6, <2>7, <2>9
<1>. QED  BY <1>9, <1>10 DEF Lose

-----------------------------------------------------------------------------
(* The theorems. *)

LEMMA StartsRight == Init => IInv
<1> SUFFICES ASSUME Init PROVE IInv
  OBVIOUS
<1>1. /\ app = Fresh /\ pendant = [cmds |-> <<>>, tx |-> Nobody, notes |-> <<>>]
      /\ truth = [m \in Message |-> "none"] /\ typed = 0 /\ faults = 0
  BY DEF Init
<1>2. /\ Fresh \in App /\ GoodAvatars(Fresh) /\ Moves(Fresh) /\ Fresh.queue = <<>>
      /\ \A m \in Message : Fresh.status[m] = "none"
  BY FreshFacts DEF Fresh
<1>3. /\ <<>> \in Seq(Message) /\ <<>> \in Seq(Note) /\ Len(<<>>) = 0
      /\ ToSet(<<>>) = {} /\ IsInjective(<<>>)
  BY Emptied
<1>4. TypeInv
  <2>1. pendant \in Held /\ truth \in [Message -> {"none", "success", "unnamed"}]
    BY <1>1, <1>3 DEF Held
  <2>2. typed \in 0..MaxMessages /\ faults \in 0..MaxFaults
    BY <1>1, BoundAssumption
  <2>. QED  BY <1>1, <1>2, <2>1, <2>2, TypeParts
<1>5. OnceInv
  BY <1>1, <1>2, <1>3 DEF OnceInv
<1>6. NotesInv
  BY <1>1, <1>3 DEF NotesInv
<1>7. DeliveredByPeer
  BY <1>1, <1>2 DEF DeliveredByPeer
<1>. QED  BY <1>1, <1>2, <1>4, <1>5, <1>6, <1>7 DEF IInv

LEMMA StepsRight == IInv /\ [Next]_vars => IInv'
<1> SUFFICES ASSUME IInv, [Next]_vars PROVE IInv'
  OBVIOUS
<1>1. CASE UNCHANGED vars
  BY <1>1 DEF vars, IInv, TypeInv, TypeOK, OnceInv, Unreported, NotesInv, Told,
              DeliveredByPeer, Moves, HasPendingChatWork
<1>2. ASSUME NEW p \in Peer, SendChatMessageText(p) PROVE IInv'
  BY <1>2, SendKeeps
<1>3. CASE \/ \E p \in Peer : RefuseChatMessageText(p)
           \/ \E p \in Visible : BlockPeer(p) \/ UnblockPeer(p)
           \/ SavePickedAvatar
  BY <1>3, UserKeeps
<1>4. CASE RunChatTimeout
  BY <1>4, TimeoutKeeps
<1>5. CASE TrySendNextAvatar
  BY <1>5, TrySendKeeps
<1>6. CASE FileStarts \/ FileEnds
  BY <1>6, FileKeeps
<1>7. CASE SeePeers \/ OnDebugReady
  BY <1>7, SeeKeeps
<1>8. CASE OnHostMessage
  BY <1>8, HostKeeps
<1>9. CASE OnLinkLost \/ UnbindDevice \/ Restart
  BY <1>9, LinkKeeps
<1>10. CASE PendantTakes
  BY <1>10, TakesKeeps
<1>11. CASE PendantReports
  BY <1>11, ReportsKeeps
<1>12. CASE Lose
  BY <1>12, LoseKeeps
<1>. QED
  BY <1>1, <1>2, <1>3, <1>4, <1>5, <1>6, <1>7, <1>8, <1>9, <1>10, <1>11, <1>12 DEF Next

LEMMA Inductive == Spec => []IInv
BY StartsRight, StepsRight, PTL DEF Spec

\* Every state is of its type: a neighbour waits for the avatar once at most,
\* and its key is in avatarQueuedKeys exactly while it waits, over every
\* interleaving of the user, the posted Runnables and the pendant.
THEOREM TypeCorrect == Spec => []TypeOK
<1>1. IInv => TypeOK
  BY DEF IInv, TypeInv
<1>. QED  BY <1>1, Inductive, PTL

\* A message shown as delivered was delivered, or another to the same
\* neighbour was, or a result came without a short id: however late a result
\* arrives in onHostMessage, and whatever is lost, refused or restarted.
THEOREM DeliveredRightly == Spec => []DeliveredByPeer
<1>1. IInv => DeliveredByPeer
  BY DEF IInv
<1>. QED  BY <1>1, Inductive, PTL

\* Avatars that wait have a Runnable, a message or a transfer that will send
\* them, unless the code took the Runnable away (scheduleAvatarSend).
THEOREM AvatarsAreSent == Spec => []AvatarsMove
<1>1. IInv => AvatarsMove
  BY DEF IInv, Moves, AvatarsMove
<1>. QED  BY <1>1, Inductive, PTL

=============================================================================
