-------------------------- MODULE ProfileCardProofs --------------------------
(***************************************************************************)
(* Proofs about ProfileCard, for every set of nicknames and every budget:   *)
(* the record restores the card in use, and what the app shows as its own   *)
(* card is the pendant's.                                                   *)
(***************************************************************************)
EXTENDS ProfileCard, SequenceTheorems, TLAPS

Commands == [cmd : {"get", "chat"}]
            \cup [cmd : {"set"}, name : Text, visible : BOOLEAN, why : {"sync", "save"}]

(* Types, as far as the properties need them.                               *)
TypeInv ==
  /\ wish \in BOOLEAN /\ ready \in BOOLEAN /\ saving \in BOOLEAN
  /\ excused \in BOOLEAN
  /\ profile \in Card \cup {None} /\ edit \in Text \cup {None}
  /\ down \in Seq(Commands) /\ up \in Seq(Card)
  /\ pending \in Commands \cup {None}
  /\ card \in Card /\ flash \in Card \cup {Blank}

(* A save belongs to the command that waits for it.                         *)
SaveInv == saving => pending # None /\ pending.cmd = "set"

(* Without a link nothing is on its way to the app.                         *)
LinkInv == ~ready => up = <<>> /\ profile = None

(* The answer sent last carries the card; it is the one the app reads last. *)
AnswerInv ==
  ~saving =>
    /\ up # <<>> => up[Len(up)] = card
    /\ up = <<>> /\ profile # None /\ ~excused => profile = card

Inv == TypeInv /\ SaveInv /\ LinkInv /\ AnswerInv /\ RecordIsCard

-----------------------------------------------------------------------------

(* Facts about short sequences.                                             *)
LEMMA TailFacts ==
  ASSUME NEW S, NEW s \in Seq(S), s # <<>>
  PROVE  /\ Head(s) = s[1] /\ Head(s) \in S /\ Tail(s) \in Seq(S)
         /\ Tail(s) = <<>> => Len(s) = 1
         /\ Len(s) = 1 => Tail(s) = <<>>
         /\ Tail(s) # <<>> => Tail(s)[Len(Tail(s))] = s[Len(s)]
<1>1. Len(s) \in Nat /\ Len(s) > 0
  OBVIOUS
<1>2. Tail(s) \in Seq(S) /\ Len(Tail(s)) = Len(s) - 1
  BY <1>1
<1>3. ASSUME NEW i \in 1..Len(s) - 1 PROVE Tail(s)[i] = s[i + 1]
  BY <1>1
<1>4. Tail(s) = <<>> => Len(s) = 1
  BY <1>1, <1>2, EmptySeq
<1>5. Len(s) = 1 => Tail(s) = <<>>
  <2>1. ASSUME Tail(s) # <<>> PROVE Len(Tail(s)) \in Nat \ {0}
    BY <1>2, <2>1, EmptySeq
  <2>. QED  BY <1>1, <1>2, <2>1
<1>6. Tail(s) # <<>> => Tail(s)[Len(Tail(s))] = s[Len(s)]
  BY <1>1, <1>2, <1>3, <1>5
<1>. QED  BY <1>1, <1>2, <1>4, <1>5, <1>6

LEMMA InitInv == Init => Inv
<1>. SUFFICES ASSUME Init PROVE Inv
  OBVIOUS
<1>1. DefaultCard \in Card
  BY DEF DefaultCard, Card, Text
<1>2. TypeInv
  BY <1>1, EmptySeq DEF Init, TypeInv
<1>3. SaveInv /\ LinkInv /\ AnswerInv /\ RecordIsCard
  BY DEF Init, SaveInv, LinkInv, AnswerInv, RecordIsCard, Load
<1>. QED  BY <1>2, <1>3 DEF Inv

(* A command the app sends is one the pendant knows.                        *)
LEMMA SendType ==
  ASSUME TypeInv, NEW c \in Commands, Send(c)
  PROVE  down' \in Seq(Commands)
  BY DEF TypeInv, Send

LEMMA NameType ==
  ASSUME TypeInv, NEW read \in Card \cup {None}
  PROVE  NameForWrite(read) \in Text
<1>1. CASE edit # None
  BY <1>1 DEF TypeInv, NameForWrite
<1>2. CASE edit = None /\ read = None
  BY <1>2 DEF TypeInv, NameForWrite, Text
<1>3. CASE edit = None /\ read # None
  BY <1>3 DEF TypeInv, NameForWrite, Card
<1>. QED  BY <1>1, <1>2, <1>3

LEMMA SetCommandType ==
  ASSUME NEW name \in Text, NEW hidden \in BOOLEAN, NEW why \in {"sync", "save"}
  PROVE  SetCommand(name, hidden, why) \in Commands
  BY DEF SetCommand, Commands

LEMMA LoadType ==
  ASSUME NEW f \in Card \cup {Blank}
  PROVE  Load(f) \in Card
  BY DEF Load, DefaultCard, Card, Text

-----------------------------------------------------------------------------
(* The steps of the app.                                                    *)

LEMMA AppStep ==
  ASSUME Inv,
         \/ SetStealthMode \/ RenderCardPage \/ TypeName \/ SaveProfileCard
         \/ SendChat \/ RequestFullSync \/ RequestProfileSummary
  PROVE  Inv'
<1>. USE DEF Inv
<1>1. UNCHANGED <<ready, profile, up, pendant, excused>>
  BY DEF SetStealthMode, RenderCardPage, TypeName, SaveProfileCard, SendChat,
         RequestFullSync, RequestProfileSummary, app
<1>2. wish' \in BOOLEAN /\ edit' \in Text \cup {None}
  BY DEF SetStealthMode, RenderCardPage, TypeName, SaveProfileCard, SendChat,
         RequestFullSync, RequestProfileSummary, app, TypeInv, Text, Card
<1>3. down' \in Seq(Commands)
  <2>1. CASE SetStealthMode
    <3>1. SetCommand(NameForWrite(profile), ~wish, "sync") \in Commands
      BY NameType, SetCommandType DEF TypeInv
    <3>. QED  BY <2>1, <3>1, SendType DEF SetStealthMode
  <2>2. CASE SaveProfileCard
    <3>1. SetCommand(edit, wish, "save") \in Commands
      BY <2>2, SetCommandType DEF TypeInv, SaveProfileCard
    <3>. QED  BY <2>2, <3>1, SendType DEF SaveProfileCard
  <2>3. CASE SendChat
    <3>1. Chat \in Commands
      BY DEF Chat, Commands
    <3>. QED  BY <2>3, <3>1, SendType DEF SendChat
  <2>4. CASE RequestProfileSummary
    <3>1. Get \in Commands
      BY DEF Get, Commands
    <3>. QED  BY <2>4, <3>1, SendType DEF RequestProfileSummary
  <2>5. CASE RenderCardPage \/ TypeName \/ RequestFullSync
    BY <2>5 DEF RenderCardPage, TypeName, RequestFullSync, TypeInv
  <2>. QED  BY <2>1, <2>2, <2>3, <2>4, <2>5
<1>. QED
  BY <1>1, <1>2, <1>3
     DEF pendant, TypeInv, SaveInv, LinkInv, AnswerInv, RecordIsCard

LEMMA LinkStep ==
  ASSUME Inv, ChannelReady \/ LinkLost \/ AppRestarts
  PROVE  Inv'
<1>1. CASE ChannelReady
  BY <1>1 DEF Inv, ChannelReady, pendant, TypeInv, SaveInv, LinkInv, AnswerInv,
              RecordIsCard
<1>2. CASE LinkLost \/ AppRestarts
  <2>1. Unready /\ edit' \in Text \cup {None}
        /\ UNCHANGED <<wish, excused, pending, saving, card, flash>>
    BY <1>2 DEF Inv, LinkLost, AppRestarts, pendant, TypeInv
  <2>2. TypeInv'
    BY <2>1, EmptySeq DEF Inv, Unready, TypeInv
  <2>. QED
    BY <2>1, <2>2 DEF Inv, Unready, SaveInv, LinkInv, AnswerInv, RecordIsCard
<1>. QED  BY <1>1, <1>2

LEMMA SummaryStep ==
  ASSUME Inv, OnProfileSummary
  PROVE  Inv'
<1>. USE DEF Inv
<1>1. Head(up) \in Card /\ Tail(up) \in Seq(Card)
  BY DEF OnProfileSummary, TypeInv
<1>2. down' \in Seq(Commands)
  <2>1. SetCommand(NameForWrite(Head(up)), wish, "sync") \in Commands
    BY <1>1, NameType, SetCommandType DEF TypeInv
  <2>. QED  BY <2>1, SendType DEF OnProfileSummary, TypeInv
<1>3. TypeInv'
  BY <1>1, <1>2 DEF OnProfileSummary, pendant, TypeInv
<1>4. AnswerInv'
  <2>1. CASE Tail(up) = <<>>
    <3>1. Len(up) = 1 /\ Head(up) = up[Len(up)]
      BY <2>1, TailFacts DEF OnProfileSummary, TypeInv
    <3>. QED  BY <2>1, <3>1 DEF OnProfileSummary, pendant, AnswerInv
  <2>2. CASE Tail(up) # <<>>
    <3>1. Tail(up)[Len(Tail(up))] = up[Len(up)]
      BY <2>2, TailFacts DEF OnProfileSummary, TypeInv
    <3>. QED  BY <2>2, <3>1 DEF OnProfileSummary, pendant, AnswerInv
  <2>. QED  BY <2>1, <2>2
<1>5. LinkInv'
  BY DEF OnProfileSummary, LinkInv
<1>. QED
  BY <1>3, <1>4, <1>5 DEF OnProfileSummary, pendant, SaveInv, RecordIsCard

-----------------------------------------------------------------------------
(* The steps of the pendant.                                                *)

LEMMA AnswerType ==
  ASSUME TypeInv, Answer
  PROVE  /\ up' \in Seq(Card)
         /\ ready => up' # <<>> /\ up'[Len(up')] = card
         /\ ~ready => up' = up
<1>1. CASE ready
  <2>1. up' = Append(up, card)
    BY <1>1 DEF Answer
  <2>2. Len(up') = Len(up) + 1 /\ up'[Len(up) + 1] = card
    BY <2>1 DEF TypeInv
  <2>. QED  BY <1>1, <2>1, <2>2 DEF TypeInv
<1>2. CASE ~ready
  BY <1>2 DEF Answer, TypeInv
<1>. QED  BY <1>1, <1>2 DEF TypeInv

LEMMA CommandStep ==
  ASSUME Inv, HandleCommand
  PROVE  Inv'
<1>. USE DEF Inv
<1>1. Head(down) \in Commands /\ down' \in Seq(Commands)
  BY DEF HandleCommand, TypeInv
<1>2. CASE pending # None /\ UNCHANGED <<up, pending>>
  BY <1>1, <1>2 DEF HandleCommand, app, TypeInv, SaveInv, LinkInv, AnswerInv,
                    RecordIsCard
<1>3. CASE Answer /\ UNCHANGED <<excused, pending>>
  BY <1>1, <1>3, AnswerType
     DEF HandleCommand, app, TypeInv, SaveInv, LinkInv, AnswerInv, RecordIsCard
<1>4. CASE pending' = Head(down) /\ UNCHANGED <<excused, up>>
  BY <1>1, <1>4 DEF HandleCommand, app, TypeInv, SaveInv, LinkInv, AnswerInv,
                    RecordIsCard
<1>. QED  BY <1>2, <1>3, <1>4 DEF HandleCommand

LEMMA SaveStep ==
  ASSUME Inv, PollSet \/ RecordWritten
  PROVE  Inv'
<1>. USE DEF Inv
<1>1. CASE PollSet
  <2>1. [name |-> pending.name, visible |-> pending.visible] \in Card
    BY <1>1 DEF PollSet, TypeInv, Commands, Card
  <2>. QED
    BY <1>1, <2>1 DEF PollSet, app, TypeInv, SaveInv, LinkInv, AnswerInv, RecordIsCard
<1>2. CASE RecordWritten
  <2>1. Load(card) = card
    BY SentinelAssumption DEF TypeInv, Load
  <2>2. TypeInv' /\ SaveInv' /\ LinkInv'
    BY <1>2, AnswerType DEF RecordWritten, app, TypeInv, SaveInv, LinkInv
  <2>3. AnswerInv'
    BY <1>2, AnswerType DEF RecordWritten, app, AnswerInv, LinkInv
  <2>. QED  BY <1>2, <2>1, <2>2, <2>3 DEF RecordWritten, RecordIsCard
<1>. QED  BY <1>1, <1>2

LEMMA PendantStep ==
  ASSUME Inv, PollChat \/ BuildBeacon \/ PowerLoss
  PROVE  Inv'
<1>. USE DEF Inv
<1>1. CASE PollChat
  BY <1>1 DEF PollChat, app, TypeInv, SaveInv, LinkInv, AnswerInv, RecordIsCard
<1>2. CASE BuildBeacon
  BY <1>2 DEF BuildBeacon, app, TypeInv, SaveInv, LinkInv, AnswerInv, RecordIsCard
<1>3. CASE PowerLoss
  <2>1. Load(flash) \in Card
    BY LoadType DEF TypeInv
  <2>2. TypeInv'
    BY <1>3, <2>1, EmptySeq DEF PowerLoss, Unready, TypeInv
  <2>. QED
    BY <1>3, <2>2 DEF PowerLoss, Unready, SaveInv, LinkInv, AnswerInv, RecordIsCard
<1>. QED  BY <1>1, <1>2, <1>3

LEMMA LossStep ==
  ASSUME Inv, CommandLost \/ AnswerLost
  PROVE  Inv'
<1>. USE DEF Inv
<1>1. CASE CommandLost
  BY <1>1 DEF CommandLost, app, pendant, TypeInv, SaveInv, LinkInv, AnswerInv,
              RecordIsCard
<1>2. CASE AnswerLost
  <2>1. TypeInv' /\ SaveInv' /\ LinkInv' /\ RecordIsCard'
    BY <1>2 DEF AnswerLost, app, pendant, TypeInv, SaveInv, LinkInv, RecordIsCard
  <2>2. CASE Len(up) = 1
    <3>1. up' = <<>> /\ excused'
      BY <1>2, <2>2, TailFacts DEF AnswerLost, TypeInv
    <3>. QED  BY <2>1, <3>1 DEF AnswerInv
  <2>3. CASE Len(up) # 1
    <3>1. up' # <<>> /\ up'[Len(up')] = up[Len(up)]
      BY <1>2, <2>3, TailFacts DEF AnswerLost, TypeInv
    <3>. QED
      BY <1>2, <2>1, <3>1 DEF AnswerLost, app, pendant, AnswerInv
  <2>. QED  BY <2>1, <2>2, <2>3
<1>. QED  BY <1>1, <1>2

-----------------------------------------------------------------------------

LEMMA NextStep == Inv /\ [Next]_vars => Inv'
<1>. SUFFICES ASSUME Inv, [Next]_vars PROVE Inv'
  OBVIOUS
<1>1. CASE UNCHANGED vars
  BY <1>1 DEF vars, app, pendant, Inv, TypeInv, SaveInv, LinkInv, AnswerInv,
              RecordIsCard
<1>2. CASE Next
  BY <1>2, AppStep, LinkStep, SummaryStep, CommandStep, SaveStep, PendantStep,
     LossStep DEF Next
<1>. QED  BY <1>1, <1>2

THEOREM Invariance == Spec => []Inv
  BY InitInv, NextStep, PTL DEF Spec

(* Outside a save the record restores the card in use                       *)
(* (app_profile_save, app_profile_load).                                    *)
THEOREM RecordRestoresCard == Spec => []RecordIsCard
<1>1. Inv => RecordIsCard
  BY DEF Inv
<1>. QED  BY <1>1, Invariance, PTL

(* What the app shows as its card is the pendant's, once its answers are    *)
(* handled and unless one was lost (myProfile, handle_flash_pending).       *)
THEOREM AppBelievesRightly == Spec => []BeliefIsCard
<1>1. Inv => BeliefIsCard
  BY DEF Inv, SaveInv, AnswerInv, BeliefIsCard, TypeInv
<1>. QED  BY <1>1, Invariance, PTL

=============================================================================
