----------------------------- MODULE ProfileCard -----------------------------
(***************************************************************************)
(* The card a pendant shows its neighbours (profile/app_profile.c), its     *)
(* record in flash, and the app that edits it: nickname and stealth mode    *)
(* (MainActivity.java).  The app keeps the wish to be hidden, the pendant   *)
(* keeps the card; a change of the card is a command that the pendant puts  *)
(* off to its next poll and answers with the card, any other answer is      *)
(* ignored by the app.                                                      *)
(***************************************************************************)
EXTENDS Naturals, Sequences

CONSTANTS
  Nicknames,    \* what the user may type
  Factory,      \* the nickname of profile_make_default
  Placeholder,  \* what the app writes and shows for a card it has not read
  None,         \* no card, no text, no command
  Blank,        \* a record that is erased, torn or never written
  Budget        \* bound: how often the user and the environment may act

Kinds == {"toggle", "errand", "link", "fault"}
Text  == Nicknames \cup {Factory, Placeholder}
Card  == [name : Text, visible : BOOLEAN]

ASSUME BudgetAssumption == Budget \in [Kinds -> Nat]
ASSUME SentinelAssumption ==
  /\ None \notin Card \cup Text /\ Blank \notin Card /\ Factory # Placeholder

VARIABLES
  wish,     \* stealthMode, kept in the preferences
  ready,    \* debugReady: the link is up and subscribed
  profile,  \* myProfile: the card the app has read on this link
  edit,     \* the text of nicknameEdit, None before its page was opened
  due,      \* requests for the card posted by requestFullSync
  down,     \* commands on their way to the pendant
  up,       \* answers that carry the card
  pending,  \* s_pending
  saving,   \* between the erase and the write of the record
  card,     \* s_profile
  flash,    \* the record
  air,      \* the card in the advertising data
  excused,  \* history: a command or an answer was lost or refused since the
            \* app last read the card, or it did not ask for it on this link
  budget    \* bound: what is left of Budget

app     == <<wish, profile, edit, due>>
pendant == <<pending, saving, card, flash, air>>
vars    == <<app, ready, down, up, pendant, excused, budget>>

Spend(kind) == budget[kind] > 0 /\ budget' = [budget EXCEPT ![kind] = @ - 1]

-----------------------------------------------------------------------------
(* The record.                                                              *)

DefaultCard == [name |-> Factory, visible |-> TRUE]

(* app_profile_load: a record that is not whole counts as none.             *)
Load(f) == IF f = Blank THEN DefaultCard ELSE f

Init ==
  /\ wish = FALSE /\ ready = FALSE /\ profile = None /\ edit = None /\ due = 0
  /\ down = <<>> /\ up = <<>>
  /\ pending = None /\ saving = FALSE
  /\ card = DefaultCard /\ flash = Blank /\ air = DefaultCard
  /\ excused = FALSE /\ budget = Budget

-----------------------------------------------------------------------------
(* The app.                                                                 *)

SetCommand(name, hidden, why) ==
  [cmd |-> "set", name |-> name, visible |-> ~hidden, why |-> why]
Get  == [cmd |-> "get"]
Chat == [cmd |-> "chat"]

(* sendPackets drops what comes before the link is ready.                   *)
Send(c) == down' = IF ready THEN Append(down, c) ELSE down

(* profileNicknameForWrite: the text of the edit field, also of a page left *)
(* long ago, before the nickname that was read.                             *)
NameForWrite(read) ==
  CASE edit # None -> edit
    [] edit = None /\ read = None -> Placeholder
    [] OTHER -> read.name

(* setStealthMode.                                                          *)
SetStealthMode ==
  /\ Spend("toggle")
  /\ wish' = ~wish
  /\ Send(SetCommand(NameForWrite(profile), ~wish, "sync"))
  /\ UNCHANGED <<profile, edit, due, ready, up, pendant, excused>>

(* renderProfileSettingsPage, also when an update in the background renders *)
(* it again.                                                                *)
RenderCardPage ==
  /\ Spend("errand")
  /\ edit' = IF profile = None THEN Placeholder ELSE profile.name
  /\ UNCHANGED <<wish, profile, due, ready, down, up, pendant, excused>>

TypeName ==
  /\ edit # None /\ Spend("errand")
  /\ edit' \in Nicknames
  /\ UNCHANGED <<wish, profile, due, ready, down, up, pendant, excused>>

(* saveProfileCard.                                                         *)
SaveProfileCard ==
  /\ ready /\ edit # None /\ Spend("errand")
  /\ Send(SetCommand(edit, wish, "save"))
  /\ UNCHANGED <<app, ready, up, pendant, excused>>

(* A message or a file frame, which the pendant puts off as well.           *)
SendChat ==
  /\ ready /\ Spend("errand")
  /\ Send(Chat)
  /\ UNCHANGED <<app, ready, up, pendant, excused>>

(* requestFullSync, by a pull or a button.                                  *)
RequestFullSync ==
  /\ ready /\ Spend("errand")
  /\ due' = due + 1
  /\ UNCHANGED <<wish, profile, edit, ready, down, up, pendant, excused>>

(* The Runnable of requestProfileSummary, whether or not the link is still  *)
(* the one it was posted on.                                                *)
RequestProfileSummary ==
  /\ due > 0
  /\ due' = due - 1
  /\ Send(Get)
  /\ UNCHANGED <<wish, profile, edit, ready, up, pendant, excused, budget>>

(* subscribeNext with nothing left to subscribe; a link opened for an       *)
(* update does not synchronise.                                             *)
ChannelReady ==
  /\ ~ready /\ ready' = TRUE
  /\ \/ Spend("link") /\ due' = due + 1 /\ excused' = FALSE
     \/ Spend("fault") /\ due' = due /\ excused' = TRUE
  /\ UNCHANGED <<wish, profile, edit, down, up, pendant>>

\* Mutant: the card read on the last link is kept.
UnreadKeepsProfile ==
  ready' = FALSE /\ profile' = profile /\ down' = <<>> /\ up' = <<>>

(* onDebugReady(false): what was on its way is lost, the card is unread.    *)
Unready == ready' = FALSE /\ profile' = None /\ down' = <<>> /\ up' = <<>>

LinkLost ==
  /\ ready /\ Unready
  /\ UNCHANGED <<wish, edit, due, pendant, excused, budget>>

(* The process of the app ends and starts again.                            *)
AppRestarts ==
  /\ Unready /\ edit' = None /\ due' = 0
  /\ UNCHANGED <<wish, pendant, excused, budget>>

\* Mutant: the card is shown but not compared with the wish.
OnSummaryOnlyShows ==
  /\ up # <<>>
  /\ profile' = Head(up) /\ up' = Tail(up) /\ excused' = FALSE
  /\ UNCHANGED <<wish, edit, due, ready, down, pendant, budget>>

(* onHostMessage, the answer to GET_PROFILE_SUMMARY: a terminal that        *)
(* disagrees with the wish is told again.                                   *)
OnProfileSummary ==
  /\ up # <<>>
  /\ profile' = Head(up) /\ up' = Tail(up) /\ excused' = FALSE
  /\ IF Head(up).visible = wish
     THEN Send(SetCommand(NameForWrite(Head(up)), wish, "sync"))
     ELSE UNCHANGED down
  /\ UNCHANGED <<wish, edit, due, ready, pendant, budget>>

-----------------------------------------------------------------------------
(* The pendant.                                                             *)

Answer == up' = IF ready THEN Append(up, card) ELSE up

(* handle_command: while a command is put off, every other is refused.      *)
HandleCommand ==
  /\ ~saving /\ down # <<>>
  /\ down' = Tail(down)
  /\ LET c == Head(down)
     IN  \/ /\ pending # None
            /\ excused' = (excused \/ c.cmd # "chat")
            /\ UNCHANGED <<up, pending>>
         \/ /\ pending = None /\ c.cmd = "get"
            /\ Answer
            /\ UNCHANGED <<excused, pending>>
         \/ /\ pending = None /\ c.cmd # "get"
            /\ pending' = c
            /\ UNCHANGED <<excused, up>>
  /\ UNCHANGED <<app, ready, saving, card, flash, air, budget>>

(* handle_flash_pending for a message.                                      *)
PollChat ==
  /\ pending # None /\ pending.cmd = "chat"
  /\ pending' = None
  /\ UNCHANGED <<app, ready, down, up, saving, card, flash, air, excused, budget>>

\* Mutant: a card whose nickname stays is not saved.
PollSetSavesNames ==
  /\ ~saving /\ pending # None /\ pending.cmd = "set"
  /\ card' = [name |-> pending.name, visible |-> pending.visible]
  /\ IF pending.name = card.name
     THEN pending' = None /\ up' = (IF ready THEN Append(up, card') ELSE up)
          /\ UNCHANGED <<flash, saving>>
     ELSE flash' = Blank /\ saving' = TRUE /\ UNCHANGED <<pending, up>>
  /\ UNCHANGED <<app, ready, down, air, excused, budget>>

(* handle_flash_pending for a card: app_profile_set_summary, up to the      *)
(* erase in app_profile_save.                                               *)
PollSet ==
  /\ ~saving /\ pending # None /\ pending.cmd = "set"
  /\ card' = [name |-> pending.name, visible |-> pending.visible]
  /\ flash' = Blank /\ saving' = TRUE
  /\ UNCHANGED <<app, ready, down, up, pending, air, excused, budget>>

(* The write, and the answer with the card.                                 *)
RecordWritten ==
  /\ saving
  /\ flash' = card /\ saving' = FALSE /\ pending' = None
  /\ Answer
  /\ UNCHANGED <<app, ready, down, card, air, excused, budget>>

(* app_adv_scheduler_poll builds the beacon again, at the latest after      *)
(* half a second.                                                           *)
BuildBeacon ==
  /\ ~saving
  /\ air' = card
  /\ UNCHANGED <<app, ready, down, up, pending, saving, card, flash, excused, budget>>

(* A loss of power.  The phone finds the link gone; what it does until then *)
(* reaches nobody.                                                          *)
PowerLoss ==
  /\ Spend("fault")
  /\ Unready
  /\ pending' = None /\ saving' = FALSE
  /\ card' = Load(flash) /\ air' = Load(flash)
  /\ UNCHANGED <<wish, edit, due, flash, excused>>

(* A command that a refused write takes with it; an answer that finds no    *)
(* room.  A later answer makes up for one that is lost.                     *)
CommandLost ==
  /\ down # <<>> /\ Spend("fault")
  /\ down' = Tail(down)
  /\ excused' = (excused \/ Head(down).cmd # "chat")
  /\ UNCHANGED <<app, ready, up, pendant>>

AnswerLost ==
  /\ up # <<>> /\ Spend("fault")
  /\ up' = Tail(up)
  /\ excused' = (excused \/ Len(up) = 1)
  /\ UNCHANGED <<app, ready, down, pendant>>

Next ==
  \/ SetStealthMode \/ RenderCardPage \/ TypeName \/ SaveProfileCard \/ SendChat
  \/ RequestFullSync \/ RequestProfileSummary \/ ChannelReady \/ LinkLost
  \/ AppRestarts \/ OnProfileSummary \/ HandleCommand \/ PollChat \/ PollSet
  \/ RecordWritten \/ BuildBeacon \/ PowerLoss \/ CommandLost \/ AnswerLost

(* Posted Runnables run, answers are handled, the main loop goes round.     *)
Fairness ==
  /\ WF_vars(RequestProfileSummary) /\ WF_vars(OnProfileSummary)
  /\ WF_vars(HandleCommand) /\ WF_vars(PollChat) /\ WF_vars(PollSet)
  /\ WF_vars(RecordWritten) /\ WF_vars(BuildBeacon)

Spec     == Init /\ [][Next]_vars
LiveSpec == Spec /\ Fairness

-----------------------------------------------------------------------------
TypeOK ==
  /\ {wish, ready, saving, excused} \subseteq BOOLEAN
  /\ profile \in Card \cup {None} /\ edit \in Text \cup {None}
  /\ due \in Nat
  /\ \A i \in DOMAIN down : down[i].cmd \in {"get", "set", "chat"}
  /\ up \in Seq(Card)
  /\ pending = None \/ pending.cmd \in {"set", "chat"}
  /\ card \in Card /\ air \in Card /\ flash \in Card \cup {Blank}
  /\ budget \in [Kinds -> Nat]

(* Outside the few milliseconds of a save, a restart gives back the card    *)
(* that is in use: no change is shown that a loss of power takes away       *)
(* (app_profile_set_summary, app_profile_load).                             *)
RecordIsCard == ~saving => Load(flash) = card

(* What the app shows as its own card is the pendant's card, once its       *)
(* answers are handled and unless one was lost - across links, resets of    *)
(* the pendant, commands put off on an earlier link (myProfile).            *)
BeliefIsCard ==
  ready /\ profile # None /\ up = <<>> /\ ~excused
    /\ (pending = None \/ pending.cmd = "chat")
  => profile = card

(* Stealth mode reaches the neighbours: whenever the user changes it,       *)
(* linked or not, twice in a row or over a loss of power, the advertised    *)
(* card follows in the end, unless a command was refused or lost since the  *)
(* app last read the card (setStealthMode, onHostMessage).                  *)
StealthSettles == <>[](ready /\ ~excused => air.visible # wish)

(* The same without the exception, as the privacy document has it, line 8.  *)
(* The answer BUSY to a change of the card is ignored: the app shows        *)
(* stealth mode, the pendant shows the card, until the next full sync.      *)
StealthReachesPendant == <>[](ready => air.visible # wish)

(* Stealth mode is synchronised by the visible flag (the same line): the    *)
(* nickname on the pendant stays.  The command carries the whole card, with *)
(* a placeholder or the text of an edit field for a nickname never read.    *)
SyncKeepsName ==
  [][PollSet /\ pending.why = "sync" => card'.name = card.name]_vars

=============================================================================
