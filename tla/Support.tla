------------------------------ MODULE Support -------------------------------
(***************************************************************************)
(* The support desk of one customer (support/views.py and services.py).    *)
(* Visits and new conversations look for the open conversation and create  *)
(* one if there is none, in commits of their own; a question is put to an  *)
(* AI provider, which may be slow, fail or break, and is recorded with its *)
(* answer only afterwards, in two more commits, in the conversation of the *)
(* page, closed or not.                                                    *)
(***************************************************************************)
EXTENDS Integers, Sequences, FiniteSets, SequencesExt

CONSTANTS
    Workers,
    MaxAttempts,     \* AI_PROVIDER_MAX_RETRIES + 1
    MaxQuestions,    \* bound: questions and escalations
    MaxVisits        \* bound: visits of the page and new conversations

ASSUME SupportAssumption ==
    MaxAttempts \in Nat \ {0} /\ MaxQuestions \in Nat /\ MaxVisits \in Nat

VARIABLES
    convo,       \* conversations in the order of creation
    recent,      \* their numbers, the last updated first
    chat,        \* the request each worker serves
    asked, visits,
    tangled      \* history: conversations with two questions at once, or one
                 \* whose worker died; 0 for overlapping visits

supportVars == <<convo, recent, chat, asked, visits, tangled>>

-----------------------------------------------------------------------------
Idle == [op |-> "idle"]
Resting(w) == chat[w] = Idle

NewConvo == [open |-> TRUE, linked |-> FALSE, said |-> <<>>]
Message(role, q) == [role |-> role, q |-> q]

SupportTypeOK ==
    /\ \A c \in DOMAIN convo :
         /\ convo[c].open \in BOOLEAN /\ convo[c].linked \in BOOLEAN
         /\ convo[c].said \in Seq([role: {"user", "assistant", "system"}, q: 0 .. MaxQuestions])
    /\ ToSet(recent) = DOMAIN convo /\ Len(recent) = Len(convo)
    /\ \A w \in Workers : chat[w].op \in {"idle", "visit", "send", "escalate"}
    /\ asked \in 0 .. MaxQuestions /\ visits \in 0 .. MaxVisits
    /\ tangled \subseteq DOMAIN convo \cup {0}

SupportInit ==
    /\ convo = <<>>
    /\ recent = <<>>
    /\ chat = [w \in Workers |-> Idle]
    /\ asked = 0
    /\ visits = 0
    /\ tangled = {}

\* conversation.save puts it first.
Touched(c) == <<c>> \o Remove(recent, c)

Say(c, role, q) == [convo EXCEPT ![c].said = Append(@, Message(role, q))]

End(w) == chat' = [chat EXCEPT ![w] = Idle]
Goes(w, at) == chat' = [chat EXCEPT ![w].at = at]

-----------------------------------------------------------------------------
(* get_or_create_active_conversation and start_new_conversation *)

\* SupportHomeView greets an empty conversation, SupportStartView opens a new one.
Visit(w, goal) ==
    /\ Resting(w)
    /\ visits < MaxVisits
    /\ visits' = visits + 1
    /\ chat' = [chat EXCEPT ![w] = [op |-> "visit", goal |-> goal, c |-> 0, at |-> "look"]]
    /\ tangled' = IF \E v \in Workers : chat[v].op = "visit" THEN tangled \cup {0} ELSE tangled
    /\ UNCHANGED <<convo, recent, asked>>

\* first() of the open ones, ordered by updated_at.
IsLatest(c) ==
    \E i \in DOMAIN recent : /\ recent[i] = c /\ convo[c].open
                             /\ \A j \in 1 .. i - 1 : ~convo[recent[j]].open

Found(w, c) ==
    chat' = [chat EXCEPT ![w].c = c, ![w].at = IF @ = "look" THEN "check" ELSE "greet"]

\* The open conversation that was updated last...
Look(w) ==
    /\ chat[w].op = "visit" /\ chat[w].at \in {"look", "again"}
    /\ \E c \in DOMAIN convo : IsLatest(c) /\ Found(w, c)
    /\ UNCHANGED <<convo, recent, asked, visits, tangled>>

LookInVain(w) ==
    /\ chat[w].op = "visit" /\ chat[w].at \in {"look", "again"}
    /\ \A c \in DOMAIN convo : ~convo[c].open
    /\ chat' = [chat EXCEPT ![w].at = IF @ = "look" THEN "create" ELSE "recreate"]
    /\ UNCHANGED <<convo, recent, asked, visits, tangled>>

\* ...or a new one.
Create(w) ==
    LET c == Len(convo) + 1
    IN  /\ chat[w].op = "visit" /\ chat[w].at \in {"create", "recreate"}
        /\ convo' = Append(convo, NewConvo)
        /\ recent' = <<c>> \o recent
        /\ chat' = [chat EXCEPT ![w].c = c, ![w].at = IF @ = "create" THEN "check" ELSE "greet"]
        /\ UNCHANGED <<asked, visits, tangled>>

\* conversation.messages.exists(): home looks, then starts as the button does.
Check(w) ==
    LET c == chat[w].c
        empty == convo[c].said = <<>>
        home == chat[w].goal = "home"
    IN  /\ chat[w].op = "visit" /\ chat[w].at = "check"
        /\ CASE empty /\ ~home -> Goes(w, "greet") /\ UNCHANGED <<convo, recent>>
             [] empty /\ home -> /\ chat' = [chat EXCEPT ![w].goal = "new", ![w].at = "look"]
                                 /\ UNCHANGED <<convo, recent>>
             [] ~empty /\ home -> End(w) /\ UNCHANGED <<convo, recent>>
             [] OTHER -> /\ convo' = [convo EXCEPT ![c].open = FALSE]
                         /\ recent' = Touched(c)
                         /\ Goes(w, "again")
        /\ UNCHANGED <<asked, visits, tangled>>

Greet(w) ==
    /\ chat[w].op = "visit" /\ chat[w].at = "greet"
    /\ convo' = Say(chat[w].c, "assistant", 0)
    /\ End(w)
    /\ UNCHANGED <<recent, asked, visits, tangled>>

-----------------------------------------------------------------------------
(* process_support_message *)

\* Requests in a conversation at once.
Meets(w, c) == \E v \in Workers \ {w} : chat[v].op \in {"send", "escalate"} /\ chat[v].c = c

\* The page names the conversation.  A message with the code of an order the
\* customer may see links it before the provider is asked; a message out of
\* scope, or a shop without a key, has its answer at once.
Send(w, c, names, scoped) ==
    /\ Resting(w)
    /\ asked < MaxQuestions
    /\ asked' = asked + 1
    /\ c \in DOMAIN convo
    /\ convo' = [convo EXCEPT ![c].linked = @ \/ names]
    /\ recent' = IF names THEN Touched(c) ELSE recent
    /\ chat' = [chat EXCEPT ![w] = [op |-> "send", c |-> c, q |-> asked', row |-> convo'[c],
                                    attempts |-> IF scoped THEN MaxAttempts ELSE 0,
                                    at |-> IF scoped THEN "ask" ELSE "question"]]
    /\ tangled' = IF Meets(w, c) THEN tangled \cup {c} ELSE tangled
    /\ UNCHANGED visits

ProviderAnswers(w) ==
    /\ chat[w].op = "send" /\ chat[w].at = "ask"
    /\ Goes(w, "question")
    /\ UNCHANGED <<convo, recent, asked, visits, tangled>>

\* An error or no answer in time: once more, or the words of the house.
ProviderFails(w) ==
    /\ chat[w].op = "send" /\ chat[w].at = "ask"
    /\ chat' = [chat EXCEPT ![w].attempts = @ - 1,
                              ![w].at = IF chat[w].attempts = 1 THEN "question" ELSE @]
    /\ UNCHANGED <<convo, recent, asked, visits, tangled>>

\* The connection breaks while the answer is read: nothing catches it.
ProviderBreaks(w) ==
    /\ chat[w].op = "send" /\ chat[w].at = "ask"
    /\ End(w)
    /\ UNCHANGED <<convo, recent, asked, visits, tangled>>

RecordQuestion(w) ==
    /\ chat[w].op = "send" /\ chat[w].at = "question"
    /\ convo' = Say(chat[w].c, "user", chat[w].q)
    /\ Goes(w, "answer")
    /\ UNCHANGED <<recent, asked, visits, tangled>>

\* Mutant: the provider gave up and nothing took its place.
Replied_OnlyByProvider(w) == IF chat[w].attempts > 0 THEN Say(chat[w].c, "assistant", chat[w].q) ELSE convo

Replied(w) == Say(chat[w].c, "assistant", chat[w].q)

RecordAnswer(w) ==
    /\ chat[w].op = "send" /\ chat[w].at = "answer"
    /\ convo' = Replied(w)
    /\ Goes(w, "save")
    /\ UNCHANGED <<recent, asked, visits, tangled>>

\* Mutant: the whole row is saved.
Saved_Whole(c, row) == [convo[c] EXCEPT !.open = row.open, !.linked = row.linked]

\* update_fields: the intent, and the store of the order as it was read.
Saved(c, row) == [convo[c] EXCEPT !.linked = row.linked]

SaveIntent(w) ==
    /\ chat[w].op = "send" /\ chat[w].at = "save"
    /\ convo' = [convo EXCEPT ![chat[w].c] = Saved(chat[w].c, chat[w].row)]
    /\ recent' = Touched(chat[w].c)
    /\ End(w)
    /\ UNCHANGED <<asked, visits, tangled>>

\* create_escalation: a row of its own, and a line in the conversation.
Escalate(w, c) ==
    /\ Resting(w)
    /\ asked < MaxQuestions
    /\ asked' = asked + 1
    /\ c \in DOMAIN convo
    /\ chat' = [chat EXCEPT ![w] = [op |-> "escalate", c |-> c]]
    /\ tangled' = IF Meets(w, c) THEN tangled \cup {c} ELSE tangled
    /\ UNCHANGED <<convo, recent, visits>>

NoteEscalation(w) ==
    /\ chat[w].op = "escalate"
    /\ convo' = Say(chat[w].c, "system", 0)
    /\ End(w)
    /\ UNCHANGED <<recent, asked, visits, tangled>>

\* The worker dies.
DropChat(w) ==
    /\ ~Resting(w)
    /\ tangled' = IF chat[w].op = "send" THEN tangled \cup {chat[w].c} ELSE tangled
    /\ End(w)
    /\ UNCHANGED <<convo, recent, asked, visits>>

-----------------------------------------------------------------------------
AskSupport(w) ==
    \/ \E goal \in {"home", "new"} : Visit(w, goal)
    \/ \E c \in DOMAIN convo, names, scoped \in BOOLEAN : Send(w, c, names, scoped)
    \/ \E c \in DOMAIN convo : Escalate(w, c)

ServeSupport(w) ==
    \/ Look(w) \/ LookInVain(w) \/ Create(w) \/ Check(w) \/ Greet(w)
    \/ ProviderAnswers(w) \/ ProviderFails(w) \/ ProviderBreaks(w)
    \/ RecordQuestion(w) \/ RecordAnswer(w) \/ SaveIntent(w) \/ NoteEscalation(w)

-----------------------------------------------------------------------------
(* Properties *)

\* Message j is the answer to question i, with nothing between but greetings and
\* notes of escalations.
Answers(said, i, j) ==
    j > i /\ said[j] = Message("assistant", said[i].q) /\ \A k \in i + 1 .. j - 1 : said[k].q = 0

IsLast(said, i) == \A k \in i + 1 .. Len(said) : said[k].q = 0

\* In a conversation that asks one thing at a time, whatever becomes of the
\* provider and of other tabs, each question is followed by its own answer,
\* unless it is being answered.
AnswersFollow ==
    \A c \in DOMAIN convo \ tangled :
        LET said == convo[c].said
        IN  \A i \in DOMAIN said : said[i].role = "user" =>
              \/ \E j \in DOMAIN said : Answers(said, i, j)
              \/ IsLast(said, i) /\ \E w \in Workers : chat[w].op = "send" /\ chat[w].q = said[i].q

\* One conversation is open at most, unless two visits were made at once: an
\* answer that comes late from the provider, to a conversation closed in another
\* tab, does not open it again.
OneConversation ==
    0 \notin tangled => Cardinality({c \in DOMAIN convo : convo[c].open}) =< 1
=============================================================================
