------------------------------ MODULE MessageRouter ------------------------------
(***************************************************************************)
(* To which agents of a session a message is addressed (MessageRouter), as *)
(* enqueueUserMessageAsImpl asks it of each message.                       *)
(*                                                                         *)
(* A text is the sequence of its words, each with or without an @ before   *)
(* it; names are words in a row as well, so that a name of two words can be *)
(* told from a mention, which is one.  How words compare is Normal.        *)
(***************************************************************************)
EXTENDS Naturals, Sequences, SequencesExt

CONSTANTS
    Agents,     \* ids of agents, words themselves
    User,       \* the id of the user
    Normal(_),  \* a word without case (normalizeMentionToken)
    Broadcast,  \* the normal words for everyone (isBroadcastToken)
    Names,      \* names of agents, sequences of words
    Texts,      \* texts, sequences of words [at, word]
    Nobody,     \* a name for no id
    MaxChanges  \* bound: renames

VARIABLES
    type,       \* "private" or "group"
    invited,    \* participantIds of the session
    name,       \* agent the identity manager knows -> its name
    changes,    \* how often an agent was renamed
    message     \* the last message and how it was routed, or NoMessage

vars == <<type, invited, name, changes, message>>

-----------------------------------------------------------------------------
NoMessage == [tokens |-> <<>>, targets |-> <<>>, unresolved |-> <<>>,
              broadcast |-> FALSE, default |-> FALSE, runs |-> Nobody]

TypeOK ==
    /\ type \in {"private", "group"}
    /\ invited \in Seq(Agents \cup {User})
    /\ \A a \in DOMAIN name : a \in Agents /\ name[a] \in Names
    /\ ToSet(message.targets) \subseteq Agents
    /\ message.runs \in Agents \cup {Nobody}

Init ==
    /\ type \in {"private", "group"}
    /\ invited \in {<<User>> \o s : s \in SetToAllKPermutations(Agents)}
    /\ \E known \in SUBSET Agents : name \in [known -> Names]
    /\ changes = 0
    /\ message = NoMessage

\* dedupePreserveOrder: each value once, where it is first.
Deduped(s) == FoldLeft(LAMBDA r, x : IF x \in ToSet(r) THEN r ELSE Append(r, x), <<>>, s)

\* parseMentions: the words behind an @.
Mentions(text) ==
    LET at == SelectSeq(text, LAMBDA w : w.at) IN
    Deduped([i \in DOMAIN at |-> Normal(at[i].word)])

\* The participants that are agents the identity manager knows: a stored session may
\* name one that another process has deleted.
Participants == SelectSeq(invited, LAMBDA p : p \in DOMAIN name)

FirstOf(S) == Participants[CHOOSE i \in DOMAIN Participants :
                  /\ Participants[i] \in S
                  /\ \A j \in 1 .. i - 1 : Participants[j] \notin S]

\* normalizedNameToId: agents by their names, the first of those that share one.
Named(t) == {a \in ToSet(Participants) : Len(name[a]) = 1 /\ Normal(name[a][1]) = t}
WithId(t) == {a \in ToSet(Participants) : Normal(a) = t}

\* resolveMentionTarget: an id before a name.
Target(t) ==
    CASE WithId(t) # {} -> FirstOf(WithId(t))
      [] Named(t) # {}  -> FirstOf(Named(t))
      [] OTHER          -> Nobody

RouteAll(r) == [r EXCEPT !.targets = Participants, !.broadcast = TRUE]

\* One turn of the loop over the tokens, which a broadcast ends.
Meet(r, t) ==
    CASE r.broadcast                     -> r
      [] t \in Broadcast                 -> [RouteAll(r) EXCEPT !.unresolved = <<>>]
      [] Target(t) = Nobody              -> [r EXCEPT !.unresolved = Append(@, t)]
      [] Target(t) \in ToSet(r.targets)  -> r
      [] OTHER                           -> [r EXCEPT !.targets = Append(@, Target(t))]

Route(sender, text) ==
    LET tokens == Mentions(text)
        met    == FoldLeft(Meet, [NoMessage EXCEPT !.tokens = tokens], tokens)
        byDefault == type = "private" \/ (tokens = <<>> /\ sender = User)
    IN CASE Participants = <<>>                 -> NoMessage
         [] met.broadcast \/ met.targets # <<>> -> met
         [] byDefault                           -> [RouteAll(met) EXCEPT !.default = TRUE]
         [] OTHER                               -> met

\* agentIdentityIdForSession: who answers, whoever is addressed.
Answers == IF Participants = <<>> THEN Nobody ELSE Participants[1]

-----------------------------------------------------------------------------
\* enqueueUserMessageAsImpl; canIdentitySendMessage refuses everybody but the user.
EnqueueMessage(text) ==
    /\ message' = [Route(User, text) EXCEPT !.runs = Answers]
    /\ UNCHANGED <<type, invited, name, changes>>

\* renameSessionAndRuntime: the name of a session is that of the agent that answers.
RenameAgent(n) ==
    /\ changes < MaxChanges
    /\ Answers # Nobody /\ name[Answers] # n
    /\ changes' = changes + 1
    /\ name' = [name EXCEPT ![Answers] = n]
    /\ message' = NoMessage
    /\ UNCHANGED <<type, invited>>

Next ==
    \/ \E text \in Texts : EnqueueMessage(text)
    \/ \E n \in Names : RenameAgent(n)

Spec == Init /\ [][Next]_vars

-----------------------------------------------------------------------------
(* Properties.                                                             *)

Tokens == ToSet(message.tokens)

\* A mention names an agent by its id, or by its name if it is nobody's id.
NamedBy(t, a) ==
    \/ Normal(a) = t
    \/ /\ Len(name[a]) = 1 /\ Normal(name[a][1]) = t
       /\ \A b \in ToSet(Participants) : Normal(b) # t

\* Whoever is addressed was mentioned, or everybody is: by a word for all, by a
\* message without mentions, or in a private session.  The route keeps who said what
\* from the order of the mentions and of the participants.
AddressedWhoIsMeant ==
    LET all == Tokens \cap Broadcast # {}
        meant == {a \in ToSet(Participants) : \E t \in Tokens : NamedBy(t, a)}
    IN message # NoMessage =>
         /\ message.broadcast => ToSet(message.targets) = ToSet(Participants)
         /\ message.broadcast <=> all \/ message.default
         /\ all => message.unresolved = <<>>
         /\ message.default => Tokens = {} \/ (type = "private" /\ meant = {})
         /\ ~message.broadcast => ToSet(message.targets) \subseteq meant
         /\ Len(message.targets) = Cardinality(ToSet(message.targets))

\* A mention is reported as unresolved if and only if it addresses nobody, and every
\* one that meets an agent addresses one.
MentionsAccounted ==
    message # NoMessage /\ Tokens \cap Broadcast = {} =>
        \A t \in Tokens :
            IF \E a \in ToSet(Participants) : NamedBy(t, a)
            THEN t \notin ToSet(message.unresolved)
                 /\ \E a \in ToSet(message.targets) : NamedBy(t, a)
            ELSE t \in ToSet(message.unresolved)

\* A message of the user to a group that mentions nobody is for everybody (design
\* document 3.8): none is addressed to no one.
SilentMeansAll ==
    message.tokens = <<>> /\ message # NoMessage =>
        ToSet(message.targets) = ToSet(Participants)

-----------------------------------------------------------------------------
(* What the design says of routes, and the code does not do.               *)

\* "@ one agent activates that agent only" (6.2 of the design): the agent that answers
\* is one of those the message is for.
MentionedAnswers == message.targets # <<>> => message.runs \in ToSet(message.targets)

\* Each agent can be addressed by its name.
NameReaches ==
    \A a \in ToSet(Participants) :
        Len(name[a]) = 1 /\ Tokens = {Normal(name[a][1])} => a \in ToSet(message.targets)
=============================================================================
