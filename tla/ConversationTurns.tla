------------------------- MODULE ConversationTurns --------------------------
(***************************************************************************)
(* What a person sees of the messages and Runs of MessageTimeline: the     *)
(* lists as the API gives them, page by page, and project_conversation_    *)
(* turns of conversation-turns.ts, which joins them to a conversation.     *)
(***************************************************************************)
EXTENDS MessageTimeline

\* equal questions about different services asked this close form one turn; two times taken
\* one after the other are close, others are not
Near == 2

-----------------------------------------------------------------------------
(* The lists *)

\* the first messages, oldest first, without the deleted ones
ListedMessages(count) ==
    LET kept == SelectSeq(timeline, LAMBDA m : ~m.archived)
    IN SubSeq(kept, 1, IF count < Len(kept) THEN count ELSE Len(kept))

Asked == {r \in Runs : run[r].pc # "absent"}
CreatedAt(r) == timeline[AskedAt(r)].at

\* the first Runs, newest first; rows of the same microsecond are in the order of their
\* random ids, here that of their questions
ListedRuns(count) ==
    LET newest == SortSeq(SetToSeq(Asked), LAMBDA r, s : AskedAt(r) > AskedAt(s))
    IN SubSeq(newest, 1, IF count < Len(newest) THEN count ELSE Len(newest))

-----------------------------------------------------------------------------
(* The projection *)

\* a message is known by its sender and its role
IsQuestionOf(m, r) == m.role = "user" /\ m.by = r

TurnOf(asked, question, cards, reply) ==
    [kind |-> "turn", asked |-> asked, question |-> question, cards |-> cards, reply |-> reply]
NoMessage == [by |-> "none", role |-> "user", at |-> 0, text |-> "none", archived |-> FALSE]
Card(messages, r) ==
    LET outputs == SelectSeq(messages, LAMBDA m : m.role = "assistant" /\ m.by = r)
    IN [run |-> r, output |-> IF outputs = <<>> THEN NoMessage ELSE Head(outputs)]

\* Mutant: a question takes the answer of a Run for its reply.
PlainRepliesAny(messages) == SelectSeq(messages, LAMBDA m : m.role = "assistant")
\* assistant messages of no Run
PlainReplies(messages) == SelectSeq(messages, LAMBDA m : m.role = "assistant" /\ m.by \in Posts)

\* A question with its Run, or with the next reply that is left.
TurnsOfMessages(messages, runs) ==
    LET questions == SelectSeq(messages, LAMBDA m : m.role = "user")
        replies == PlainReplies(messages)
        listed == {r \in Asked : \E i \in DOMAIN runs : runs[i] = r}
        plain(i) == {j \in 1 .. i : questions[j].by \notin listed}
        turn(i) ==
          LET q == questions[i]
          IN IF q.by \in listed THEN TurnOf(TRUE, q, <<Card(messages, q.by)>>, NoMessage)
             ELSE TurnOf(TRUE, q, <<>>, IF Cardinality(plain(i)) \in DOMAIN replies
                                    THEN replies[Cardinality(plain(i))] ELSE NoMessage)
        left == IF Cardinality(plain(Len(questions))) < Len(replies)
                  THEN SubSeq(replies, Cardinality(plain(Len(questions))) + 1, Len(replies))
                  ELSE <<>>
    IN [i \in DOMAIN questions |-> turn(i)]
         \o [i \in DOMAIN left |-> TurnOf(TRUE, NoMessage, <<>>, left[i])]

ItemAt(item) ==
    IF item.question # NoMessage THEN item.question.at
    ELSE IF item.cards # <<>> THEN CreatedAt(item.cards[1].run) ELSE item.reply.at

\* Mutant: a Run without its question goes to the end.
WithOrphanLast(items, orphan) == Append(items, orphan)
\* A Run whose question is not listed goes where its time is.
WithOrphan(items, orphan) ==
    LET later == {i \in DOMAIN items : ItemAt(items[i]) > ItemAt(orphan)}
    IN IF later = {} THEN Append(items, orphan) ELSE InsertAt(items, Min(later), orphan)

\* Mutant: questions are joined by their text alone.
JoinsByText(previous, item, service) ==
    /\ previous.kind = "turn" /\ previous.cards # <<>> /\ item.cards # <<>>
    /\ previous.question.text = item.question.text
\* Adjacent equal questions about different services form one turn.
Joins(previous, item, service) ==
    /\ previous.question # NoMessage /\ item.question # NoMessage
    /\ previous.question.text = item.question.text
    /\ item.question.at - previous.question.at <= Near
    /\ previous.question.at - item.question.at <= Near
    /\ item.cards # <<>> /\ service[item.cards[1].run] # "none"
    /\ \A i \in DOMAIN previous.cards :
         service[previous.cards[i].run] # service[item.cards[1].run]

Grouped(items, service) ==
    LET join(done, item) ==
          IF done # <<>> /\ Joins(Last(done), item, service)
            THEN [done EXCEPT ![Len(done)].cards = @ \o item.cards]
            ELSE Append(done, item)
    IN FoldLeft(join, <<>>, items)

Projection(messages, runs, service) ==
    LET orphans == SelectSeq(runs, LAMBDA r :
                     \A i \in DOMAIN messages : ~IsQuestionOf(messages[i], r))
        place(items, r) == WithOrphan(items, TurnOf(FALSE, NoMessage, <<Card(messages, r)>>, NoMessage))
    IN Grouped(FoldLeft(place, TurnsOfMessages(messages, runs), orphans), service)

-----------------------------------------------------------------------------
(* What is shown *)

Cards(items) == UNION {{<<i, j>> : j \in DOMAIN items[i].cards} : i \in DOMAIN items}

ShowsEachRunOnce(items, messages, runs) ==
    \A i \in DOMAIN runs :
        \E p \in Cards(items) :
            LET card == items[p[1]].cards[p[2]]
                question == items[p[1]].question
            IN /\ card.run = runs[i]
               /\ \A q \in Cards(items) : items[q[1]].cards[q[2]].run = runs[i] => q = p
               /\ card.output # NoMessage => card.output.by = runs[i]
               /\ IF question = NoMessage
                    THEN \A j \in DOMAIN messages : ~IsQuestionOf(messages[j], runs[i])
                    ELSE question.text = TextOf(runs[i])

RepliesAreTheirOwn(items) ==
    \A i \in DOMAIN items :
        items[i].reply # NoMessage => items[i].question.by = items[i].reply.by

InTimeOrder(items) ==
    \A i, j \in DOMAIN items : i < j => ItemAt(items[i]) <= ItemAt(items[j])

OneServicePerCard(items, service) ==
    \A i \in DOMAIN items : \A j, k \in DOMAIN items[i].cards :
        j # k => service[items[i].cards[j].run] # service[items[i].cards[k].run]

(* Whatever was sent, answered, edited and deleted, and however much of    *)
(* the two lists is loaded: every listed Run is shown once, with its own   *)
(* answer, under the question it was asked or under none; the turns are in *)
(* the order of time, and Runs of one service are never joined.  With all  *)
(* Runs loaded a plain reply stands under its own question; with a Run not *)
(* loaded its question takes the reply of a later one.                     *)
TurnsAreHonest ==
    LET all == Len(timeline)
        services == {[r \in Runs |-> r], [r \in Runs |-> "shared"]}
        shown(m, n, service) ==
          LET messages == ListedMessages(m)
              runs == ListedRuns(n)
              items == Projection(messages, runs, service)
          IN /\ ShowsEachRunOnce(items, messages, runs)
             /\ InTimeOrder(items)
             /\ OneServicePerCard(items, service)
             /\ n >= Cardinality(Asked) => RepliesAreTheirOwn(items)
    IN \A service \in services :
         /\ \A m \in 0 .. all : shown(m, all, service)
         /\ \A n \in 0 .. Cardinality(Asked) : shown(all, n, service)
=============================================================================
