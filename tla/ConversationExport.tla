------------------------ MODULE ConversationExport ------------------------
(***************************************************************************)
(* A user exports his conversations while he goes on working.  The client  *)
(* asks for one page after the other; the server selects a page, counts    *)
(* conversations and messages and reads the messages of the page, in one   *)
(* READ COMMITTED transaction: every statement sees its own moment.  The   *)
(* page holds the whole conversations that fit into the cap.               *)
(***************************************************************************)
EXTENDS Naturals, FiniteSets

CONSTANTS PageSize,    \* EXPORT_PAGE_SIZE, 500
          MaxPages,    \* EXPORT_MAX_PAGES, 100
          Cap,         \* max_export_items: conversations and messages, 50000
          MaxConversations, MaxMessages    \* bounds: of all, of one

VARIABLES live,      \* the conversations that are there, numbered as created
          created,   \* how many were ever created
          messages,  \* how many messages a conversation has
          request,   \* what the server has read for the page it answers
          client,    \* where the loop of the client is
          bundle,    \* what was fetched: how many messages of a conversation
          begun,     \* history: messages of the conversations at the start
          deletions  \* history: conversations deleted since the start

vars == <<live, created, messages, request, client, bundle, begun, deletions>>
store == <<live, created, messages, deletions>>

Ids == 1..MaxConversations

\* Nothing is known of a conversation.
Unknown == MaxMessages + 1
Nothing == [c \in Ids |-> Unknown]

NoRequest == [at |-> "none", page |-> {}, conversations |-> 0, messages |-> 0]

Init ==
    /\ created \in 0..MaxConversations /\ live = 1..created
    /\ messages \in [Ids -> 0..MaxMessages]
    /\ \A c \in Ids : c > created => messages[c] = 0
    /\ request = NoRequest
    /\ client = [at |-> "idle", offset |-> 0, fetched |-> 0, pages |-> 0, truncated |-> FALSE]
    /\ bundle = Nothing /\ begun = Nothing
    /\ deletions = 0

\* The messages of some conversations, each a row.
Said(C) == {row \in C \X (1..MaxMessages) : row[2] <= messages[row[1]]}

\* Newest first: those behind `offset` newer ones, at most a page of them.
PageAt(offset) ==
    {c \in live : LET newer == Cardinality({d \in live : d > c})
                  IN offset <= newer /\ newer < offset + PageSize}

-----------------------------------------------------------------------------
(*                   The user, while the export is running                 *)

CreateConversation ==
    /\ client.at = "loop" /\ created < MaxConversations
    /\ created' = created + 1
    /\ live' = live \cup {created + 1}
    /\ UNCHANGED <<messages, request, client, bundle, begun, deletions>>

AppendMessage ==
    /\ client.at = "loop"
    /\ \E c \in live :
        /\ messages[c] < MaxMessages
        /\ messages' = [messages EXCEPT ![c] = @ + 1]
    /\ UNCHANGED <<live, created, request, client, bundle, begun, deletions>>

DeleteConversation ==
    /\ client.at = "loop"
    /\ \E c \in live :
        /\ live' = live \ {c}
        /\ messages' = [messages EXCEPT ![c] = 0]
    /\ deletions' = deletions + 1
    /\ UNCHANGED <<created, request, client, bundle, begun>>

-----------------------------------------------------------------------------
(*                                The server                               *)

SelectPage ==
    /\ request.at = "select"
    /\ request' = [request EXCEPT !.at = "count", !.page = PageAt(client.offset)]
    /\ UNCHANGED <<store, client, bundle, begun>>

CountConversations ==
    /\ request.at = "count"
    /\ request' = [request EXCEPT !.at = "sum", !.conversations = Cardinality(live)]
    /\ UNCHANGED <<store, client, bundle, begun>>

CountMessages ==
    /\ request.at = "sum"
    /\ request' = [request EXCEPT !.at = "read", !.messages = Cardinality(Said(live))]
    /\ UNCHANGED <<store, client, bundle, begun>>

\* export_mine of the service: the longest head of the page that fits.
Packed == {c \in request.page : LET head == {d \in request.page : d >= c}
                                 IN Cardinality(head) + Cardinality(Said(head)) <= Cap}

Truncated == Packed # request.page \/ request.conversations + request.messages > Cap

\* The messages are read, the answer is packed and the client goes on or stops.
Answer ==
    /\ request.at = "read"
    /\ LET fetched == client.fetched + Cardinality(Packed)
           whole == fetched >= request.conversations \/ Packed = {}
       IN  /\ client' = [at |-> IF Truncated \/ whole \/ client.pages + 1 = MaxPages
                                THEN "done" ELSE "loop",
                         offset |-> client.offset + PageSize, fetched |-> fetched,
                         pages |-> client.pages + 1, truncated |-> Truncated]
           /\ request' = [NoRequest EXCEPT !.at = IF client'.at = "done" THEN "none" ELSE "select"]
    /\ bundle' = [c \in Ids |-> IF c \in Packed THEN messages[c] ELSE bundle[c]]
    /\ UNCHANGED <<store, begun>>

-----------------------------------------------------------------------------
(*                                The client                               *)

\* exportMyConversations
Export ==
    /\ client.at = "idle"
    /\ client' = [client EXCEPT !.at = "loop"]
    /\ request' = [request EXCEPT !.at = "select"]
    /\ begun' = [c \in Ids |-> IF c \in live THEN messages[c] ELSE Unknown]
    /\ UNCHANGED <<store, bundle>>

Next == \/ CreateConversation \/ AppendMessage \/ DeleteConversation
        \/ Export \/ SelectPage \/ CountConversations \/ CountMessages \/ Answer

Spec == Init /\ [][Next]_vars

-----------------------------------------------------------------------------
(*                                Properties                               *)

\* Every variable has its type.
TypeOK ==
    /\ created \in 0..MaxConversations /\ live \subseteq 1..created
    /\ messages \in [Ids -> 0..MaxMessages] /\ deletions \in 0..MaxConversations
    /\ bundle \in [Ids -> 0..Unknown] /\ begun \in [Ids -> 0..Unknown]
    /\ request.at \in {"none", "select", "count", "sum", "read"}
    /\ request.page \subseteq Ids /\ request.conversations \in 0..MaxConversations
    /\ client.at \in {"idle", "loop", "done"} /\ client.pages \in 0..MaxPages

\* What was there all the time but is missing from the export.
Missing == {c \in live : begun[c] # Unknown /\ bundle[c] = Unknown}

\* An export that does not say it is truncated has every conversation that was
\* there from its start to its end, whatever is created or said meanwhile; each
\* deletion between two pages may hide one, by shifting the others up.
ExportIsWhole ==
    client.at = "done" /\ ~client.truncated => Cardinality(Missing) <= deletions

\* A conversation is exported with the messages it had when the export began.
ExportHasMessages ==
    \A c \in live : begun[c] # Unknown /\ bundle[c] # Unknown => bundle[c] >= begun[c]
=============================================================================
