---- MODULE RagIndex ----
(***************************************************************************)
(* The RAG service's corpus (rag-service/app): the ChromaDB collection and *)
(* the BM25 index kept beside it, by startup, upserts and bulk seeds, and  *)
(* what a retrieval makes of them.                                         *)
(*                                                                         *)
(* The endpoints that write change both stores without an await, so each   *)
(* is one step for the event loop.  A retrieval searches both without one, *)
(* then awaits the language model: its search and its answer are two       *)
(* steps.  What ChromaDB did of a call whose answer was an error or never  *)
(* came is left open.  /health runs in a thread of the pool; it is one     *)
(* step too, between two of the event loop's and not in the middle of one. *)
(***************************************************************************)
EXTENDS Integers, Sequences, Functions

CONSTANTS
    Tickets,
    Contents,
    Wordless,    \* contents that have no token
    SeedTickets, \* the seed file, ticket -> content
    MaxEntries   \* bound on the appended entries

ASSUME CorpusAssumption ==
    /\ Wordless \subseteq Contents
    /\ DOMAIN SeedTickets \subseteq Tickets
    /\ SeedTickets \in [DOMAIN SeedTickets -> Contents]
    /\ MaxEntries \in Nat

VARIABLES
    store,     \* the collection: ticket -> content
    opened,    \* _collection is set
    built,     \* what the last rebuild indexed: ticket -> content
    appended,  \* the entries added since, <<ticket, content>>
    torn       \* history: tickets written since to the collection alone

ragVars == <<store, opened, built, appended, torn>>

----------------------------------------------------------------------------
Corpora == UNION {[S -> Contents] : S \in SUBSET Tickets}

RagTypeOK ==
    /\ store \in Corpora /\ built \in Corpora
    /\ opened \in BOOLEAN
    /\ appended \in Seq(Tickets \X Contents) /\ Len(appended) <= MaxEntries
    /\ torn \in SUBSET Tickets

HasWords(content) == content \notin Wordless

Stored(t) == t \in DOMAIN store

\* What is found under a ticket in the index last.
AppendedFor(t) == {i \in DOMAIN appended : appended[i][1] = t}
Indexed(t) == t \in DOMAIN built \/ AppendedFor(t) # {}
IndexedContent(t) ==
    IF AppendedFor(t) # {}
    THEN appended[CHOOSE i \in AppendedFor(t) : \A j \in AppendedFor(t) : j <= i][2]
    ELSE built[t]

\* Mutant: the documents are read before the load and indexed after it.
BuiltFromBefore(corpus) == Restrict(store, {t \in DOMAIN store : HasWords(store[t])})

\* build_index
Built(corpus) == Restrict(corpus, {t \in DOMAIN corpus : HasWords(corpus[t])})

\* The collection the first call of the process works on: that of before, or,
\* when neither getting nor creating it succeeds, one made after deleting it.
Collections == IF opened THEN {store} ELSE {store, << >>}

\* The collection with documents upserted.
Written(docs, corpus) ==
    [t \in DOMAIN docs \cup DOMAIN corpus |-> IF t \in DOMAIN docs THEN docs[t] ELSE corpus[t]]

\* One document, and what reaches the collection of a load, whatever its calls answer.
WithTicket(t, c, corpus) == Written([u \in {t} |-> c], corpus)
WithLoad(tickets, taken, corpus) == Written(Restrict(tickets, taken), corpus)

RagInit ==
    /\ store = << >> /\ opened = FALSE
    /\ built = << >> /\ appended = << >>
    /\ torn = {}

----------------------------------------------------------------------------
(* Startup and seeds *)

\* Mutant: the documents of before stay in the index.
RebuildsOnTop ==
    /\ built' = Built(store')
    /\ torn' = {}
    /\ UNCHANGED appended

\* _rebuild_bm25 when the collection could be read.
Rebuilds ==
    /\ built' = Built(store')
    /\ appended' = << >>
    /\ torn' = {}

\* startup.  A rebuild that fails is not tried again, on the first query or later.
RagStarts ==
    /\ \E corpus \in {store, << >>}, taken \in SUBSET DOMAIN SeedTickets :
          store' = WithLoad(SeedTickets, taken, corpus)
    /\ opened' = TRUE
    /\ \/ Rebuilds
       \/ built' = << >> /\ appended' = << >> /\ torn' = DOMAIN store'

\* ChromaDB did not answer, or lost the collection between deleting and making
\* it; the service starts all the same.
RagStartsAlone ==
    /\ store' \in {store, << >>}
    /\ opened' = FALSE
    /\ built' = << >> /\ appended' = << >>
    /\ torn' = DOMAIN store'

\* /seed; a rebuild that fails leaves the index as it was.
Seeds(tickets) ==
    /\ \E corpus \in Collections, taken \in SUBSET DOMAIN tickets :
          store' = WithLoad(tickets, taken, corpus)
    /\ opened' = TRUE
    /\ \/ Rebuilds
       \/ torn' = torn \cup DOMAIN tickets /\ UNCHANGED <<built, appended>>

----------------------------------------------------------------------------
(* Upserts *)

\* add_document: a new entry each time, none for a text without tokens.
AddsDocument(t, c) ==
    appended' = IF HasWords(c) THEN Append(appended, <<t, c>>) ELSE appended

Upserts(t, c) ==
    /\ Len(appended) < MaxEntries
    /\ \E corpus \in Collections : store' = WithTicket(t, c, corpus)
    /\ opened' = TRUE
    /\ AddsDocument(t, c)
    /\ torn' = torn \ {t}
    /\ UNCHANGED built

\* The document was written, the call raised: 500, and nothing for the index.
UpsertTears(t, c) ==
    /\ \E corpus \in Collections : store' = WithTicket(t, c, corpus)
    /\ opened' = TRUE
    /\ torn' = torn \cup {t}
    /\ UNCHANGED <<built, appended>>

\* A retrieval's search reads; only as the process's first call it may delete
\* the collection too.
Retrieves ==
    /\ store' \in Collections
    /\ opened' \in {opened, TRUE}
    /\ UNCHANGED <<built, appended, torn>>

\* /health counts the documents: nothing changes once the collection is open.
HealthAsked == ~opened /\ Retrieves

RagNext ==
    \/ RagStarts
    \/ RagStartsAlone
    \/ \E tickets \in Corpora : Seeds(tickets)
    \/ \E t \in Tickets, c \in Contents : Upserts(t, c) \/ UpsertTears(t, c)
    \/ Retrieves
    \/ HealthAsked

RagSpec == RagInit /\ [][RagNext]_ragVars

----------------------------------------------------------------------------
(* Retrieval *)

\* What the index holds, several entries of a ticket apart.
Entries ==
    {[ticket |-> t, content |-> built[t]] : t \in DOMAIN built}
        \cup {[ticket |-> e[1], content |-> e[2]] : e \in Range(appended)}

FINAL_TOP_K == 3

\* Both searches and fuse.  The vector results carry no ticket_id, so the
\* fusion skips them; of several entries of a ticket it keeps the first one of
\* the keyword ranking, which can be any.
Candidates ==
    {S \in SUBSET Entries : \A d, e \in S : d.ticket = e.ticket => d = e}

\* The rerankers.  The coarse one puts the candidates in any order; of these the
\* language model names up to three, in any order and any number of times;
\* without a key the first three are taken.  A failing call names none.
Reranked(candidates) == UNION {[1 .. k -> candidates] : k \in 0 .. FINAL_TOP_K}

----------------------------------------------------------------------------
(* Properties *)

Current(t, c) == HasWords(store[t]) => c = store[t]

\* The index knows only stored tickets, and under every ticket whose writes all
\* reached it what the collection holds, through restarts, loads that stop in
\* the middle, updates and a collection that was deleted; text without tokens
\* is the exception.
IndexFollowsStore ==
    /\ \A t \in Tickets : Indexed(t) => Stored(t)
    /\ \A t \in DOMAIN store \ torn :
          HasWords(store[t]) => Indexed(t) /\ Current(t, IndexedContent(t))
====
