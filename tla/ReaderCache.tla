------------------------------ MODULE ReaderCache ------------------------------
(***************************************************************************)
(* createTypeReaderCache: the resolver of type texts that keeps the        *)
(* readers of the types asked for last.  A JavaScript Map iterates in      *)
(* insertion order; the cache is the sequence of its entries.              *)
(***************************************************************************)
EXTENDS Integers, Sequences, SequencesExt

CONSTANTS
    TypeTexts,      \* the type texts of responses
    ReaderFor(_),   \* typeStringToReader, the reader of a type text
    NoReader,       \* for a text that it throws on
    MaxSize         \* createTypeReaderCache(maxSize)

VARIABLES
    cache,          \* [type, reader] records, least recently used first
    requested       \* the type texts asked for so far, in order

cacheVars == <<cache, requested>>

EntryFor(text) == [type |-> text, reader |-> ReaderFor(text)]
Entries(entries, text) == {i \in DOMAIN entries : entries[i].type = text}

\* A type that does not compile is not stored; an entry too many drops the
\* head.
Missed(entries, text) ==
    LET grown == Append(entries, EntryFor(text))
    IN  CASE ReaderFor(text) = NoReader -> entries
          [] ReaderFor(text) # NoReader /\ Len(grown) > MaxSize -> Tail(grown)
          [] OTHER -> grown

\* A hit moves the entry to the end.
Resolve_InsertionOrder(entries, text) ==
    IF Entries(entries, text) # {} THEN entries ELSE Missed(entries, text)
Resolve(entries, text) ==
    LET at == CHOOSE i \in Entries(entries, text) : TRUE
    IN  IF Entries(entries, text) # {}
        THEN Append(RemoveAt(entries, at), entries[at])
        ELSE Missed(entries, text)

\* The reader that a call of the resolver returns
ReaderOf(entries, text) ==
    IF Entries(entries, text) = {} THEN ReaderFor(text)
    ELSE entries[CHOOSE i \in Entries(entries, text) : TRUE].reader

CacheInit == cache = <<>> /\ requested = <<>>

\* A call of the resolver
Ask(text) ==
    /\ cache' = Resolve(cache, text)
    /\ requested' = Append(requested, text)

CacheSpec == CacheInit /\ [][\E text \in TypeTexts : Ask(text)]_cacheVars

-----------------------------------------------------------------------------
(* Properties *)

\* The last uses of the types that compile
LastUses ==
    {i \in DOMAIN requested :
        /\ ReaderFor(requested[i]) # NoReader
        /\ \A j \in DOMAIN requested : i < j => requested[j] # requested[i]}

\* The cache holds the types asked for last, at most maxSize of them, each with
\* the reader its text compiles to, in the order of their last use; it drops
\* one only when it is full (createTypeReaderCache).
CacheKeepsRecent ==
    LET uses == LastUses
        UseOf(k) == {i \in uses : cache[k].type = requested[i]}
    IN  /\ Len(cache) <= MaxSize
        /\ \A k \in DOMAIN cache : \E i \in UseOf(k) : cache[k] = EntryFor(requested[i])
        /\ \A k, l \in DOMAIN cache : k < l =>
              \A i \in UseOf(k), j \in UseOf(l) : i < j
        /\ \A i \in uses :
              \/ \E k \in DOMAIN cache : cache[k].type = requested[i]
              \/ /\ Len(cache) = MaxSize
                 /\ \A k \in DOMAIN cache : \A j \in UseOf(k) : i < j

\* With the cache every text gets the reader that it compiles to, as without it.
AnswersRight ==
    \A text \in TypeTexts : ReaderOf(cache, text) = ReaderFor(text)

=============================================================================
