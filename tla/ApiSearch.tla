----------------------------- MODULE ApiSearch ------------------------------
(***************************************************************************)
(* The search of the API documentation (docs/api/search.js, written by     *)
(* pdoc around the library elasticlunr): an index of the documented        *)
(* symbols is loaded, or built in the browser, and asked for a term.  The  *)
(* index of a field is a set of words, each with the symbols it comes      *)
(* from; scores, of which none is zero, only order the answer and are left *)
(* out, and so is the trimming of words.                                   *)
(***************************************************************************)
EXTENDS FiniteSets

Field == {"qualname", "fullname", "annotation", "default_value", "signature", "bases", "doc"}

CONSTANTS
    Symbol,   \* the documented symbols, by their full names
    Word,     \* the words that the tokenizer finds in their texts and in terms
    Blank,    \* the empty word, left over between two separators
    StopWord, \* the words that elasticlunr leaves out of an index by default
    Stem,     \* the word that the stemmer makes of another
    Begins,   \* Begins[w]: the words that begin with w, w among them
    Texts     \* the texts that a symbol may have: the words of each field

ASSUME SearchAssumption ==
    /\ Symbol # {}
    /\ Blank \in Word
    /\ StopWord \subseteq Word
    /\ Stem \in [Word -> Word]
    /\ Begins \in [Word -> SUBSET Word]
    /\ Texts \subseteq [Field -> SUBSET Word]

VARIABLES
    text,     \* the words of each symbol in each field
    prebuilt, \* docs._isPrebuiltIndex
    todo,     \* the symbols still to be added
    index,    \* <<field, word, symbol>>
    pipeline, \* what each word goes through, on its way into the index or the query
    ready     \* is there a search function?

vars == <<text, prebuilt, todo, index, pipeline, ready>>

Default == {"trimmer", "stopWordFilter", "stemmer"}

Init ==
    /\ text \in [Symbol -> Texts]
    /\ prebuilt \in BOOLEAN
    /\ todo = Symbol
    /\ index = {}
    /\ pipeline = Default
    /\ ready = FALSE

-----------------------------------------------------------------------------
(* The index                                                               *)

\* Pipeline.run() on a set of words.
Run(words, through) ==
    LET kept == IF "stopWordFilter" \in through THEN words \ (StopWord \cup {Blank}) ELSE words
    IN  IF "stemmer" \in through THEN {Stem[w] : w \in kept} ELSE kept

\* Mutant: the stemmer stays.
PlainButStemmed == Default \ {"stopWordFilter"}

\* pipeline.remove() of the stemmer and of the stop words; the prebuilt index
\* comes with the same pipeline.
Plain == Default \ {"stemmer", "stopWordFilter"}

Entries(s, through) == UNION {{<<f, w, s>> : w \in Run(text[s][f], through)} : f \in Field}

\* elasticlunr.Index.load(): the index that pdoc has built.
Load ==
    /\ prebuilt /\ ~ready
    /\ pipeline' = {"trimmer"}
    /\ index' = UNION {Entries(s, {"trimmer"}) : s \in Symbol}
    /\ ready' = TRUE
    /\ UNCHANGED <<text, prebuilt, todo>>

\* elasticlunr(function () {...}): the pipeline is set before any text comes.
Configure ==
    /\ ~prebuilt /\ ~ready
    /\ pipeline = Default
    /\ pipeline' = Plain
    /\ UNCHANGED <<text, prebuilt, todo, index, ready>>

\* addDoc(), for each of the docs.
AddDoc(s) ==
    /\ pipeline = Plain /\ ~prebuilt
    /\ s \in todo
    /\ todo' = todo \ {s}
    /\ index' = index \cup Entries(s, pipeline)
    /\ ready' = (todo' = {})
    /\ UNCHANGED <<text, prebuilt, pipeline>>

Next == Load \/ Configure \/ \E s \in Symbol : AddDoc(s)

Spec == Init /\ [][Next]_vars

-----------------------------------------------------------------------------
(* search(term, {fields, expand: true})                                    *)

\* The fields with a boost: all of the index.
Searched == Field

\* expandToken(): the empty word has no node, and expands to nothing.
Expanded(w) == IF w = Blank THEN {} ELSE Begins[w]

\* A term is the set of its words; one that is found is enough.
Search(term) ==
    {s \in Symbol : \E w \in Run(term, pipeline), f \in Searched :
                        \E v \in Expanded(w) : <<f, v, s>> \in index}

-----------------------------------------------------------------------------
\* The search finds the symbols whose texts have a word that begins with a word
\* of the term, and no others: short words of the API's names such as "get" or
\* "is" count, a plural is not its singular, and it makes no difference whether
\* the index was loaded or built (search.js 6-32).
FindsWhatItSays ==
    ready =>
        \A term \in SUBSET Word :
            Search(term) =
                {s \in Symbol : \E w \in term \ {Blank}, f \in Field :
                                    text[s][f] \cap Begins[w] # {}}
=============================================================================
