---------------------------- MODULE SearchProofs ----------------------------
(***************************************************************************)
(* Proofs about the search of the documentation, for every set of symbols, *)
(* of words and of stop words, every stemmer and every notion of which     *)
(* words begin with a word.                                                *)
(*                                                                         *)
(* The argument: no text goes into the index before the stemmer and the    *)
(* stop words are out of the pipeline, and they never come back, so that   *)
(* the words of the index are those of the texts, and the words that are   *)
(* looked up those of the term.                                            *)
(***************************************************************************)
EXTENDS ApiSearch, TLAPS

\* The index of the texts of some symbols, word by word.
IsIndexOf(ix, texts, S) ==
    /\ ix \subseteq Field \X Word \X Symbol
    /\ \A f \in Field, w \in Word, s \in Symbol :
          <<f, w, s>> \in ix <=> s \in S /\ w \in texts[s][f]

SearchInv ==
    /\ text \in [Symbol -> [Field -> SUBSET Word]]
    /\ prebuilt \in BOOLEAN
    /\ todo \subseteq Symbol
    /\ pipeline \in {Default, Plain}
    /\ ~prebuilt => IsIndexOf(index, text, Symbol \ todo)
    /\ ready =>
          /\ pipeline = Plain
          /\ prebuilt => IsIndexOf(index, text, Symbol)
          /\ ~prebuilt => todo = {}

-----------------------------------------------------------------------------
(* The pipeline and the index                                              *)

LEMMA PlainPipeline == Plain = {"trimmer"} /\ Plain # Default
BY DEF Plain, Default

\* Words go through the plain pipeline as they are.
LEMMA PlainKeepsWords ==
    ASSUME NEW words
    PROVE  Run(words, Plain) = words
BY PlainPipeline DEF Run

\* What a symbol adds to the index: all the words of its texts.
LEMMA EntriesOfSymbol ==
    ASSUME text \in [Symbol -> [Field -> SUBSET Word]], NEW s \in Symbol
    PROVE  /\ Entries(s, Plain) \subseteq Field \X Word \X Symbol
           /\ \A f \in Field, w \in Word, t \in Symbol :
                 <<f, w, t>> \in Entries(s, Plain) <=> t = s /\ w \in text[s][f]
<1>1. \A f : Run(text[s][f], Plain) = text[s][f]
  BY PlainKeepsWords
<1>2. Entries(s, Plain) = UNION {{<<f, w, s>> : w \in text[s][f]} : f \in Field}
  BY <1>1 DEF Entries
<1>3. \A f \in Field : text[s][f] \subseteq Word
  OBVIOUS
<1>4. QED
  BY <1>2, <1>3

\* Another symbol's texts: the index of one symbol more.
LEMMA OneMore ==
    ASSUME text \in [Symbol -> [Field -> SUBSET Word]], NEW s \in Symbol,
           NEW S \in SUBSET Symbol, NEW ix, IsIndexOf(ix, text, S)
    PROVE  IsIndexOf(ix \cup Entries(s, Plain), text, S \cup {s})
<1>1. /\ Entries(s, Plain) \subseteq Field \X Word \X Symbol
      /\ \A f \in Field, w \in Word, t \in Symbol :
            <<f, w, t>> \in Entries(s, Plain) <=> t = s /\ w \in text[s][f]
  BY EntriesOfSymbol
<1>2. QED
  BY <1>1 DEF IsIndexOf

-----------------------------------------------------------------------------
(* The invariant                                                           *)

LEMMA SearchInit ==
    ASSUME Init
    PROVE  SearchInv
<1>1. text \in [Symbol -> [Field -> SUBSET Word]]
  BY SearchAssumption DEF Init
<1>2. IsIndexOf(index, text, Symbol \ todo)
  BY DEF Init, IsIndexOf
<1>3. QED
  BY <1>1, <1>2 DEF Init, SearchInv

LEMMA SearchStep ==
    ASSUME SearchInv, [Next]_vars
    PROVE  SearchInv'
<1> USE DEF SearchInv
<1>1. CASE Load
  <2>1. \A s \in Symbol :
           /\ Entries(s, Plain) \subseteq Field \X Word \X Symbol
           /\ \A f \in Field, w \in Word, t \in Symbol :
                 <<f, w, t>> \in Entries(s, Plain) <=> t = s /\ w \in text[s][f]
    BY EntriesOfSymbol
  <2>2. index' = UNION {Entries(s, Plain) : s \in Symbol}
    BY <1>1, PlainPipeline DEF Load
  <2>3. IsIndexOf(index', text, Symbol)
    BY <2>1, <2>2 DEF IsIndexOf
  <2>4. QED
    BY <1>1, <2>3, PlainPipeline DEF Load, IsIndexOf
<1>2. CASE Configure
  BY <1>2 DEF Configure, IsIndexOf
<1>3. ASSUME NEW s \in Symbol, AddDoc(s)
      PROVE  SearchInv'
  <2>1. IsIndexOf(index \cup Entries(s, Plain), text, (Symbol \ todo) \cup {s})
    BY <1>3, OneMore DEF AddDoc
  <2>2. (Symbol \ todo) \cup {s} = Symbol \ todo'
    BY <1>3 DEF AddDoc
  <2>3. index' = index \cup Entries(s, Plain)
    BY <1>3 DEF AddDoc
  <2>4. IsIndexOf(index', text, Symbol \ todo')
    BY <2>1, <2>2, <2>3
  <2>5. QED
    BY <1>3, <2>4 DEF AddDoc, IsIndexOf
<1>4. CASE UNCHANGED vars
  BY <1>4 DEF vars, IsIndexOf
<1>5. QED
  BY <1>1, <1>2, <1>3, <1>4 DEF Next

\* The symbols that a plain index gives for a term.
LEMMA SearchOfIndex ==
    ASSUME IsIndexOf(index, text, Symbol), pipeline = Plain,
           text \in [Symbol -> [Field -> SUBSET Word]], NEW term \in SUBSET Word
    PROVE  Search(term) =
              {s \in Symbol : \E w \in term \ {Blank}, f \in Field : text[s][f] \cap Begins[w] # {}}
<1>1. Run(term, pipeline) = term
  BY PlainKeepsWords
<1>2. \A w \in term : Expanded(w) = (IF w = Blank THEN {} ELSE Begins[w]) /\ Expanded(w) \subseteq Word
  BY SearchAssumption DEF Expanded
<1>3. \A s \in Symbol, w \in term, f \in Field :
         (\E v \in Expanded(w) : <<f, v, s>> \in index)
             <=> w # Blank /\ text[s][f] \cap Begins[w] # {}
  BY <1>2 DEF IsIndexOf
<1>4. Search(term) = {s \in Symbol : \E w \in term, f \in Field :
                                        \E v \in Expanded(w) : <<f, v, s>> \in index}
  BY <1>1 DEF Search, Searched
<1>5. QED
  BY <1>3, <1>4

\* The search finds the symbols whose texts have a word that begins with a word
\* of the term, stop words and inflected forms as they are, and no others, loaded
\* or built (search.js 6-32).
THEOREM SearchFindsWords == Spec => []FindsWhatItSays
<1>1. Init => SearchInv
  BY SearchInit
<1>2. SearchInv /\ [Next]_vars => SearchInv'
  BY SearchStep
<1>3. SearchInv => FindsWhatItSays
  <2>1. SUFFICES ASSUME SearchInv, ready
                 PROVE  FindsWhatItSays
    BY DEF FindsWhatItSays
  <2>2. IsIndexOf(index, text, Symbol)
    BY <2>1 DEF SearchInv, IsIndexOf
  <2>3. QED
    BY <2>1, <2>2, SearchOfIndex DEF SearchInv, FindsWhatItSays
<1>4. QED
  BY <1>1, <1>2, <1>3, PTL DEF Spec
=============================================================================
