------------------------------- MODULE Filters -------------------------------
(***************************************************************************)
(* Which crates are skipped (Filters::filter, src/src/tui.rs 615-666), and *)
(* how the keywords become a text and the text becomes keywords.           *)
(*                                                                         *)
(* A text is a sequence of characters, the "::" of a category being one.   *)
(* Only whether a crate is rejected is modelled, not which word is named   *)
(* as the reason; so the words of a text are a set, and so are the         *)
(* keywords and the categories of a crate.  No description is an empty one.*)
(*                                                                         *)
(* Bound on letters: each is lowered by itself, to one letter.  The few for*)
(* which str::to_lowercase does otherwise (a capital sigma at the end of a *)
(* word, a dotted capital I) are left out.                                 *)
(***************************************************************************)
EXTENDS SequencesExt, Integers

CONSTANTS
  Letter,      (* the characters that separate nothing                     *)
  Lowercase(_),(* char::to_lowercase                                       *)
  NoDuration   (* no maximum age                                           *)

ASSUME FiltersAssumption ==
  /\ \A c \in Letter : Lowercase(c) \in Letter /\ Lowercase(Lowercase(c)) = Lowercase(c)
  /\ Letter \cap {"-", "_", " ", ",", "::"} = {}

Char == Letter \cup {"-", "_", " ", ",", "::"}
Text == Seq(Char)

Lower(text) == [k \in DOMAIN text |-> IF text[k] \in Letter THEN Lowercase(text[k]) ELSE text[k]]

(* text.split(separators).filter(not empty): the longest stretches without *)
(* a separator.                                                            *)
Words(text, separators) ==
  LET Within(i, j) == \A k \in i .. j : text[k] \notin separators
      Ends(i, j)   == /\ i = 1 \/ text[i - 1] \in separators
                      /\ j = Len(text) \/ text[j + 1] \in separators
      Places       == {p \in (DOMAIN text) \X (DOMAIN text) :
                         p[1] <= p[2] /\ Within(p[1], p[2]) /\ Ends(p[1], p[2])}
  IN {SubSeq(text, p[1], p[2]) : p \in Places}

Dashes == {"-", "_"}

-----------------------------------------------------------------------------
NameWords(name) == Words(name, Dashes)

(* A mutant of DescriptionWords: only the parts of words are compared. *)
DescriptionParts(description) == UNION {Words(word, Dashes) : word \in Words(description, {" "})}

(* Every word of the description, and the parts of it. *)
DescriptionWords(description) ==
  LET whole == Words(description, {" "})
  IN  whole \cup UNION {Words(word, Dashes) : word \in whole}

CategoryWords(category) == {category} \cup Words(category, {"::"})

Candidates(info) ==
  NameWords(info.name) \cup DescriptionWords(info.description) \cup info.keywords
    \cup UNION {CategoryWords(category) : category \in info.categories}

(* An update in the future has no age, and is not too old. *)
Outdated(maxUpdate, age) == maxUpdate # NoDuration /\ age >= 0 /\ age > maxUpdate

(* A mutant of HasKeyword: the crate's words are compared as they are. *)
HasKeywordExactly(keywords, info) == \E word \in Candidates(info) : word \in keywords

HasKeyword(keywords, info) == \E word \in Candidates(info) : Lower(word) \in keywords

(* Filters::filter *)
Rejects(filters, info) ==
  Outdated(filters.maxUpdate, info.age) \/ HasKeyword(filters.keywords, info)

-----------------------------------------------------------------------------
(* A mutant of KeywordsOf: only commas separate keywords. *)
KeywordsOfCommas(text) == {Lower(word) : word \in Words(text, {","})}

(* handle_input_enter on the keywords: what is typed becomes the filter. *)
KeywordsOf(text) == {Lower(word) : word \in Words(text, {" ", ","})}

(* words.join(", ") *)
Join(words) == FlattenSeq([k \in DOMAIN words |-> IF k = 1 THEN words[k] ELSE <<",", " ">> \o words[k]])

(* load_or_default: the keywords become a text, in any order, since those  *)
(* of a HashSet have none.                                                 *)
TextsOf(keywords) == {Join(words) : words \in SetToSeqs(keywords)}
=============================================================================
