---------------------------- MODULE FiltersCheck ----------------------------
(***************************************************************************)
(* Filters against reference definitions, over all short texts: one typed  *)
(* into the keywords field, one in a crate.                                *)
(***************************************************************************)
EXTENDS Filters

CONSTANTS
  Upper(_),  (* a letter with the same lowercase form                      *)
  Key,       (* bound: the characters of the typed text ...                *)
  Sign,      (* ... and those of the crate's text                          *)
  MaxText    (* bound: the length of both                                  *)

ASSUME FiltersCheckAssumption ==
  /\ Key \subseteq Char /\ Sign \subseteq Char
  /\ \A c \in Letter : Upper(c) \in Letter /\ Lowercase(Upper(c)) = Lowercase(c)

VARIABLES
  typed,     (* the keywords field when it is committed                    *)
  content,   (* a text of the crate                                        *)
  place      (* where in the crate it is                                   *)

textVars == <<typed, content, place>>

Places == {"name", "description", "keyword", "category"}

NoTexts == typed = <<>> /\ content = <<>> /\ place \in Places

TypeChar == \E c \in Key : Len(typed) < MaxText /\ typed' = Append(typed, c) /\ UNCHANGED <<content, place>>
OtherCrate == \E c \in Sign : Len(content) < MaxText /\ content' = Append(content, c) /\ UNCHANGED <<typed, place>>

Lengthen == TypeChar \/ OtherCrate

(* A crate that has the text in the one place, and nothing else. *)
CrateWith(text, where) ==
  [age         |-> 0,
   name        |-> IF where = "name" THEN text ELSE <<>>,
   description |-> IF where = "description" THEN text ELSE <<>>,
   keywords    |-> IF where = "keyword" THEN {text} ELSE {},
   categories  |-> IF where = "category" THEN {text} ELSE {}]

Rejected(keywordsText, text, where) ==
  Rejects([maxUpdate |-> NoDuration, keywords |-> KeywordsOf(keywordsText)], CrateWith(text, where))

-----------------------------------------------------------------------------
(* The text shown after a restart means the keywords it was made from,     *)
(* whatever their order (tui.rs 594-600 against 416-424).                  *)
TextsMeanKeywords == \A text \in TextsOf(KeywordsOf(typed)) : KeywordsOf(text) = KeywordsOf(typed)

(* Neither the case of what the user types nor that of what the crate says *)
(* decides whether it is skipped (tui.rs 422, 628-659).                    *)
Uppercase(text) == [k \in DOMAIN text |-> IF text[k] \in Letter THEN Upper(text[k]) ELSE text[k]]

CaseDoesNotMatter ==
  \A t \in {typed, Lower(typed), Uppercase(typed)}, c \in {content, Lower(content), Uppercase(content)} :
    Rejected(t, c, place) = Rejected(typed, content, place)

(* A keyword is looked for as a word: it rejects a crate if it stands in   *)
(* the text between separators or at an end.  The separators are those of  *)
(* the place, unless the keyword holds some itself, as "no-std" does: then *)
(* it has to be all that stands between two blanks of a description, or    *)
(* all of a category, and in a name it is never found (tui.rs 627-662).    *)
StandsIn(word, text, separators) ==
  \E i \in DOMAIN text :
    LET j == i + Len(word) - 1
    IN  /\ j \in DOMAIN text
        /\ Lower(SubSeq(text, i, j)) = word
        /\ i = 1 \/ text[i - 1] \in separators
        /\ j = Len(text) \/ text[j + 1] \in separators

Separators == CASE place = "name"        -> {"-", "_"}
                [] place = "description" -> {" ", "-", "_"}
                [] place = "keyword"     -> {}
                [] place = "category"    -> {"::"}

Blanks == IF place = "description" THEN {" "} ELSE {}

Found(word) ==
  IF \E k \in DOMAIN word : word[k] \in Separators
  THEN place # "name" /\ StandsIn(word, content, Blanks)
  ELSE StandsIn(word, content, Separators)

KeywordsAreWords ==
  Rejected(typed, content, place) <=> \E word \in KeywordsOf(typed) : Found(word)
=============================================================================
