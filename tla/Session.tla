------------------------------- MODULE Session -------------------------------
(***************************************************************************)
(* The filters through the sessions of a user: start-up (src/src/main.rs), *)
(* loading (Filters::load_or_default), the filter menu with its two text   *)
(* fields (CurrentMenu, SelectedFilter), saving after "q", and crashes     *)
(* anywhere.  What the rest of the program does in a session is left out.  *)
(*                                                                         *)
(* The file is missing, torn (created or truncated, but not yet written to *)
(* its end) or complete.                                                   *)
(***************************************************************************)
EXTENDS Filters

CONSTANTS
  Meaning,       (* humantime's parse, for the texts that are durations    *)
  Written,       (* humantime::format_duration, a text for each duration   *)
  KeywordKey,    (* bound: the characters typed into the keywords ...      *)
  DurationKey,   (* ... and into the duration                              *)
  MaxKeywords,   (* bound: no key is typed into a longer keywords text ... *)
  MaxDuration,   (* ... or into a longer duration text                     *)
  EarlierFilters (* filters that an earlier session may have saved         *)

Duration == {Meaning[text] : text \in DOMAIN Meaning}

(* What an earlier session saved is what handle_input_enter made of texts. *)
Keyword == {word \in Text : /\ word # <<>> /\ Lower(word) = word
                            /\ \A k \in DOMAIN word : word[k] \notin {" ", ","}}

Filter == [maxUpdate : Duration \cup {NoDuration},
           keywords  : {words \in SUBSET Keyword : IsFiniteSet(words)}]

ASSUME SessionAssumption ==
  /\ NoDuration \notin Duration
  /\ <<>> \notin DOMAIN Meaning
  /\ \A d \in Duration : Written[d] \in DOMAIN Meaning /\ Meaning[Written[d]] = d
  /\ KeywordKey \subseteq Char
  /\ EarlierFilters \subseteq Filter

VARIABLES
  app,           (* "off": no process; "prompt": main reads a line;        *)
                 (* "running": the loop; "saving", "writing": before and   *)
                 (* after File::create in save_to_file                     *)
  mode,          (* the filter menu: closed, or its InputMode              *)
  field,         (* SelectedFilter                                         *)
  filters,       (* Filters, without the texts                             *)
  keywordsText,
  durationText,
  file,          (* filter_data.bin                                        *)
  kept,          (* history: the filters that were last saved completely   *)
  interrupted    (* history: saving others has begun since                 *)

menu    == <<mode, field>>
texts   == <<keywordsText, durationText>>
history == <<kept, interrupted>>
vars    == <<app, menu, filters, texts, file, history>>

Default == [maxUpdate |-> NoDuration, keywords |-> {}]

-----------------------------------------------------------------------------
(* A mutant of Complete: the keywords are not serialized either. *)
CompleteWithoutKeywords(f) == [state |-> "complete", holds |-> [f EXCEPT !.keywords = {}]]

Missing     == [state |-> "missing", holds |-> Default]
Torn        == [state |-> "torn", holds |-> Default]
Complete(f) == [state |-> "complete", holds |-> f]

(* load_or_default: a file that cannot be read to its end counts as none. *)
Loaded(f) == IF f.state = "complete" THEN f.holds ELSE Default

ShownDuration(f) == IF f.maxUpdate = NoDuration THEN <<>> ELSE Written[f.maxUpdate]

(* A mutant of ShownKeywords: the text of the keywords is not restored. *)
NoShownKeywords(f) == {<<>>}

ShownKeywords(f) == TextsOf(f.keywords)

Init ==
  /\ app = "off"
  /\ mode = "closed"
  /\ field = "keywords"
  /\ filters = Default
  /\ keywordsText = <<>>
  /\ durationText = <<>>
  /\ file \in {Missing} \cup {Complete(f) : f \in EarlierFilters}
  /\ kept = Loaded(file)
  /\ interrupted = FALSE

-----------------------------------------------------------------------------
(* main: whatever the environment says, a line is read from the terminal,  *)
(* since the argument of unwrap_or is evaluated before it is needed.       *)
Launch ==
  /\ app = "off"
  /\ app' = "prompt"
  /\ UNCHANGED <<menu, filters, texts, file, history>>

(* The line has been read, the client connected: App::new. *)
Start ==
  /\ app = "prompt"
  /\ app' = "running"
  /\ mode' = "closed"
  /\ field' = "keywords"
  /\ filters' = Loaded(file)
  /\ keywordsText' \in ShownKeywords(filters')
  /\ durationText' = ShownDuration(filters')
  /\ UNCHANGED <<file, history>>

(* "f" *)
OpenMenu ==
  /\ app = "running"
  /\ mode = "closed"
  /\ mode' = "normal"
  /\ field' = "keywords"
  /\ UNCHANGED <<app, filters, texts, file, history>>

(* "j" and "k" are the same with two fields: switch_filter. *)
SwitchField ==
  /\ app = "running"
  /\ mode = "normal"
  /\ field' = IF field = "keywords" THEN "duration" ELSE "keywords"
  /\ UNCHANGED <<app, mode, filters, texts, file, history>>

(* "i", and Esc outside of editing *)
ChangeMode ==
  /\ app = "running"
  /\ mode = "normal"
  /\ mode' \in {"editing", "closed"}
  /\ UNCHANGED <<app, field, filters, texts, file, history>>

Editing(which) == app = "running" /\ mode = "editing" /\ field = which

(* humantime's parse *)
Parse(text) == IF text \in DOMAIN Meaning THEN Meaning[text] ELSE NoDuration

(* handle_input_char *)
Type ==
  /\ \/ /\ Editing("keywords")
        /\ Len(keywordsText) < MaxKeywords
        /\ \E c \in KeywordKey : keywordsText' = Append(keywordsText, c)
        /\ UNCHANGED durationText
     \/ /\ Editing("duration")
        /\ Len(durationText) < MaxDuration
        /\ \E c \in DurationKey : durationText' = Append(durationText, c)
        /\ UNCHANGED keywordsText
  /\ UNCHANGED <<app, menu, filters, file, history>>

(* String::pop *)
Pop(text) == IF text = <<>> THEN text ELSE Front(text)

(* handle_input_backspace *)
Backspace ==
  /\ \/ /\ Editing("keywords")
        /\ keywordsText' = Pop(keywordsText)
        /\ UNCHANGED durationText
     \/ /\ Editing("duration")
        /\ durationText' = Pop(durationText)
        /\ UNCHANGED keywordsText
  /\ UNCHANGED <<app, menu, filters, file, history>>

(* A mutant of Entered: a maximum duration is not replaced by another. *)
EnteredOnce ==
  IF field = "keywords" THEN [maxUpdate |-> filters.maxUpdate, keywords |-> KeywordsOf(keywordsText)]
  ELSE IF filters.maxUpdate # NoDuration THEN filters
  ELSE [maxUpdate |-> Parse(durationText), keywords |-> filters.keywords]

(* handle_input_enter *)
Entered ==
  IF field = "keywords" THEN [maxUpdate |-> filters.maxUpdate, keywords |-> KeywordsOf(keywordsText)]
  ELSE IF Parse(durationText) = NoDuration THEN filters
  ELSE [maxUpdate |-> Parse(durationText), keywords |-> filters.keywords]

(* Enter and Esc in editing *)
Commit ==
  /\ app = "running"
  /\ mode = "editing"
  /\ mode' = "normal"
  /\ filters' = Entered
  /\ UNCHANGED <<app, field, texts, file, history>>

-----------------------------------------------------------------------------
(* "q", which is only bound outside of the menus *)
Quit ==
  /\ app = "running"
  /\ mode = "closed"
  /\ app' = "saving"
  /\ interrupted' = TRUE
  /\ UNCHANGED <<menu, filters, texts, file, kept>>

(* Nothing of the process is left. *)
Ends ==
  /\ app' = "off"
  /\ mode' = "closed"
  /\ field' = "keywords"
  /\ filters' = Default
  /\ keywordsText' = <<>>
  /\ durationText' = <<>>

(* save_file, which creates or truncates the file ... *)
CreateFile ==
  /\ app = "saving"
  /\ app' = "writing"
  /\ file' = Torn
  /\ UNCHANGED <<menu, filters, texts, history>>

(* ... and writes it. *)
WriteFile ==
  /\ app = "writing"
  /\ Ends
  /\ file' = Complete(filters)
  /\ kept' = filters
  /\ interrupted' = FALSE

(* The process ends: an error of the terminal or the client that main      *)
(* returns, a panic (saving that fails is one), a signal.                  *)
Crash ==
  /\ app # "off"
  /\ Ends
  /\ UNCHANGED <<file, history>>

Next ==
  \/ Launch
  \/ Start
  \/ OpenMenu
  \/ SwitchField
  \/ ChangeMode
  \/ Type
  \/ Backspace
  \/ Commit
  \/ Quit
  \/ CreateFile
  \/ WriteFile
  \/ Crash

Spec == Init /\ [][Next]_vars

-----------------------------------------------------------------------------
(* Whatever sessions crash, and wherever they do: a restart gives the      *)
(* filters that were last saved, or none if a later session did not get to *)
(* the end of its saving (tui.rs 590, 612, 743).                           *)
RestartKeepsPromise ==
  \/ Loaded(file) = kept
  \/ interrupted /\ Loaded(file) = Default

(* The keywords that the menu shows are those that filter, except while    *)
(* they are edited: through commits, restarts with the file's keywords in  *)
(* any order, and switching between the fields (tui.rs 398, 416, 594).     *)
ShownKeywordsApply ==
  app = "running" /\ ~ Editing("keywords") => KeywordsOf(keywordsText) = filters.keywords

(* The inductive invariant behind RestartKeepsPromise: what the file holds *)
(* at each place.                                                          *)
FileAtPlace ==
  CASE app = "saving"  -> interrupted
    [] app = "writing" -> interrupted /\ file = Torn
    [] OTHER           -> TRUE

(* ... and the one behind ShownDurationFilters: every maximum, in use or   *)
(* in the file, is a duration that can be written.                         *)
Durations == \A f \in {filters, file.holds} : f.maxUpdate \in Duration \cup {NoDuration}

(* A duration that the menu shows, if it is one, is the one that filters,  *)
(* except while it is edited (tui.rs 425, 601).                            *)
ShownDurationFilters ==
  /\ app = "running" /\ ~ Editing("duration")
  /\ Parse(durationText) # NoDuration
  => filters.maxUpdate = Parse(durationText)
=============================================================================
