---------------------------- MODULE SessionProofs ----------------------------
(***************************************************************************)
(* Proofs about Session, for any durations, any keywords and any number of *)
(* sessions and crashes.                                                   *)
(***************************************************************************)
EXTENDS Session, FiltersProofs

PromiseInv == FileAtPlace /\ RestartKeepsPromise

LEMMA PromiseStep == PromiseInv /\ [Next]_vars => PromiseInv'
<1>1. SUFFICES ASSUME PromiseInv, [Next]_vars
              PROVE  PromiseInv'
  OBVIOUS
<1>2. CASE UNCHANGED vars
  BY <1>1, <1>2 DEF PromiseInv, FileAtPlace, RestartKeepsPromise, vars, history
<1>3. CASE CreateFile
  <2>1. file' = Torn /\ app' = "writing" /\ UNCHANGED history
    BY <1>3 DEF CreateFile
  <2>2. interrupted'
    BY <1>1, <1>3, <2>1 DEF PromiseInv, FileAtPlace, CreateFile, history
  <2>3. Loaded(file') = Default
    BY <2>1 DEF Loaded, Torn
  <2>4. QED
    BY <2>1, <2>2, <2>3 DEF PromiseInv, FileAtPlace, RestartKeepsPromise
<1>4. CASE WriteFile
  <2>1. app' = "off" /\ Loaded(file') = kept'
    BY <1>4 DEF WriteFile, Ends, Complete, Loaded
  <2>2. QED
    BY <2>1 DEF PromiseInv, FileAtPlace, RestartKeepsPromise
<1>5. CASE Quit
  <2>1. app' = "saving" /\ interrupted' /\ UNCHANGED <<file, kept>>
    BY <1>5 DEF Quit
  <2>2. QED
    BY <1>1, <2>1 DEF PromiseInv, FileAtPlace, RestartKeepsPromise
<1>6. CASE Launch \/ Start \/ OpenMenu \/ SwitchField \/ ChangeMode \/ Type \/ Backspace \/ Commit \/ Crash
  <2>1. UNCHANGED <<file, history>>
    BY <1>6 DEF Launch, Start, OpenMenu, SwitchField, ChangeMode, Type, Backspace, Commit, Crash
  <2>2. app' \notin {"saving", "writing"}
    BY <1>6 DEF Launch, Start, OpenMenu, SwitchField, ChangeMode, Type, Backspace, Commit, Crash, Editing, Ends
  <2>3. QED
    BY <1>1, <2>1, <2>2 DEF PromiseInv, FileAtPlace, RestartKeepsPromise, history
<1>7. QED
  BY <1>1, <1>2, <1>3, <1>4, <1>5, <1>6 DEF Next

(* A restart gives the filters that were last saved, or none if a later    *)
(* session crashed while it saved (tui.rs 590, 612, 743).                  *)
THEOREM RestartsRight == Spec => []RestartKeepsPromise
<1>1. Init => PromiseInv
  BY DEF Init, PromiseInv, FileAtPlace, RestartKeepsPromise
<1>2. PromiseInv => RestartKeepsPromise
  BY DEF PromiseInv
<1>3. QED
  BY <1>1, <1>2, PromiseStep, PTL DEF Spec
-----------------------------------------------------------------------------
ShownInv == Durations /\ ShownDurationFilters

(* What can be typed is a duration that can be written, or none.           *)
LEMMA ParseType == ASSUME NEW text PROVE Parse(text) \in Duration \cup {NoDuration}
BY DEF Parse, Duration

(* Reading what was written gives the same duration, and nothing none.     *)
LEMMA ParseShown ==
  ASSUME NEW f, f.maxUpdate \in Duration \cup {NoDuration}
  PROVE  Parse(ShownDuration(f)) = f.maxUpdate
<1>1. CASE f.maxUpdate = NoDuration
  BY <1>1, SessionAssumption DEF ShownDuration, Parse
<1>2. CASE f.maxUpdate \in Duration
  BY <1>2, SessionAssumption DEF ShownDuration, Parse
<1>3. QED
  BY <1>1, <1>2

LEMMA ShownInit == Init => ShownInv
<1>1. SUFFICES ASSUME Init PROVE ShownInv
  OBVIOUS
<1>2. filters.maxUpdate = NoDuration
  BY <1>1 DEF Init, Default
<1>3. file.holds.maxUpdate \in Duration \cup {NoDuration}
  <2>1. CASE file = Missing
    BY <2>1 DEF Missing, Default
  <2>2. CASE file \in {Complete(f) : f \in EarlierFilters}
    <3>1. PICK f \in EarlierFilters : file = Complete(f)
      BY <2>2
    <3>2. f \in Filter /\ file.holds = f
      BY <3>1, SessionAssumption DEF Complete
    <3>3. QED
      BY <3>2 DEF Filter
  <2>3. QED
    BY <1>1, <2>1, <2>2 DEF Init
<1>4. app = "off"
  BY <1>1 DEF Init
<1>5. QED
  BY <1>2, <1>3, <1>4 DEF ShownInv, Durations, ShownDurationFilters

LEMMA ShownStep == ShownInv /\ [Next]_vars => ShownInv'
<1>1. SUFFICES ASSUME ShownInv, [Next]_vars
              PROVE  ShownInv'
  OBVIOUS
<1>2. Loaded(file).maxUpdate \in Duration \cup {NoDuration}
  BY <1>1 DEF ShownInv, Durations, Loaded, Default
<1>3. CASE UNCHANGED vars
  BY <1>1, <1>3 DEF ShownInv, Durations, ShownDurationFilters, Editing, vars, menu, texts
<1>4. CASE Start
  <2>1. filters' = Loaded(file) /\ durationText' = ShownDuration(filters') /\ UNCHANGED file
    BY <1>4 DEF Start
  <2>2. Durations'
    BY <1>1, <1>2, <2>1 DEF ShownInv, Durations
  <2>3. Parse(durationText') = filters'.maxUpdate
    BY <1>2, <2>1, ParseShown
  <2>4. QED
    BY <2>2, <2>3 DEF ShownInv, ShownDurationFilters, Parse
<1>5. CASE Commit
  <2>1. UNCHANGED <<app, field, durationText, file>> /\ filters' = Entered /\ app = "running" /\ mode = "editing"
    BY <1>5 DEF Commit, texts
  <2>2. Parse(durationText) \in Duration \cup {NoDuration}
    BY ParseType
  <2>3. filters'.maxUpdate \in {filters.maxUpdate, Parse(durationText)}
    BY <1>1, <2>1 DEF Entered
  <2>4. Durations'
    BY <1>1, <2>1, <2>2, <2>3 DEF ShownInv, Durations
  <2>5. ShownDurationFilters'
    <3>1. CASE field = "keywords"
      <4>1. filters'.maxUpdate = filters.maxUpdate
        BY <2>1, <3>1 DEF Entered
      <4>2. ~ Editing("duration")
        BY <3>1 DEF Editing
      <4>3. Parse(durationText) # NoDuration => filters.maxUpdate = Parse(durationText)
        BY <1>1, <2>1, <4>2 DEF ShownInv, ShownDurationFilters
      <4>4. QED
        BY <2>1, <4>1, <4>3 DEF ShownDurationFilters, Parse
    <3>2. CASE field # "keywords"
      <4>1. Parse(durationText) # NoDuration => filters'.maxUpdate = Parse(durationText)
        BY <2>1, <3>2 DEF Entered
      <4>2. QED
        BY <2>1, <4>1 DEF ShownDurationFilters, Parse
    <3>3. QED
      BY <3>1, <3>2
  <2>6. QED
    BY <2>4, <2>5 DEF ShownInv
<1>6. CASE Type \/ Backspace
  <2>1. UNCHANGED <<app, mode, field, filters, file>>
    BY <1>6 DEF Type, Backspace, menu
  <2>2. Editing("duration") \/ UNCHANGED durationText
    BY <1>6 DEF Type, Backspace
  <2>3. Durations'
    BY <1>1, <2>1 DEF ShownInv, Durations
  <2>4. ShownDurationFilters'
    BY <1>1, <2>1, <2>2 DEF ShownInv, ShownDurationFilters, Editing, Parse
  <2>5. QED
    BY <2>3, <2>4 DEF ShownInv
<1>7. CASE OpenMenu \/ SwitchField \/ ChangeMode
  <2>1. UNCHANGED <<app, filters, durationText, file>> /\ ~ Editing("duration")
    BY <1>7 DEF OpenMenu, SwitchField, ChangeMode, texts, Editing
  <2>2. Durations'
    BY <1>1, <2>1 DEF ShownInv, Durations
  <2>3. ShownDurationFilters'
    BY <1>1, <2>1 DEF ShownInv, ShownDurationFilters, Parse
  <2>4. QED
    BY <2>2, <2>3 DEF ShownInv
<1>8. CASE Launch \/ Quit \/ CreateFile
  <2>1. UNCHANGED filters /\ app' # "running"
    BY <1>8 DEF Launch, Quit, CreateFile
  <2>2. file' = file \/ file' = Torn
    BY <1>8 DEF Launch, Quit, CreateFile
  <2>3. Torn.holds.maxUpdate = NoDuration
    BY DEF Torn, Default
  <2>4. Durations'
    BY <1>1, <2>1, <2>2, <2>3 DEF ShownInv, Durations
  <2>5. QED
    BY <2>1, <2>4 DEF ShownInv, ShownDurationFilters
<1>9. CASE WriteFile \/ Crash
  <2>1. filters' = Default /\ app' = "off"
    BY <1>9 DEF WriteFile, Crash, Ends
  <2>2. file'.holds = filters \/ file' = file
    BY <1>9 DEF WriteFile, Crash, Complete
  <2>3. Default.maxUpdate = NoDuration
    BY DEF Default
  <2>4. Durations'
    BY <1>1, <2>1, <2>2, <2>3 DEF ShownInv, Durations
  <2>5. QED
    BY <2>1, <2>4 DEF ShownInv, ShownDurationFilters
<1>10. QED
  BY <1>1, <1>3, <1>4, <1>5, <1>6, <1>7, <1>8, <1>9 DEF Next

(* A maximum duration that the menu shows is the one that filters, except  *)
(* while it is edited, in every session (tui.rs 425, 601).                 *)
THEOREM DurationsShownRight == Spec => []ShownDurationFilters
<1>1. ShownInv => ShownDurationFilters
  BY DEF ShownInv
<1>2. QED
  BY <1>1, ShownInit, ShownStep, PTL DEF Spec
-----------------------------------------------------------------------------
(* The keywords in use and in the file are such that a text can be made    *)
(* from them and read back, and what is typed is a text.                   *)
PlainKeywords(f) == IsFiniteSet(f.keywords) /\ \A word \in f.keywords : PlainWord(word)

KeywordsInv ==
  /\ keywordsText \in Text
  /\ PlainKeywords(filters)
  /\ PlainKeywords(file.holds)
  /\ ShownKeywordsApply

LEMMA NoKeywords == PlainKeywords(Default) /\ PlainKeywords(Torn.holds) /\ <<>> \in Text
BY FS_EmptySet DEF PlainKeywords, Default, Torn, Text

LEMMA KeywordsInit == Init => KeywordsInv
<1>1. SUFFICES ASSUME Init PROVE KeywordsInv
  OBVIOUS
<1>2. PlainKeywords(file.holds)
  <2>1. CASE file = Missing
    BY <2>1, NoKeywords DEF Missing
  <2>2. CASE file \in {Complete(f) : f \in EarlierFilters}
    <3>1. PICK f \in EarlierFilters : file = Complete(f)
      BY <2>2
    <3>2. file.holds = f /\ f \in Filter
      BY <3>1, SessionAssumption DEF Complete
    <3>3. f.keywords \in SUBSET Keyword /\ IsFiniteSet(f.keywords)
      BY <3>2 DEF Filter
    <3>4. ASSUME NEW word \in Keyword PROVE PlainWord(word)
      <4>1. /\ word \in Text /\ word # <<>> /\ Lower(word) = word
            /\ \A k \in DOMAIN word : word[k] \notin KeywordSeparators
        BY DEF Keyword, KeywordSeparators
      <4>2. DOMAIN word = 1 .. Len(word)
        BY <4>1 DEF Text
      <4> QED
        BY <4>1, <4>2 DEF PlainWord
    <3> QED
      BY <3>2, <3>3, <3>4 DEF PlainKeywords
  <2> QED
    BY <1>1, <2>1, <2>2 DEF Init
<1>3. ShownKeywordsApply
  BY <1>1 DEF Init, ShownKeywordsApply
<1> QED
  BY <1>1, <1>2, <1>3, NoKeywords DEF Init, KeywordsInv

LEMMA KeywordsStep == KeywordsInv /\ [Next]_vars => KeywordsInv'
<1>1. SUFFICES ASSUME KeywordsInv, [Next]_vars
              PROVE  KeywordsInv'
  OBVIOUS
<1>2. CASE UNCHANGED vars
  BY <1>1, <1>2 DEF KeywordsInv, PlainKeywords, ShownKeywordsApply, Editing, vars, menu, texts
<1>3. CASE Start
  <2>1. filters' = Loaded(file) /\ keywordsText' \in TextsOf(filters'.keywords) /\ UNCHANGED file
    BY <1>3 DEF Start, ShownKeywords
  <2>2. PlainKeywords(Loaded(file))
    BY <1>1, NoKeywords DEF KeywordsInv, Loaded
  <2>3. keywordsText' \in Text /\ KeywordsOf(keywordsText') = filters'.keywords
    BY <2>1, <2>2, TextsOfMean DEF PlainKeywords
  <2> QED
    BY <1>1, <2>1, <2>2, <2>3 DEF KeywordsInv, ShownKeywordsApply, PlainKeywords
<1>4. CASE Commit
  <2>1. /\ UNCHANGED <<app, field, keywordsText, file>> /\ filters' = Entered
        /\ app = "running" /\ mode = "editing"
    BY <1>4 DEF Commit, texts
  <2>2. KeywordsOf(keywordsText) = filters'.keywords
    <3>1. CASE field = "keywords"
      BY <2>1, <3>1 DEF Entered
    <3>2. CASE field # "keywords"
      <4>1. filters'.keywords = filters.keywords
        BY <2>1, <3>2 DEF Entered
      <4>2. ~ Editing("keywords")
        BY <3>2 DEF Editing
      <4> QED
        BY <1>1, <2>1, <4>1, <4>2 DEF KeywordsInv, ShownKeywordsApply
    <3> QED
      BY <3>1, <3>2
  <2>3. PlainKeywords(filters')
    BY <1>1, <2>2, KeywordsArePlain DEF KeywordsInv, PlainKeywords
  <2> QED
    BY <1>1, <2>1, <2>2, <2>3 DEF KeywordsInv, ShownKeywordsApply, PlainKeywords
<1>5. CASE Type \/ Backspace
  <2>1. UNCHANGED <<app, mode, field, filters, file>>
    BY <1>5 DEF Type, Backspace, menu
  <2>2. Editing("keywords") \/ UNCHANGED keywordsText
    BY <1>5 DEF Type, Backspace
  <2>3. keywordsText' \in Text
    <3>1. ASSUME NEW c \in Char PROVE Append(keywordsText, c) \in Text
      BY <1>1 DEF KeywordsInv, Text
    <3>2. Pop(keywordsText) \in Text
      BY <1>1 DEF KeywordsInv, Text, Pop, Front
    <3> QED
      BY <1>1, <1>5, <3>1, <3>2, SessionAssumption DEF Type, Backspace, KeywordsInv
  <2>4. ShownKeywordsApply'
    BY <1>1, <2>1, <2>2 DEF KeywordsInv, ShownKeywordsApply, Editing
  <2> QED
    BY <1>1, <2>1, <2>3, <2>4 DEF KeywordsInv, PlainKeywords
<1>6. CASE OpenMenu \/ SwitchField \/ ChangeMode
  <2>1. UNCHANGED <<app, filters, keywordsText, file>> /\ ~ Editing("keywords")
    BY <1>6 DEF OpenMenu, SwitchField, ChangeMode, texts, Editing
  <2> QED
    BY <1>1, <2>1 DEF KeywordsInv, ShownKeywordsApply, PlainKeywords
<1>7. CASE Launch \/ Quit \/ CreateFile
  <2>1. UNCHANGED <<filters, keywordsText>> /\ app' # "running"
    BY <1>7 DEF Launch, Quit, CreateFile, texts
  <2>2. file' = file \/ file' = Torn
    BY <1>7 DEF Launch, Quit, CreateFile
  <2> QED
    BY <1>1, <2>1, <2>2, NoKeywords DEF KeywordsInv, ShownKeywordsApply, PlainKeywords
<1>8. CASE WriteFile \/ Crash
  <2>1. filters' = Default /\ app' = "off" /\ keywordsText' = <<>>
    BY <1>8 DEF WriteFile, Crash, Ends
  <2>2. file'.holds = filters \/ file' = file
    BY <1>8 DEF WriteFile, Crash, Complete
  <2> QED
    BY <1>1, <2>1, <2>2, NoKeywords DEF KeywordsInv, ShownKeywordsApply, PlainKeywords
<1> QED
  BY <1>1, <1>2, <1>3, <1>4, <1>5, <1>6, <1>7, <1>8 DEF Next

(* The keywords that the menu shows are those that filter, except while    *)
(* they are edited: through commits, crashes and restarts, whatever the    *)
(* keywords are and in whatever order the file gives them back             *)
(* (tui.rs 398, 416, 594).                                                 *)
THEOREM KeywordsShownRight == Spec => []ShownKeywordsApply
<1>1. KeywordsInv => ShownKeywordsApply
  BY DEF KeywordsInv
<1> QED
  BY <1>1, KeywordsInit, KeywordsStep, PTL DEF Spec
=============================================================================
