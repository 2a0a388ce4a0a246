----------------------------- MODULE LogsViewer -----------------------------
(***************************************************************************)
(* The viewer of a run's logs (internal/ui/modal/logs_viewer.go) with the  *)
(* filter it uses (internal/logs/filter.go): what of the logs is shown,    *)
(* which lines a search has found, and where the viewport stands.          *)
(*                                                                         *)
(* A line of the content stands for what is written in it: a step's        *)
(* header, an entry, or nothing.  Steps, entries and matches count from 1, *)
(* lines from 0 as in the viewport.  The logs do not change while the      *)
(* viewer is open: the updates of a stream do not get past Update (see     *)
(* LogStreamer), so AppendStreamUpdate and auto-scroll never do anything.  *)
(***************************************************************************)
EXTENDS Lists, SequencesExt

CONSTANTS
  RunLogs,   \* the logs that are viewed: sequences of steps, each a sequence
             \* of entries [level, content]
  Terms,     \* what the user searches for
  TermsIn,   \* TermsIn[caseSensitive][content]: the terms in it
  Heights    \* heights the viewport can have

ASSUME HeightsAssumption == Heights \subseteq Nat \ {0}

ASSUME LogsAssumption ==
  \A logs \in RunLogs :
    /\ logs \in Seq(ToSet(logs))
    /\ \A i \in DOMAIN logs : logs[i] \in Seq(ToSet(logs[i]))

VARIABLES
  runLogs,         \* runLogs
  filterCfg,       \* [level, searchTerm, caseSensitive]
  filtered,        \* filtered.Steps: sequences of [step, entries], entries as
                   \* [original, matches]
  collapsed,       \* collapsedSteps: indices of filtered, though filtered changes
  matches,         \* the places found: [step, entry, line]
  currentMatch,    \* the one jumped to last, 0 for none
  search,          \* the search input: [on, text]
  content,         \* the lines in the viewport
  yOffset, height, \* the viewport: its first line, and how many it shows
  done             \* the viewer is closed

filterState   == <<runLogs, filterCfg, filtered, matches>>
viewport      == <<content, yOffset, height>>
viewerVars    == <<filterState, viewport, collapsed, currentMatch, search, done>>

----------------------------------------------------------------------------
(* The filter *)

Shows(level) ==
  CASE level = "errors"   -> {"error"}
    [] level = "warnings" -> {"error", "warning"}
    [] OTHER              -> {"error", "warning", "info", "debug"}

Found(cfg, entry) == cfg.searchTerm \in TermsIn[cfg.caseSensitive][entry.content]

MatchesEntry(cfg, entry) ==
  /\ entry.level \in Shows(cfg.level)
  /\ cfg.searchTerm # "" => Found(cfg, entry)

(* findMatches: whether there are positions to highlight.                   *)
FindMatches(cfg, entry) == cfg.searchTerm # "" /\ Found(cfg, entry)

Matching(cfg, entries) == {entry \in Range(entries) : MatchesEntry(cfg, entry)}

Highlighted(cfg, entries) ==
  [j \in DOMAIN entries |-> [original |-> entries[j], matches |-> FindMatches(cfg, entries[j])]]

FilteredStep(cfg, logs, i) ==
  [step |-> i, entries |-> Highlighted(cfg, Only(logs[i], Matching(cfg, logs[i])))]

NonEmpty(steps) == Only(steps, {s \in Range(steps) : s.entries # <<>>})

(* Apply: the entries that match, in the steps that have any.               *)
Apply(cfg, logs) == NonEmpty([i \in DOMAIN logs |-> FilteredStep(cfg, logs, i)])

----------------------------------------------------------------------------
(* The content *)

Header(s) == [kind |-> "header", step |-> s]
Line(s, e) == [kind |-> "entry", step |-> s, entry |-> e]
Blank == [kind |-> "blank"]
NoLogs == [kind |-> "no logs match"]

(* The entries of a filtered step that are shown.                           *)
Unfolded(steps, folds, s) == IF s \in folds THEN 0 ELSE Len(steps[s].entries)

(* renderUnifiedLogs; what follows the last line break is a line too.       *)
RenderUnifiedLogs(steps, folds) ==
  FlattenSeq([s \in DOMAIN steps |->
                <<Header(s)>> \o [e \in 1..Unfolded(steps, folds, s) |-> Line(s, e)] \o <<Blank>>])
  \o <<Blank>>

Content(steps, folds) == IF steps = <<>> THEN <<NoLogs>> ELSE RenderUnifiedLogs(steps, folds)

Least(a, b) == IF a < b THEN a ELSE b

(* The viewport never shows lines behind the end while it could show more   *)
(* of them.                                                                 *)
MaxYOffset(lines, h) == IF lines > h THEN lines - h ELSE 0
SetYOffset(offset, lines, h) == Least(offset, MaxYOffset(lines, h))

(* updateViewportContent *)
UpdateViewportContent(steps, folds, h) ==
  /\ content' = Content(steps, folds)
  /\ height' = h
  /\ yOffset' = SetYOffset(yOffset, Len(content'), h)

----------------------------------------------------------------------------
(* Searching *)

(* Mutant of LineOf: the blank lines between steps are not counted.         *)
LineOfUnspaced(steps, folds, s, e) ==
  LET first[n \in 1..s] == IF n = 1 THEN 0 ELSE first[n - 1] + Unfolded(steps, folds, n - 1) + 1
  IN  first[s] + e

(* A header and a blank line around each of the steps before.               *)
LineOf(steps, folds, s, e) ==
  LET first[n \in 1..s] == IF n = 1 THEN 0 ELSE first[n - 1] + Unfolded(steps, folds, n - 1) + 2
  IN  first[s] + e

(* The entries of a step that have a match, and their lines by now.         *)
MatchesIn(steps, folds, s) ==
  LET shown == 1..Unfolded(steps, folds, s)
      Match(e) == [step |-> s, entry |-> e, line |-> LineOf(steps, folds, s, e)]
  IN  Only([e \in shown |-> Match(e)],
           {Match(e) : e \in {k \in shown : steps[s].entries[k].matches}})

BuildMatchIndex(cfg, steps, folds) ==
  IF cfg.searchTerm = "" THEN <<>>
  ELSE FlattenSeq([s \in DOMAIN steps |-> MatchesIn(steps, folds, s)])

(* applyFilter.  The folds stay with their places in the list.              *)
ApplyFilter(cfg) ==
  /\ filterCfg' = cfg
  /\ filtered' = Apply(cfg, runLogs)
  /\ matches' = BuildMatchIndex(cfg, filtered', collapsed)
  /\ currentMatch' = 0
  /\ UpdateViewportContent(filtered', collapsed, height)
  /\ UNCHANGED <<runLogs, collapsed, done>>

----------------------------------------------------------------------------
(* The keys *)

Viewing == ~done /\ ~search.on

Close ==
  /\ Viewing
  /\ done' = TRUE
  /\ UNCHANGED <<filterState, viewport, collapsed, currentMatch, search>>

NextLevel == [all |-> "errors", errors |-> "warnings", warnings |-> "all"]

(* ToggleFilter goes on to the next level, the quick filters to their own.  *)
SetLevel ==
  /\ Viewing
  /\ \/ ApplyFilter([filterCfg EXCEPT !.level = NextLevel[@]])
     \/ \E level \in DOMAIN NextLevel : ApplyFilter([filterCfg EXCEPT !.level = level])
  /\ UNCHANGED search

(* Mutant of ToggleCaseSensitive: what is shown waits for the next search.  *)
ToggleCaseSensitiveOnly ==
  /\ Viewing
  /\ filterCfg' = [filterCfg EXCEPT !.caseSensitive = ~@]
  /\ UNCHANGED <<runLogs, filtered, matches, viewport, collapsed, currentMatch, search, done>>

ToggleCaseSensitive ==
  /\ Viewing
  /\ LET toggled == [filterCfg EXCEPT !.caseSensitive = ~@]
     IN  IF filterCfg.searchTerm # "" THEN ApplyFilter(toggled)
         ELSE /\ filterCfg' = toggled
              /\ UNCHANGED <<runLogs, filtered, matches, viewport, collapsed, currentMatch, done>>
  /\ UNCHANGED search

StartSearch ==
  /\ Viewing
  /\ search' = [search EXCEPT !.on = TRUE]
  /\ UNCHANGED <<filterState, viewport, collapsed, currentMatch, done>>

(* handleSearchInput.  What was typed and not applied stays in the input.   *)
TypeSearch ==
  /\ ~done /\ search.on
  /\ \/ \E text \in Terms \cup {""} : search' = [search EXCEPT !.text = text]
     \/ search' = [search EXCEPT !.on = FALSE]
  /\ UNCHANGED <<filterState, viewport, collapsed, currentMatch, done>>

ApplySearch ==
  /\ ~done /\ search.on
  /\ ApplyFilter([filterCfg EXCEPT !.searchTerm = search.text])
  /\ search' = [search EXCEPT !.on = FALSE]

(* Folding does not build the match index again.                            *)
Fold(folds) ==
  /\ Viewing
  /\ collapsed' = folds
  /\ UpdateViewportContent(filtered, folds, height)
  /\ UNCHANGED <<filterState, currentMatch, search, done>>

(* toggleStepAtCursor: always the first step, as there is no cursor.        *)
ToggleStepAtCursor ==
  filtered # <<>> /\ Fold(IF 1 \in collapsed THEN collapsed \ {1} ELSE collapsed \cup {1})

ExpandAll == Fold({})

CollapseAll == Fold(collapsed \cup DOMAIN filtered)

(* scrollToMatch: the line in the middle, if there is room around it.       *)
ScrollToMatch(line) ==
  SetYOffset(IF line < height \div 2 THEN 0 ELSE line - height \div 2, Len(content), height)

(* jumpToNextMatch and jumpToPrevMatch.  The content is not written again,  *)
(* so the match that is highlighted stays the one it was.                   *)
Jump ==
  /\ Viewing
  /\ matches # <<>>
  /\ \/ currentMatch' = (currentMatch % Len(matches)) + 1
     \/ currentMatch' = IF currentMatch \in {0, 1} THEN Len(matches) ELSE currentMatch - 1
  /\ yOffset' = ScrollToMatch(matches[currentMatch'].line)
  /\ UNCHANGED <<filterState, content, height, collapsed, search, done>>

(* Everything else goes to the viewport, which scrolls.                     *)
Scroll ==
  /\ Viewing
  /\ yOffset' \in 0..MaxYOffset(Len(content), height)
  /\ UNCHANGED <<filterState, content, height, collapsed, currentMatch, search, done>>

Resize ==
  /\ ~done
  /\ \E h \in Heights : UpdateViewportContent(filtered, collapsed, h)
  /\ UNCHANGED <<filterState, collapsed, currentMatch, search, done>>

----------------------------------------------------------------------------
(* NewLogsViewerModal, and NewLogsViewerModalWithError.                     *)
NewViewer ==
  /\ filtered = Apply(filterCfg, runLogs)
  /\ collapsed = {} /\ matches = <<>> /\ currentMatch = 0
  /\ search = [on |-> FALSE, text |-> ""]
  /\ content = Content(filtered, collapsed)
  /\ yOffset = 0

OpensViewer ==
  /\ runLogs \in RunLogs
  /\ filterCfg \in [level : {"all", "errors"}, searchTerm : {""}, caseSensitive : {FALSE}]
  /\ NewViewer
  /\ height \in Heights
  /\ done = FALSE

(* No viewer on the stack. *)
NoViewer ==
  /\ runLogs = <<>>
  /\ filterCfg = [level |-> "all", searchTerm |-> "", caseSensitive |-> FALSE]
  /\ NewViewer
  /\ height = 1
  /\ done = TRUE

UpdateViewer ==
  \/ Close \/ SetLevel \/ ToggleCaseSensitive \/ StartSearch \/ TypeSearch \/ ApplySearch
  \/ ToggleStepAtCursor \/ ExpandAll \/ CollapseAll \/ Jump \/ Scroll \/ Resize

----------------------------------------------------------------------------
(* Properties *)

ViewerTypeOK ==
  /\ collapsed \subseteq DOMAIN runLogs
  /\ currentMatch \in 0..Len(matches)
  /\ yOffset \in 0..MaxYOffset(Len(content), height)
  /\ search.text \in Terms \cup {""}
  /\ done \in BOOLEAN

(* The lines in the viewport are the entries of the run that the filter on  *)
(* screen lets through, in the steps that are not folded, although filter,  *)
(* folds and content are changed by different keys: no key leaves the       *)
(* content behind.                                                          *)
ShowsFilteredLogs ==
  /\ filtered = Apply(filterCfg, runLogs)
  /\ content = Content(filtered, collapsed)

(* The line a jump goes to is that of the match and in view: the index      *)
(* counts lines the way the renderer writes them.  This is so as long as no *)
(* step was folded or unfolded since the index was built.                   *)
JumpShowsMatch ==
  [][Jump /\ matches = BuildMatchIndex(filterCfg, filtered, collapsed) =>
       LET m == matches[currentMatch']
       IN  /\ content'[m.line + 1] = Line(m.step, m.entry)
           /\ m.line \in yOffset'..(yOffset' + height - 1)]_viewerVars
=============================================================================
