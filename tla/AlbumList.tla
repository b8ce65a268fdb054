------------------------------ MODULE AlbumList ------------------------------
(* The album list and its covers: the cache of decoded covers               *)
(* (ui/artcache.c), and of the main loop what moves the selection, repaints *)
(* the list - whole, or just the two rows a move has changed - and has the  *)
(* covers loaded a few at a time (run_ui, list_repaint_partial).            *)
(*                                                                          *)
(* Which way of the cache a cover lies in is of no interest, only the order *)
(* of the stamps: the cache is a sequence, the least recently drawn first.  *)
(* The sidecars of an album do not change once the library is loaded.       *)
EXTENDS Integers, Sequences, FiniteSets

CONSTANTS
    Albums,      \* g_albums
    AllSongs,    \* the row that is no album
    Views,       \* the lists there are: sequences of albums and AllSongs
    Ways,        \* ARTCACHE_WAYS: at least as many as rows
    Rows,        \* LIST_ROWS2
    Thm, Art,    \* what folder.thm and folder.art of an album are:
    Absent, Bad, Good,    \* ... not there, no cover, or one
    Shaky,       \* the albums whose sidecars may fail to be read
    Watched      \* bound: the albums Resolves is about

ASSUME ListAssumption ==
    /\ AllSongs \notin Albums /\ Shaky \cup Watched \subseteq Albums
    /\ Views \subseteq Seq(Albums \cup {AllSongs}) \ {<<>>}
    /\ Rows \in Nat \ {0} /\ Ways \in Nat /\ Rows <= Ways
    /\ Good \notin {Absent, Bad}
    /\ {Thm, Art} \subseteq [Albums -> {Absent, Bad, Good}]

VARIABLES
    cache,    \* g_way, in the order of the stamps: [key, loaded]
    noart,    \* g_noart: the albums given up
    retried,  \* g_retried: those a read has failed for
    view,     \* g_albumview and g_artist_filter
    sel,      \* g_br_sel, from 1
    on,       \* the album list is the screen, not the tracks of an album
    dirty,
    panel,    \* what the rows on the panel show
    painted,  \* g_lp: what the last paint was of
    stage     \* where in its pass the loop is

art == <<cache, noart, retried>>
list == <<view, sel, on>>
screen == <<panel, painted>>
listVars == <<art, list, dirty, screen, stage>>

Lesser(a, b) == IF a < b THEN a ELSE b

-----------------------------------------------------------------------------
(* artcache.c *)
HasSidecar(a) == Thm[a] # Absent \/ Art[a] # Absent
Keys(c) == {c[i].key : i \in DOMAIN c}
Queued(c) == {c[i].key : i \in {j \in DOMAIN c : ~c[j].loaded}}
Loaded(c) == Keys(c) \ Queued(c)
Way(c, a) == CHOOSE i \in DOMAIN c : c[i].key = a
Entry(c, a) == c[Way(c, a)]
Without(c, a) == [j \in 1 .. Len(c) - 1 |-> c[IF j < Way(c, a) THEN j ELSE j + 1]]

(* artcache_get: a resident album is stamped, another one claims a free way *)
(* or that of the least recently drawn.                                     *)
GotUnstamped(c, a) ==   \* mistake: only a claim is stamped
    IF a \in Keys(c) \/ a \in noart \/ ~HasSidecar(a) THEN c
    ELSE Append(IF Len(c) < Ways THEN c ELSE Tail(c), [key |-> a, loaded |-> FALSE])
Got(c, a) ==
    IF a \in Keys(c) THEN Append(Without(c, a), Entry(c, a))
    ELSE IF a \in noart \/ ~HasSidecar(a) THEN c
    ELSE Append(IF Len(c) < Ways THEN c ELSE Tail(c), [key |-> a, loaded |-> FALSE])

(* load_one, of one sidecar and of the fallback: a read that fails is not a *)
(* file without a cover.                                                    *)
LoadOne(a, kind) ==
    IF kind = Absent THEN {"none"}
    ELSE {IF kind = Good THEN "ok" ELSE "none"}
         \cup (IF a \in Shaky THEN {"error"} ELSE {})
Loads(a) ==
    LET thm == LoadOne(a, Thm[a])
    IN  (thm \ {"none"}) \cup (IF "none" \in thm THEN LoadOne(a, Art[a]) ELSE {})

-----------------------------------------------------------------------------
(* The window of the list, and the drawing of its rows.                     *)
Top(v, s) ==
    IF Len(v) <= Rows THEN 0
    ELSE LET start == s - 1 - (Rows \div 3)
         IN  IF start < 0 THEN 0 ELSE Lesser(start, Len(v) - Rows)
Window == LET top == Top(view, sel) IN (top + 1) .. Lesser(top + Rows, Len(view))
Visible == {view[i] : i \in Window} \cap Albums
OnScreen(a) == on /\ a \in Visible

Nothing == <<>>
RowDraw(acc, i) ==
    LET a == view[i]
        c == IF a = AllSongs THEN acc.cache ELSE Got(acc.cache, a)
    IN  [cache |-> c,
         panel |-> [acc.panel EXCEPT ![i - Top(view, sel)] =
                        [item |-> a, lit |-> i = sel, cover |-> a \in Loaded(c)]]]
Drawing(rows, onto) ==
    LET upTo[k \in 0 .. Len(rows)] ==
            IF k = 0 THEN [cache |-> cache, panel |-> onto]
            ELSE RowDraw(upTo[k - 1], rows[k])
    IN  upTo
Drawn(rows, onto) == Drawing(rows, onto)[Len(rows)]
Blank == [r \in 1 .. Rows |-> Nothing]

(* list_repaint_partial: the rows a move has changed, if that is all there  *)
(* is.  painted is Nothing when the last paint was of something else.       *)
Never == [view |-> <<>>, sel |-> 0]
Moved == on /\ painted.view = view /\ painted.sel # sel
SufficesInWindow ==   \* mistake: whether the window has scrolled is not asked
    Moved /\ {painted.sel, sel} \subseteq Window
Suffices == Moved /\ Top(view, sel) = Top(view, painted.sel)

Paint(rows, onto) ==
    LET drawn == Drawn(rows, onto)
    IN  cache' = drawn.cache /\ panel' = drawn.panel

PaintFull ==
    /\ stage = "render" /\ on /\ dirty /\ ~Suffices
    /\ Paint([k \in 1 .. Lesser(Rows, Len(view)) |-> Top(view, sel) + k], Blank)
    /\ painted' = [view |-> view, sel |-> sel] /\ dirty' = FALSE /\ stage' = "chips"
    /\ UNCHANGED <<noart, retried, list>>

PaintPartial ==
    /\ stage = "render" /\ on /\ dirty /\ Suffices
    /\ Paint(<<painted.sel, sel>>, panel)
    /\ painted' = [view |-> view, sel |-> sel] /\ dirty' = FALSE /\ stage' = "chips"
    /\ UNCHANGED <<noart, retried, list>>

PaintTracks ==
    /\ stage = "render" /\ ~on /\ dirty
    /\ panel' = Blank /\ painted' = Never /\ dirty' = FALSE /\ stage' = "chips"
    /\ UNCHANGED <<art, list>>

(* Nothing to paint, or too soon after the last present while playing.      *)
NoPaint ==
    /\ stage = "render" /\ stage' = "chips"
    /\ UNCHANGED <<art, list, dirty, screen>>

-----------------------------------------------------------------------------
(* artcache_pump: the oldest request; only a cover that appears in a row    *)
(* asks for a repaint.                                                      *)
Oldest == cache[CHOOSE i \in DOMAIN cache :
                    ~cache[i].loaded /\ \A j \in 1 .. i - 1 : cache[j].loaded].key

PumpLoads(a) ==
    /\ "ok" \in Loads(a)
    /\ cache' = [i \in DOMAIN cache |->
                    IF cache[i].key = a THEN [cache[i] EXCEPT !.loaded = TRUE] ELSE cache[i]]
    /\ dirty' = (dirty \/ a \in Visible)
    /\ UNCHANGED <<noart, retried>>

(* A read error is retried once, after the next paint.                      *)
PumpRetriesForEver(a) ==   \* mistake: the first error is not remembered
    /\ "error" \in Loads(a)
    /\ cache' = Without(cache, a)
    /\ UNCHANGED <<noart, retried, dirty>>
PumpRetries(a) ==
    /\ "error" \in Loads(a) /\ a \notin retried
    /\ retried' = retried \cup {a} /\ cache' = Without(cache, a)
    /\ UNCHANGED <<noart, dirty>>

PumpGivesUp(a) ==
    /\ "none" \in Loads(a) \/ ("error" \in Loads(a) /\ a \in retried)
    /\ noart' = noart \cup {a} /\ cache' = Without(cache, a)
    /\ UNCHANGED <<retried, dirty>>

LoadCover ==
    /\ stage = "chips" /\ on /\ Queued(cache) # {}
    /\ PumpLoads(Oldest) \/ PumpRetries(Oldest) \/ PumpGivesUp(Oldest)
    /\ UNCHANGED <<list, screen, stage>>

(* Three a pass or six, and none within 60 ms of the last while playing.    *)
PumpsDone ==
    /\ stage = "chips" /\ stage' = "input"
    /\ UNCHANGED <<art, list, dirty, screen>>

-----------------------------------------------------------------------------
(* The input of a pass. *)
ReadsInput == stage = "input" /\ stage' = "render"

Untouched == ReadsInput /\ UNCHANGED <<art, list, dirty, screen>>

Wheel(to) ==
    /\ ReadsInput /\ on /\ to \in DOMAIN view
    /\ sel' = to /\ dirty' = TRUE
    /\ UNCHANGED <<art, view, on, screen>>

EnterAlbum ==
    /\ ReadsInput /\ on /\ view[sel] # AllSongs
    /\ on' = FALSE /\ dirty' = TRUE
    /\ UNCHANGED <<art, view, sel, screen>>

BackToList ==
    /\ ReadsInput /\ ~on
    /\ on' = TRUE /\ dirty' = TRUE
    /\ UNCHANGED <<art, view, sel, screen>>

(* By the menus to another artist, or all: g_list_epoch moves on.           *)
OpenList(v) ==
    /\ ReadsInput
    /\ view' = v /\ sel' = 1 /\ on' = TRUE /\ dirty' = TRUE /\ painted' = Never
    /\ UNCHANGED <<art, panel>>

(* The track or its state changes, Hold is flipped, the panel wakes.        *)
Refresh ==
    /\ ReadsInput
    /\ dirty' = TRUE /\ painted' = Never
    /\ UNCHANGED <<art, list, panel>>

ListInit ==
    /\ cache = <<>> /\ noart = {} /\ retried = {}
    /\ view \in Views /\ sel = 1 /\ on = TRUE
    /\ dirty = TRUE /\ panel = Blank /\ painted = Never /\ stage = "render"

User == \/ EnterAlbum \/ BackToList \/ Refresh
        \/ \E i \in DOMAIN view : Wheel(i)
        \/ \E v \in Views : OpenList(v)
Paints == PaintFull \/ PaintPartial \/ PaintTracks
Idles == Untouched \/ NoPaint \/ PumpsDone

ListNext == User \/ Paints \/ Idles \/ LoadCover

(* The loop never stops; a repaint is put off by 150 ms at most, so one is  *)
(* always followed by a moment when none is due; a cover is loaded at least *)
(* every 60 ms.                                                             *)
Repaints == []<>~dirty
ListSpec == ListInit /\ [][ListNext]_listVars /\ WF_listVars(Idles) /\ SF_listVars(LoadCover) /\ Repaints

-----------------------------------------------------------------------------
(* Every row of a list that is not waiting for a repaint shows its own      *)
(* album, its own cover or none, and the bar is on the selected row alone,  *)
(* after any mixture of whole and two-row repaints; an album is given up    *)
(* only for want of a cover or after two failed reads, and has no way then. *)
ListSound ==
    /\ Len(cache) <= Ways /\ Len(cache) = Cardinality(Keys(cache))
    /\ on /\ ~dirty => \A i \in Window :
           LET row == panel[i - Top(view, sel)]
           IN  row # Nothing /\ row.item = view[i] /\ (row.lit <=> i = sel)
    /\ \A a \in noart :
           a \notin Keys(cache) /\ (a \in retried \/ Good \notin {Thm[a], Art[a]})

(* artcache.c: "a visible row can never be the victim": a repaint leaves    *)
(* the covers of all rows on the screen where they are, also those it does  *)
(* not draw itself.                                                         *)
VisibleKept ==
    [][PaintFull \/ PaintPartial => Visible \cap Keys(cache) \subseteq Keys(cache')]_listVars

(* A row that stays on the screen gets its cover, or is given up: it never  *)
(* waits for ever behind rows that come and go, nor behind one that cannot  *)
(* be read.  Only a read that has failed may keep it waiting, until the     *)
(* next repaint.                                                            *)
Settled(a) == a \in Loaded(cache) \/ a \in noart \/ ~HasSidecar(a)
Resolves ==
    \A a \in Watched : []<>(~OnScreen(a) \/ Settled(a) \/ a \in retried)

(* list_repaint_partial is to return 0 "when that isn't provably            *)
(* sufficient (different screen, scrolled window, changed contents or       *)
(* chrome)": a cover that has appeared is shown by the next repaint.        *)
CoversShown ==
    on /\ ~dirty => \A i \in Window :
        view[i] \in Loaded(cache) => panel[i - Top(view, sel)].cover
=============================================================================
