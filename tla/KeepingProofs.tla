---------------------------- MODULE KeepingProofs ----------------------------
(***************************************************************************)
(* That what is given to keep is kept: the fit store its fits, for any      *)
(* fits and any number of commands at it, killed anywhere (FitStore), and   *)
(* the settings theirs, with nothing astray, for any environment, places    *)
(* and any number of processes (Locations), both as parts of MCLocalStores. *)
(*                                                                         *)
(* StoreInv and SetInv are the inductive invariants; StoreNext and SetNext  *)
(* say that every step keeps them, StoreHolds and SetHolds what they imply. *)
(* Before SetInv comes what decides where a place is, and that a record     *)
(* finds what it names.                                                     *)
(***************************************************************************)
EXTENDS MCLocalStores, FiniteSetTheorems, SequenceTheorems, WellFoundedInduction, TLAPS

-----------------------------------------------------------------------------
(* The fit store (FitStore).                                               *)

data == v1
side == v2
index == v3
proc == v4
put == v6
torn == v7
overlap == v8

FitNames == {"copy", "new"}
Listing == [Fits -> FitNames \cup {"no", "inplace"}]
Working == [does : {"off", "put", "index", "file", "retag", "reindex"},
            pc : {"end", "data", "side", "append", "write", "scan", "pick", "move", "moveside", "restate"},
            list : Listing \cup {<<>>}, fit : Fits \cup {<<>>}, to : FitNames, alone : BOOLEAN]

StoreTypes ==
  /\ data \subseteq Fits \X FitNames /\ side \in [Fits \X FitNames -> FitNames \cup {"no"}]
  /\ index \in Listing /\ proc \in [Fitters -> Working]
  /\ put \subseteq Fits /\ torn \subseteq Fits
  /\ overlap \in {"none", "index", "files"}

\* What a command works with at each place of its code.
Shaped ==
  \A p \in Fitters :
    LET c == proc[p]
    IN  /\ c.pc = "end" \/ c.does = "off" => c = Store!Off
        /\ c.pc \in {"data", "side"} => c.does \in {"put", "file"}
        /\ c.pc = "append" => c.does = "put"
        /\ c.pc = "scan" => c.does = "reindex"
        /\ c.pc = "pick" => c.does \in {"file", "retag"}
        /\ c.pc \in {"move", "moveside", "restate"} => c.does = "retag"
        /\ c.pc \in {"data", "side", "append", "move", "moveside", "restate"} => c.fit \in Fits
        /\ c.pc = "write" => c.does \in {"index", "file", "retag", "reindex"}
        /\ c.does \in {"index", "file", "retag", "reindex"} => c.list \in Listing /\ c.to = "new"

HasData(x) == \E t \in FitNames : <<x, t>> \in data
HasSide(x) == \E t \in FitNames : side[<<x, t>>] # "no"

\* A command that has put a fit's data leaves it with data, and so on.
Kept ==
  /\ \A x \in put : HasData(x) /\ HasSide(x)
  /\ \A p \in Fitters : /\ proc[p].pc \in {"side", "append"} => HasData(proc[p].fit)
                        /\ proc[p].pc = "append" => HasSide(proc[p].fit)

\* Between the two moves of a retag.
Mid(p, x) == proc[p].pc \in {"moveside", "restate"} /\ proc[p].fit = x
InMove(x) == \E p \in Fitters : Mid(p, x)

\* Unless files raced: a retag works alone; a fit is torn with its data moved;
\* sidecars and the index are beside data; what a retag has moved is where
\* its list says.
RetagAlone == \A p, q \in Fitters : proc[p].does = "retag" /\ proc[q].pc # "end" => p = q
SideTrue ==
  \A x \in Fits \ torn, t \in FitNames :
    ~InMove(x) /\ side[<<x, t>>] # "no" => <<x, t>> \in data /\ side[<<x, t>>] = t
NoRetag == \A p \in Fitters : proc[p].does # "retag"
CopiesTrue ==
  /\ NoRetag => \A x \in Fits \ torn : index[x] = "copy" => <<x, "copy">> \in data
  /\ \A p \in Fitters : proc[p].does \in {"file", "index", "reindex"} =>
       \A x \in Fits \ torn : proc[p].list[x] = "copy" => <<x, "copy">> \in data
WritesTrue == \A p \in Fitters : proc[p].pc \in {"side", "append"} => <<proc[p].fit, proc[p].to>> \in data
RetagTrue ==
  \A p \in Fitters : proc[p].does = "retag" =>
    /\ \A x \in Fits :
         /\ proc[p].list[x] = "copy" =>
              /\ index[x] = "copy" /\ x \notin torn
              /\ Mid(p, x) \/ (<<x, "copy">> \in data /\ <<x, "new">> \notin data)
         /\ proc[p].list[x] # "copy" =>
              \/ index[x] = proc[p].list[x]
              \/ index[x] = "copy" /\ proc[p].list[x] = "new" /\ <<x, "new">> \in data
    /\ proc[p].pc \in {"move", "moveside", "restate"} => proc[p].list[proc[p].fit] = "copy"
    /\ proc[p].pc \in {"moveside", "restate"} => <<proc[p].fit, "new">> \in data
    /\ proc[p].pc = "moveside" => side[<<proc[p].fit, "new">>] = "no"
    /\ proc[p].pc = "restate" => side[<<proc[p].fit, "copy">>] = "no"
TornMoved == \A x \in torn : <<x, "new">> \in data
Unraced == RetagAlone /\ SideTrue /\ CopiesTrue /\ WritesTrue /\ RetagTrue /\ TornMoved

\* The index, or a list that will be the index, has a fit where its data is.
Finds(list, x) == list[x] \in FitNames /\ <<x, list[x]>> \in data

\* Unless commands overlapped, index and lists find every fit that was put;
\* so does the list of a reindex that works alone.
Single ==
  /\ overlap = "none" => \A p, q \in Fitters : proc[p].pc # "end" /\ proc[q].pc # "end" => p = q
  /\ \A p, q \in Fitters : proc[p].pc # "end" /\ proc[p].alone /\ proc[q].pc # "end" => p = q
ListsFind ==
  /\ overlap = "none" =>
       /\ NoRetag => \A x \in put \ torn : Finds(index, x)
       /\ \A p \in Fitters :
            proc[p].does \in {"index", "file", "retag", "reindex"} /\ proc[p].pc # "scan" =>
              \A x \in put \ torn : Finds(proc[p].list, x) \/ Mid(p, x)
  /\ overlap # "files" =>
       \A p \in Fitters : proc[p].does = "reindex" /\ proc[p].alone /\ proc[p].pc = "write" =>
         \A x \in put \ torn : Finds(proc[p].list, x)

StoreInv == /\ StoreTypes /\ Shaped /\ Kept
            /\ overlap # "files" => Unraced
            /\ Single /\ ListsFind

LEMMA StoreNames == Store!Names = FitNames
  BY DEF Store!Names, FitNames

LEMMA StoreInit == Store!Init => StoreInv
  <1> SUFFICES ASSUME Store!Init
               PROVE  StoreInv
    OBVIOUS
  <1>1. /\ data = {} /\ side = [x \in Fits \X FitNames |-> "no"] /\ index = [x \in Fits |-> "no"]
        /\ proc = [p \in Fitters |-> Store!Off] /\ put = {} /\ torn = {} /\ overlap = "none"
    BY StoreNames DEF Store!Init, data, side, index, proc, put, torn, overlap
  <1>2. /\ Store!Off \in Working /\ Store!Off.does = "off" /\ Store!Off.pc = "end"
        /\ \A p \in Fitters : proc[p] = Store!Off
    BY <1>1 DEF Store!Off, Working, FitNames
  <1>3. StoreTypes
    BY <1>1, <1>2 DEF StoreTypes, Listing, FitNames
  <1>4. Shaped /\ Kept
    BY <1>1, <1>2 DEF Shaped, Kept
  <1>5. \A x : ~InMove(x)
    BY <1>2 DEF InMove, Mid
  <1>6. Unraced
    BY <1>1, <1>2, <1>5 DEF Unraced, RetagAlone, SideTrue, CopiesTrue, WritesTrue, RetagTrue, TornMoved
  <1>7. Single /\ ListsFind
    BY <1>1, <1>2 DEF Single, ListsFind
  <1>8. QED
    BY <1>3, <1>4, <1>6, <1>7 DEF StoreInv

\* A command that takes a step: the others stay as they are.
LEMMA OthersStay ==
  ASSUME NEW p \in Fitters, NEW c, proc \in [Fitters -> Working], proc' = [proc EXCEPT ![p] = c]
  PROVE  proc'[p] = c /\ \A q \in Fitters : q # p => proc'[q] = proc[q]
  OBVIOUS

\* A command starts.
LEMMA StoreBegins ==
  ASSUME StoreInv, NEW p \in Fitters, NEW does \in {"put", "index", "file", "retag", "reindex"},
         NEW fit \in Fits \cup {<<>>}, NEW to \in FitNames, NEW list \in Listing \cup {<<>>},
         does = "put" => fit \in Fits,
         does # "put" => list \in Listing /\ to = "new",
         does # "put" => \A x \in Fits : list[x] = "copy" => index[x] = "copy",
         does \in {"index", "file", "retag"} => \A x \in Fits : index[x] \in FitNames => list[x] = index[x],
         does = "retag" => list = index /\ \A x \in Fits : index[x] = "copy" => <<x, "new">> \notin data, Store!Begin(p, does, fit, to, list)
  PROVE  StoreInv'
  <1>i. StoreTypes /\ Shaped /\ Kept /\ Single /\ ListsFind /\ (overlap # "files" => Unraced)
    BY DEF StoreInv
  <1>1. /\ UNCHANGED <<data, side, index, put, torn>>
        /\ proc[p].pc = "end"
        /\ proc'[p] = [does |-> does, list |-> list, fit |-> fit, to |-> to,
                       alone |-> \A q \in Fitters : proc[q].pc = "end",
                       pc |-> CASE does = "put" -> "data" [] does = "index" -> "write"
                                [] does = "reindex" -> "scan" [] OTHER -> "pick"]
        /\ \A q \in Fitters \ {p} :
             /\ proc'[q] \in Working
             /\ proc[q].pc = "end" => proc'[q] = proc[q]
             /\ proc[q].pc # "end" => ~proc'[q].alone
             /\ proc'[q].does = proc[q].does /\ proc'[q].pc = proc[q].pc /\ proc'[q].list = proc[q].list
             /\ proc'[q].fit = proc[q].fit /\ proc'[q].to = proc[q].to
        /\ overlap' \in {"none", "index", "files"}
        /\ overlap' = "none" => overlap = "none" /\ \A q \in Fitters : proc[q].pc = "end"
        /\ overlap' # "files" => /\ overlap # "files"
                                 /\ \A q \in Fitters : proc[q].pc # "end" => does # "retag" /\ proc[q].does # "retag"
        /\ proc' \in [Fitters -> Working]
    <2>1. \A q \in Fitters : proc[q] # Store!Off <=> proc[q].pc # "end"
      BY <1>i DEF Shaped, Store!Off
    <2> DEFINE others == {q \in Fitters : proc[q] # Store!Off}
               new == [does |-> does, list |-> list, fit |-> fit, to |-> to, alone |-> others = {},
                       pc |-> CASE does = "put" -> "data" [] does = "index" -> "write"
                                [] does = "reindex" -> "scan" [] OTHER -> "pick"]
    <2>2. /\ UNCHANGED <<data, side, index, put, torn>> /\ proc[p] = Store!Off
          /\ proc' = [q \in Fitters |-> IF q = p THEN new
                        ELSE IF proc[q] = Store!Off THEN Store!Off ELSE [proc[q] EXCEPT !.alone = FALSE]]
          /\ overlap' =
               IF others = {} \/ overlap = "files" THEN overlap
               ELSE IF "retag" \in {does} \cup {proc[q].does : q \in others} THEN "files" ELSE "index"
      BY DEF Store!Begin, data, side, index, proc, put, torn, overlap
    <2>3. others = {} <=> \A q \in Fitters : proc[q].pc = "end"
      BY <2>1
    <2>4. overlap \in {"none", "index", "files"} /\ \A q \in Fitters : proc[q] \in Working
      BY <1>i DEF StoreTypes
    <2>5. \A q \in Fitters \ {p} : proc[q] # Store!Off => proc'[q] = [proc[q] EXCEPT !.alone = FALSE]
      BY <2>2
    <2>6. \A q \in Fitters \ {p} : proc[q] = Store!Off => proc'[q] = proc[q]
      BY <2>2
    <2>7. ASSUME NEW q \in Fitters \ {p}, proc[q] # Store!Off
          PROVE  /\ proc'[q] \in Working /\ ~proc'[q].alone
                 /\ proc'[q].does = proc[q].does /\ proc'[q].pc = proc[q].pc
                 /\ proc'[q].list = proc[q].list
                 /\ proc'[q].fit = proc[q].fit /\ proc'[q].to = proc[q].to
      <3>1. proc[q] \in Working /\ proc'[q] = [proc[q] EXCEPT !.alone = FALSE]
        BY <2>4, <2>5, <2>7
      <3>2. ASSUME NEW c \in Working, NEW d, d = [c EXCEPT !.alone = FALSE]
            PROVE  /\ d \in Working /\ ~d.alone /\ d.does = c.does /\ d.pc = c.pc /\ d.list = c.list
                   /\ d.fit = c.fit /\ d.to = c.to
        BY <3>2 DEF Working
      <3>3. QED
        BY <3>1, <3>2
    <2>8. proc'[p] = new
      BY <2>2
    <2>9. new \in Working
      BY DEF Working
    <2>10. proc' \in [Fitters -> Working]
      <3>1. DOMAIN proc' = Fitters
        BY <2>2
      <3>2. \A q \in Fitters : proc'[q] \in Working
        BY <2>4, <2>6, <2>7, <2>8, <2>9
      <3>3. proc' = [q \in Fitters |-> proc'[q]]
        BY <2>2
      <3>4. QED
        BY <3>2, <3>3
    <2>11. /\ overlap' \in {"none", "index", "files"}
           /\ overlap' = "none" => overlap = "none" /\ others = {}
           /\ overlap' # "files" => /\ overlap # "files"
                                    /\ \A q \in others : does # "retag" /\ proc[q].does # "retag"
      BY <2>2, <2>4
    <2>12. proc[p].pc = "end"
      BY <2>1, <2>2
    <2>13. ASSUME NEW q \in Fitters \ {p}
           PROVE  /\ proc'[q] \in Working
                  /\ proc[q].pc = "end" => proc'[q] = proc[q]
                  /\ proc[q].pc # "end" => ~proc'[q].alone
                  /\ proc'[q].does = proc[q].does /\ proc'[q].pc = proc[q].pc
                  /\ proc'[q].list = proc[q].list
                  /\ proc'[q].fit = proc[q].fit /\ proc'[q].to = proc[q].to
      <3>1. CASE proc[q] = Store!Off
        BY <2>1, <2>4, <2>6, <3>1
      <3>2. CASE proc[q] # Store!Off
        BY <2>1, <2>7, <3>2
      <3>3. QED
        BY <3>1, <3>2
    <2>14. \A q \in Fitters : proc[q].pc # "end" => q \in others
      BY <2>1
    <2> HIDE DEF others
    <2>15. new = [does |-> does, list |-> list, fit |-> fit, to |-> to,
                  alone |-> \A q \in Fitters : proc[q].pc = "end",
                  pc |-> CASE does = "put" -> "data" [] does = "index" -> "write"
                           [] does = "reindex" -> "scan" [] OTHER -> "pick"]
      BY <2>3
    <2> HIDE DEF new
    <2>16. QED
      BY <2>2, <2>3, <2>8, <2>10, <2>11, <2>12, <2>13, <2>14, <2>15
  <1>c. LET new == proc'[p]
        IN  /\ new.does = does /\ new.list = list /\ new.fit = fit /\ new.to = to
            /\ new.pc \in {"data", "write", "scan", "pick"} /\ new.pc # "end" /\ new.does # "off"
            /\ new.pc = "data" <=> does = "put"
            /\ new.pc = "write" <=> does = "index"
            /\ new.pc = "scan" <=> does = "reindex"
            /\ new.alone => \A q \in Fitters : proc[q].pc = "end"
    BY <1>1
  <1>2. (\A q \in Fitters : \A x : Mid(q, x)' <=> Mid(q, x)) /\ \A x : InMove(x)' <=> InMove(x)
    <2>1. \A q \in Fitters : ~(q = p) => proc'[q].pc = proc[q].pc /\ proc'[q].fit = proc[q].fit
      BY <1>1
    <2>2. \A q \in Fitters : \A x : Mid(q, x)' <=> Mid(q, x)
      BY <1>1, <1>c, <2>1 DEF Mid
    <2>3. QED
      BY <2>2 DEF InMove
  <1>n. overlap' # "files" => NoRetag
    BY <1>i, <1>1 DEF NoRetag, Shaped, Store!Off
  <1>m. \A x : (HasData(x) => HasData(x)') /\ (HasSide(x) => HasSide(x)')
    BY <1>1 DEF HasData, HasSide
  <1>3. StoreTypes'
    BY <1>i, <1>1 DEF StoreTypes
  <1>4. Shaped'
    <2>1. \A q \in Fitters \ {p} : proc'[q] = Store!Off <=> proc[q] = Store!Off
      BY <1>i, <1>1 DEF Shaped, Store!Off
    <2> SUFFICES ASSUME NEW q \in Fitters
                 PROVE  LET c == proc'[q]
                        IN  /\ c.pc = "end" \/ c.does = "off" => c = Store!Off
                            /\ c.pc \in {"data", "side"} => c.does \in {"put", "file"}
                            /\ c.pc = "append" => c.does = "put"
                            /\ c.pc = "scan" => c.does = "reindex"
                            /\ c.pc = "pick" => c.does \in {"file", "retag"}
                            /\ c.pc \in {"move", "moveside", "restate"} => c.does = "retag"
                            /\ c.pc \in {"data", "side", "append", "move", "moveside", "restate"} => c.fit \in Fits
                            /\ c.pc = "write" => c.does \in {"index", "file", "retag", "reindex"}
                            /\ c.does \in {"index", "file", "retag", "reindex"} => c.list \in Listing /\ c.to = "new"
      BY DEF Shaped
    <2>2. CASE q = p
      BY <1>c, <2>2
    <2>3. CASE q # p
      BY <1>i, <1>1, <2>1, <2>3 DEF Shaped
    <2>4. QED
      BY <2>2, <2>3
  <1>5. Kept'
    BY <1>i, <1>1, <1>m, <1>c, <1>m DEF Kept, Shaped
  <1>6. ASSUME overlap' # "files" PROVE Unraced'
    <2>u. Unraced
      BY <1>i, <1>1, <1>6
    <2>1. RetagAlone'
      BY <1>i, <1>1, <1>2, <1>6, <2>u, <1>c DEF Unraced, RetagAlone, Shaped, Store!Off
    <2>2. SideTrue'
      BY <1>i, <1>1, <1>2, <1>6, <2>u DEF Unraced, SideTrue
    <2>3. CopiesTrue'
      <3>1. \A x \in Fits \ torn : index[x] = "copy" => <<x, "copy">> \in data
        BY <1>n, <1>1, <1>6, <2>u DEF Unraced, CopiesTrue
      <3>2. \A x \in Fits \ torn : does # "put" /\ list[x] = "copy" => <<x, "copy">> \in data
        BY <3>1
      <3>3. \A q \in Fitters \ {p} : proc'[q].does \in {"file", "index", "reindex"} =>
              \A x \in Fits \ torn : proc'[q].list[x] = "copy" => <<x, "copy">> \in data
        BY <1>1, <1>6, <2>u DEF Unraced, CopiesTrue
      <3>4. QED
        BY <1>1, <1>c, <3>1, <3>2, <3>3 DEF CopiesTrue
    <2>4. WritesTrue'
      BY <1>i, <1>1, <1>2, <1>6, <2>u, <1>c DEF Unraced, WritesTrue
    <2>5. RetagTrue'
      <3>1. \A q \in Fitters \ {p} : proc'[q].does = "retag" => overlap' # "files" /\ proc[q].does = "retag" /\ proc[q].pc # "end"
        BY <1>i, <1>1, <1>6 DEF Shaped, Store!Off
      <3>2. \A q \in Fitters \ {p} : proc'[q].does # "retag"
        BY <1>1, <1>6, <3>1
      <3>3. does = "retag" => \A q \in Fitters : proc[q].pc = "end"
        BY <1>1, <1>6
      <3>4. does = "retag" => NoRetag
        BY <1>i, <3>3 DEF NoRetag, Shaped, Store!Off
      <3>5. does = "retag" => \A x \in Fits : list[x] = "copy" =>
              index[x] = "copy" /\ <<x, "new">> \notin data /\ x \notin torn /\ <<x, "copy">> \in data
        BY <2>u, <3>4 DEF Unraced, TornMoved, CopiesTrue
      <3>6. QED
        BY <1>1, <1>c, <3>2, <3>5 DEF RetagTrue
    <2>6. TornMoved'
      BY <1>i, <1>1, <1>2, <1>6, <2>u DEF Unraced, TornMoved
    <2>7. QED
      BY <2>1, <2>2, <2>3, <2>4, <2>5, <2>6 DEF Unraced
  <1>7. Single'
    BY <1>i, <1>1, <1>c DEF Single, Shaped, Store!Off
  <1>8. ListsFind'
    <2>1. overlap' = "none" => overlap = "none" /\ NoRetag /\ \A q \in Fitters \ {p} : proc'[q].does = "off"
      BY <1>i, <1>1 DEF NoRetag, Shaped, Store!Off
    <2>2. overlap' = "none" => \A x \in put \ torn : Finds(index, x)
      BY <1>i, <2>1 DEF ListsFind
    <2>3. put \subseteq Fits /\ \A x \in put \ torn : Finds(index, x) /\ list[x] = index[x] => Finds(list, x)
      BY <1>i DEF StoreTypes, Finds
    <2>4. overlap' = "none" /\ does \in {"index", "file", "retag"} => \A x \in put \ torn : Finds(list, x)
      BY <2>2, <2>3 DEF Finds
    <2>5. \A q \in Fitters : proc'[q].does = "reindex" /\ proc'[q].alone => proc'[q].pc # "write"
      BY <1>i, <1>1, <1>c DEF Shaped, Store!Off
    <2>6. \A l, x : Finds(l, x)' <=> l[x] \in FitNames /\ <<x, l[x]>> \in data
      BY <1>1 DEF Finds
    <2>7. overlap' = "none" => \A x \in put' \ torn' : Finds(index, x)'
      BY <1>1, <2>2 DEF Finds
    <2>8. overlap' = "none" => \A q \in Fitters :
            proc'[q].does \in {"index", "file", "retag", "reindex"} /\ proc'[q].pc # "scan" =>
              \A x \in put' \ torn' : Finds(proc[q].list, x)'
      <3>1. overlap' = "none" /\ does \in {"index", "file", "retag"} => \A x \in put' \ torn' : Finds(proc[p].list, x)'
        BY <1>1, <1>c, <2>4 DEF Finds
      <3>2. QED
        BY <1>c, <2>1, <3>1
    <2>9. QED
      BY <2>5, <2>7, <2>8 DEF ListsFind
  <1>9. QED
    BY <1>3, <1>4, <1>5, <1>6, <1>7, <1>8 DEF StoreInv

\* A fit's data is written.
LEMMA StoreData ==
  ASSUME StoreInv, NEW p \in Fitters, Store!Data(p)
  PROVE  StoreInv'
  <1>i. StoreTypes /\ Shaped /\ Kept /\ Single /\ ListsFind /\ (overlap # "files" => Unraced)
    BY DEF StoreInv
  <1>1. /\ proc[p].pc = "data" /\ <<proc[p].fit, proc[p].to>> \in Fits \X FitNames /\ UNCHANGED <<side, index, put, torn, overlap>> /\ data' = data \cup {<<proc[p].fit, proc[p].to>>}
        /\ proc' \in [Fitters -> Working] /\ \A q \in Fitters : q # p => proc'[q] = proc[q]
        /\ proc'[p].does = proc[p].does /\ proc'[p].pc = "side" /\ proc'[p].list = proc[p].list
        /\ proc'[p].fit = proc[p].fit /\ proc'[p].to = proc[p].to /\ proc'[p].alone = proc[p].alone
    <2>1. /\ proc[p].pc = "data" /\ <<proc[p].fit, proc[p].to>> \in Fits \X FitNames /\ UNCHANGED <<side, index, put, torn, overlap>> /\ data' = data \cup {<<proc[p].fit, proc[p].to>>}
          /\ proc' = [proc EXCEPT ![p].pc = "side"]
      BY <1>i DEF Store!Data, Store!At, Store!Goto, Shaped, StoreTypes, Working, data, side, index, proc, put, torn, overlap
    <2>2. proc \in [Fitters -> Working] /\ proc[p] \in Working
      BY <1>i DEF StoreTypes
    <2> DEFINE new == [proc[p] EXCEPT !.pc = "side"]
    <2>3. new \in Working
      BY <1>i, <2>1, <2>2 DEF Working, Shaped
    <2>4. proc' = [proc EXCEPT ![p] = new]
      BY <2>1, <2>2
    <2>5. proc'[p] = new /\ proc' \in [Fitters -> Working]
      BY <2>2, <2>3, <2>4
    <2>6. QED
      BY <2>1, <2>2, <2>4, <2>5 DEF Working
  <1>2. (\A q \in Fitters : \A x : Mid(q, x)' <=> Mid(q, x)) /\ \A x : InMove(x)' <=> InMove(x)
    <2>1. \A q \in Fitters : \A x : Mid(q, x)' <=> Mid(q, x)
      BY <1>1 DEF Mid
    <2>2. QED
      BY <2>1 DEF InMove
  <1>m. \A x : (HasData(x) => HasData(x)') /\ (HasSide(x) => HasSide(x)')
    BY <1>1 DEF HasData, HasSide
  <1>n. overlap' # "files" => NoRetag /\ NoRetag'
    <2>1. proc[p].does # "retag" /\ proc[p].pc # "end" /\ proc'[p].does # "retag"
      BY <1>i, <1>1 DEF Shaped, Store!Off
    <2>2. QED
      BY <1>i, <1>1, <2>1 DEF NoRetag, Unraced, RetagAlone
  <1>3. StoreTypes'
    BY <1>i, <1>1 DEF StoreTypes, Shaped
  <1>4. Shaped'
    BY <1>i, <1>1 DEF Shaped
  <1>5. Kept'
    <2>1. HasData(proc[p].fit)'
      BY <1>1 DEF HasData
    <2>2. QED
      BY <1>i, <1>1, <1>m, <2>1 DEF Kept, Shaped
  <1>6. ASSUME overlap' # "files" PROVE Unraced'
    <2>u. Unraced
      BY <1>i, <1>1, <1>6
    <2>1. RetagAlone'
      BY <1>i, <1>1, <1>2, <1>6, <2>u, <1>n DEF Unraced, RetagAlone, NoRetag
    <2>2. SideTrue'
      BY <1>i, <1>1, <1>2, <1>6, <2>u DEF Unraced, SideTrue
    <2>3. CopiesTrue'
      BY <1>i, <1>1, <1>2, <1>6, <2>u, <1>n DEF Unraced, CopiesTrue, NoRetag
    <2>4. WritesTrue'
      BY <1>i, <1>1, <1>2, <1>6, <2>u DEF Unraced, WritesTrue
    <2>5. RetagTrue'
      BY <1>n, <1>6 DEF RetagTrue, NoRetag
    <2>6. TornMoved'
      BY <1>i, <1>1, <1>2, <1>6, <2>u DEF Unraced, TornMoved
    <2>7. QED
      BY <2>1, <2>2, <2>3, <2>4, <2>5, <2>6 DEF Unraced
  <1>7. Single'
    BY <1>i, <1>1 DEF Single
  <1>8. ListsFind'
    BY <1>i, <1>1, <1>2 DEF ListsFind, Finds, NoRetag
  <1>9. QED
    BY <1>3, <1>4, <1>5, <1>6, <1>7, <1>8 DEF StoreInv

\* A sidecar is written beside a fit that is put.
LEMMA StoreSidePut ==
  ASSUME StoreInv, NEW p \in Fitters, Store!Side(p), proc[p].does = "put"
  PROVE  StoreInv'
  <1>i. StoreTypes /\ Shaped /\ Kept /\ Single /\ ListsFind /\ (overlap # "files" => Unraced)
    BY DEF StoreInv
  <1>1. /\ proc[p].pc = "side" /\ proc[p].does = "put" /\ proc[p].fit \in Fits /\ proc[p].to \in FitNames /\ UNCHANGED <<data, index, put, torn, overlap>> /\ side' = [side EXCEPT ![<<proc[p].fit, proc[p].to>>] = proc[p].to]
        /\ proc' \in [Fitters -> Working] /\ \A q \in Fitters : q # p => proc'[q] = proc[q]
        /\ proc'[p].does = proc[p].does /\ proc'[p].pc = "append" /\ proc'[p].list = proc[p].list
        /\ proc'[p].fit = proc[p].fit /\ proc'[p].to = proc[p].to /\ proc'[p].alone = proc[p].alone
    <2>1. /\ proc[p].pc = "side" /\ proc[p].does = "put" /\ proc[p].fit \in Fits /\ proc[p].to \in FitNames /\ UNCHANGED <<data, index, put, torn, overlap>> /\ side' = [side EXCEPT ![<<proc[p].fit, proc[p].to>>] = proc[p].to]
          /\ proc' = [proc EXCEPT ![p].pc = "append"]
      BY <1>i DEF Store!Side, Store!Listed, Store!At, Store!Goto, Shaped, StoreTypes, Working, data, side, index, proc, put, torn, overlap
    <2>2. proc \in [Fitters -> Working] /\ proc[p] \in Working
      BY <1>i DEF StoreTypes
    <2> DEFINE new == [proc[p] EXCEPT !.pc = "append"]
    <2>3. new \in Working
      BY <1>i, <2>1, <2>2 DEF Working, Shaped
    <2>4. proc' = [proc EXCEPT ![p] = new]
      BY <2>1, <2>2
    <2>5. proc'[p] = new /\ proc' \in [Fitters -> Working]
      BY <2>2, <2>3, <2>4
    <2>6. QED
      BY <2>1, <2>2, <2>4, <2>5 DEF Working
  <1>2. (\A q \in Fitters : \A x : Mid(q, x)' <=> Mid(q, x)) /\ \A x : InMove(x)' <=> InMove(x)
    <2>1. \A q \in Fitters : \A x : Mid(q, x)' <=> Mid(q, x)
      BY <1>1 DEF Mid
    <2>2. QED
      BY <2>1 DEF InMove
  <1>s. /\ side' \in [Fits \X FitNames -> FitNames \cup {"no"}]
        /\ side'[<<proc[p].fit, proc[p].to>>] = proc[p].to
        /\ \A x \in Fits, t \in FitNames : <<x, t>> # <<proc[p].fit, proc[p].to>> => side'[<<x, t>>] = side[<<x, t>>]
        /\ "no" \notin FitNames
    BY <1>i, <1>1 DEF StoreTypes, FitNames
  <1>m. /\ \A x \in Fits : (HasData(x) => HasData(x)') /\ (HasSide(x) => HasSide(x)')
        /\ HasSide(proc[p].fit)'
    <2>1. \A x : HasData(x) => HasData(x)'
      BY <1>1 DEF HasData
    <2>2. HasSide(proc[p].fit)'
      BY <1>1, <1>s DEF HasSide
    <2>3. \A x \in Fits \ {proc[p].fit} : HasSide(x) => HasSide(x)'
      BY <1>1, <1>s DEF HasSide
    <2>4. QED
      BY <1>1, <2>1, <2>2, <2>3
  <1>n. overlap' # "files" => NoRetag /\ NoRetag'
    <2>1. proc[p].does # "retag" /\ proc[p].pc # "end" /\ proc'[p].does # "retag"
      BY <1>i, <1>1 DEF Shaped, Store!Off
    <2>2. QED
      BY <1>i, <1>1, <2>1 DEF NoRetag, Unraced, RetagAlone
  <1>3. StoreTypes'
    BY <1>i, <1>1, <1>s DEF StoreTypes
  <1>4. Shaped'
    BY <1>i, <1>1 DEF Shaped
  <1>5. Kept'
    BY <1>i, <1>1, <1>m DEF Kept, Shaped, StoreTypes
  <1>6. ASSUME overlap' # "files" PROVE Unraced'
    <2>u. Unraced
      BY <1>i, <1>1, <1>6
    <2>1. RetagAlone'
      BY <1>i, <1>1, <1>2, <1>6, <2>u, <1>n DEF Unraced, RetagAlone, NoRetag
    <2>2. SideTrue'
      <3>1. <<proc[p].fit, proc[p].to>> \in data
        BY <1>1, <2>u DEF Unraced, WritesTrue
      <3> SUFFICES ASSUME NEW x \in Fits \ torn, NEW t \in FitNames, ~InMove(x)', side'[<<x, t>>] # "no"
                   PROVE  <<x, t>> \in data /\ side'[<<x, t>>] = t
        BY <1>1 DEF SideTrue
      <3>2. CASE x = proc[p].fit /\ t = proc[p].to
        BY <1>s, <3>1, <3>2
      <3>3. CASE ~(x = proc[p].fit /\ t = proc[p].to)
        <4>1. side'[<<x, t>>] = side[<<x, t>>] /\ ~InMove(x)
          BY <1>2, <1>s, <3>3
        <4>2. QED
          BY <2>u, <4>1 DEF Unraced, SideTrue
      <3>4. QED
        BY <3>2, <3>3
    <2>3. CopiesTrue'
      BY <1>i, <1>1, <1>2, <1>6, <2>u, <1>n DEF Unraced, CopiesTrue, NoRetag
    <2>4. WritesTrue'
      BY <1>i, <1>1, <1>2, <1>6, <2>u DEF Unraced, WritesTrue
    <2>5. RetagTrue'
      BY <1>n, <1>6 DEF RetagTrue, NoRetag
    <2>6. TornMoved'
      BY <1>i, <1>1, <1>2, <1>6, <2>u DEF Unraced, TornMoved
    <2>7. QED
      BY <2>1, <2>2, <2>3, <2>4, <2>5, <2>6 DEF Unraced
  <1>7. Single'
    BY <1>i, <1>1 DEF Single
  <1>8. ListsFind'
    BY <1>i, <1>1, <1>2 DEF ListsFind, Finds, NoRetag
  <1>9. QED
    BY <1>3, <1>4, <1>5, <1>6, <1>7, <1>8 DEF StoreInv

\* A sidecar is written beside a fit that is filed.
LEMMA StoreSideFile ==
  ASSUME StoreInv, NEW p \in Fitters, Store!Side(p), proc[p].does # "put"
  PROVE  StoreInv'
  <1>i. StoreTypes /\ Shaped /\ Kept /\ Single /\ ListsFind /\ (overlap # "files" => Unraced)
    BY DEF StoreInv
  <1>1. /\ proc[p].pc = "side" /\ proc[p].does = "file" /\ proc[p].fit \in Fits /\ proc[p].to \in FitNames /\ proc[p].list \in Listing /\ [proc[p].list EXCEPT ![proc[p].fit] = proc[p].to] \in Listing /\ UNCHANGED <<data, index, put, torn, overlap>> /\ side' = [side EXCEPT ![<<proc[p].fit, proc[p].to>>] = proc[p].to]
        /\ proc' \in [Fitters -> Working] /\ \A q \in Fitters : q # p => proc'[q] = proc[q]
        /\ proc'[p].does = proc[p].does /\ proc'[p].pc = "pick" /\ proc'[p].list = [proc[p].list EXCEPT ![proc[p].fit] = proc[p].to]
        /\ proc'[p].fit = proc[p].fit /\ proc'[p].to = proc[p].to /\ proc'[p].alone = proc[p].alone
    <2>1. /\ proc[p].pc = "side" /\ proc[p].does = "file" /\ proc[p].fit \in Fits /\ proc[p].to \in FitNames /\ proc[p].list \in Listing /\ [proc[p].list EXCEPT ![proc[p].fit] = proc[p].to] \in Listing /\ UNCHANGED <<data, index, put, torn, overlap>> /\ side' = [side EXCEPT ![<<proc[p].fit, proc[p].to>>] = proc[p].to]
          /\ proc' = [proc EXCEPT ![p].pc = "pick", ![p].list = [proc[p].list EXCEPT ![proc[p].fit] = proc[p].to]]
      BY <1>i DEF Store!Side, Store!Listed, Listing, FitNames, Store!At, Store!Goto, Shaped, StoreTypes, Working, data, side, index, proc, put, torn, overlap
    <2>2. proc \in [Fitters -> Working] /\ proc[p] \in Working
      BY <1>i DEF StoreTypes
    <2> DEFINE new == [proc[p] EXCEPT !.pc = "pick", !.list = [proc[p].list EXCEPT ![proc[p].fit] = proc[p].to]]
    <2>3. new \in Working
      BY <1>i, <2>1, <2>2 DEF Working, Shaped
    <2>4. proc' = [proc EXCEPT ![p] = new]
      BY <2>1, <2>2
    <2>5. proc'[p] = new /\ proc' \in [Fitters -> Working]
      BY <2>2, <2>3, <2>4
    <2>6. QED
      BY <2>1, <2>2, <2>4, <2>5 DEF Working
  <1>2. (\A q \in Fitters : \A x : Mid(q, x)' <=> Mid(q, x)) /\ \A x : InMove(x)' <=> InMove(x)
    <2>1. \A q \in Fitters : \A x : Mid(q, x)' <=> Mid(q, x)
      BY <1>1 DEF Mid
    <2>2. QED
      BY <2>1 DEF InMove
  <1>s. /\ side' \in [Fits \X FitNames -> FitNames \cup {"no"}]
        /\ side'[<<proc[p].fit, proc[p].to>>] = proc[p].to
        /\ \A x \in Fits, t \in FitNames : <<x, t>> # <<proc[p].fit, proc[p].to>> => side'[<<x, t>>] = side[<<x, t>>]
        /\ "no" \notin FitNames
    BY <1>i, <1>1 DEF StoreTypes, FitNames
  <1>m. /\ \A x \in Fits : (HasData(x) => HasData(x)') /\ (HasSide(x) => HasSide(x)')
        /\ HasSide(proc[p].fit)'
    <2>1. \A x : HasData(x) => HasData(x)'
      BY <1>1 DEF HasData
    <2>2. HasSide(proc[p].fit)'
      BY <1>1, <1>s DEF HasSide
    <2>3. \A x \in Fits \ {proc[p].fit} : HasSide(x) => HasSide(x)'
      BY <1>1, <1>s DEF HasSide
    <2>4. QED
      BY <1>1, <2>1, <2>2, <2>3
  <1>l. /\ proc'[p].list \in Listing /\ proc'[p].list[proc[p].fit] = "new" /\ proc[p].to = "new"
        /\ \A x \in Fits : x # proc[p].fit => proc'[p].list[x] = proc[p].list[x]
        /\ proc[p].list \in Listing /\ put \subseteq Fits
    BY <1>i, <1>1 DEF Listing, Shaped, StoreTypes
  <1>n. overlap' # "files" => NoRetag /\ NoRetag'
    <2>1. proc[p].does # "retag" /\ proc[p].pc # "end" /\ proc'[p].does # "retag"
      BY <1>i, <1>1 DEF Shaped, Store!Off
    <2>2. QED
      BY <1>i, <1>1, <2>1 DEF NoRetag, Unraced, RetagAlone
  <1>3. StoreTypes'
    BY <1>i, <1>1, <1>s DEF StoreTypes
  <1>4. Shaped'
    BY <1>i, <1>1, <1>l DEF Shaped
  <1>5. Kept'
    BY <1>i, <1>1, <1>m DEF Kept, Shaped, StoreTypes
  <1>6. ASSUME overlap' # "files" PROVE Unraced'
    <2>u. Unraced
      BY <1>i, <1>1, <1>6
    <2>1. RetagAlone'
      BY <1>i, <1>1, <1>2, <1>6, <2>u, <1>n DEF Unraced, RetagAlone, NoRetag
    <2>2. SideTrue'
      <3>1. <<proc[p].fit, proc[p].to>> \in data
        BY <1>1, <2>u DEF Unraced, WritesTrue
      <3> SUFFICES ASSUME NEW x \in Fits \ torn, NEW t \in FitNames, ~InMove(x)', side'[<<x, t>>] # "no"
                   PROVE  <<x, t>> \in data /\ side'[<<x, t>>] = t
        BY <1>1 DEF SideTrue
      <3>2. CASE x = proc[p].fit /\ t = proc[p].to
        BY <1>s, <3>1, <3>2
      <3>3. CASE ~(x = proc[p].fit /\ t = proc[p].to)
        <4>1. side'[<<x, t>>] = side[<<x, t>>] /\ ~InMove(x)
          BY <1>2, <1>s, <3>3
        <4>2. QED
          BY <2>u, <4>1 DEF Unraced, SideTrue
      <3>4. QED
        BY <3>2, <3>3
    <2>3. CopiesTrue'
      <3>1. \A q \in Fitters \ {p} : proc'[q] = proc[q]
        BY <1>1
      <3>2. \A x \in Fits : proc'[p].list[x] = "copy" => proc[p].list[x] = "copy"
        BY <1>l
      <3>3. NoRetag /\ CopiesTrue
        BY <1>n, <1>6, <2>u DEF Unraced
      <3>4. \A x \in Fits \ torn : proc'[p].list[x] = "copy" => <<x, "copy">> \in data
        BY <1>1, <3>2, <3>3 DEF CopiesTrue
      <3>5. QED
        BY <1>1, <3>1, <3>3, <3>4 DEF CopiesTrue
    <2>4. WritesTrue'
      BY <1>i, <1>1, <1>2, <1>6, <2>u DEF Unraced, WritesTrue
    <2>5. RetagTrue'
      BY <1>n, <1>6 DEF RetagTrue, NoRetag
    <2>6. TornMoved'
      BY <1>i, <1>1, <1>2, <1>6, <2>u DEF Unraced, TornMoved
    <2>7. QED
      BY <2>1, <2>2, <2>3, <2>4, <2>5, <2>6 DEF Unraced
  <1>7. Single'
    BY <1>i, <1>1 DEF Single
  <1>8. ListsFind'
    <2>1. overlap = "none" => \A x \in put \ torn : Finds(proc'[p].list, x)
      <3> SUFFICES ASSUME overlap = "none", NEW x \in put \ torn
                   PROVE  Finds(proc'[p].list, x)
        OBVIOUS
      <3>1. CASE x = proc[p].fit
        <4>1. <<proc[p].fit, proc[p].to>> \in data
          BY <1>i, <1>1 DEF Unraced, WritesTrue
        <4>2. QED
          BY <1>1, <1>l, <3>1, <4>1 DEF Finds
      <3>2. CASE x # proc[p].fit
        <4>1. Finds(proc[p].list, x) \/ Mid(p, x)
          BY <1>i, <1>1 DEF ListsFind
        <4>2. QED
          BY <1>1, <1>l, <3>2, <4>1 DEF Finds, Mid
      <3>3. QED
        BY <3>1, <3>2
    <2>2. \A l, x : Finds(l, x)' <=> l[x] \in FitNames /\ <<x, l[x]>> \in data
      BY <1>1 DEF Finds
    <2>3. \A q \in Fitters \ {p} : proc'[q] = proc[q]
      BY <1>1
    <2>4. overlap = "none" /\ NoRetag' => \A x \in put \ torn : Finds(index, x)
      BY <1>i, <1>n, <1>1 DEF ListsFind
    <2>5. overlap = "none" => \A q \in Fitters \ {p} :
            proc[q].does \in {"index", "file", "retag", "reindex"} /\ proc[q].pc # "scan" =>
              \A x \in put \ torn : Finds(proc[q].list, x) \/ Mid(q, x)
      BY <1>i DEF ListsFind
    <2>6. overlap # "files" =>
            \A q \in Fitters \ {p} : proc[q].does = "reindex" /\ proc[q].alone /\ proc[q].pc = "write" =>
              \A x \in put \ torn : Finds(proc[q].list, x)
      BY <1>i DEF ListsFind
    <2>7. overlap' = overlap /\ put' = put /\ torn' = torn /\ index' = index /\ data' = data
          /\ proc'[p].does \notin {"reindex"}
      BY <1>1
    <2>8. /\ overlap' = "none" /\ NoRetag' => \A x \in put' \ torn' : Finds(index, x)'
          /\ overlap' = "none" => \A x \in put' \ torn' : Finds(proc[p].list, x)'
      BY <2>1, <2>4, <2>7 DEF Finds
    <2>9. overlap' = "none" => \A q \in Fitters \ {p} :
            proc'[q].does \in {"index", "file", "retag", "reindex"} /\ proc'[q].pc # "scan" =>
              \A x \in put' \ torn' : Finds(proc[q].list, x)' \/ Mid(q, x)'
      BY <1>2, <2>3, <2>5, <2>7 DEF Finds
    <2>10. overlap' # "files" =>
            \A q \in Fitters \ {p} : proc'[q].does = "reindex" /\ proc'[q].alone /\ proc'[q].pc = "write" =>
              \A x \in put' \ torn' : Finds(proc[q].list, x)'
      BY <2>3, <2>6, <2>7 DEF Finds
    <2>11. QED
      BY <2>7, <2>8, <2>9, <2>10 DEF ListsFind
  <1>9. QED
    BY <1>3, <1>4, <1>5, <1>6, <1>7, <1>8 DEF StoreInv

\* The sidecars are read.
LEMMA StoreScans ==
  ASSUME StoreInv, NEW p \in Fitters, Store!Scan(p)
  PROVE  StoreInv'
  <1>i. StoreTypes /\ Shaped /\ Kept /\ Single /\ ListsFind /\ (overlap # "files" => Unraced)
    BY DEF StoreInv
  <1>0. PICK found \in [Fits -> FitNames \cup {"no"}] :
          /\ \A x \in Fits : LET written == {side[<<x, t>>] : t \in FitNames} \ {"no"}
                             IN  IF written = {} THEN found[x] = "no" ELSE found[x] \in written
          /\ proc' = [proc EXCEPT ![p].pc = "write", ![p].list = [x \in Fits |-> IF found[x] = "no" THEN proc[p].list[x] ELSE found[x]]]
    <2>1. \E found \in [Fits -> Store!Names \cup {"no"}] :
            /\ \A x \in Fits : LET written == {side[<<x, t>>] : t \in Store!Names} \ {"no"}
                               IN  IF written = {} THEN found[x] = "no" ELSE found[x] \in written
            /\ proc' = [proc EXCEPT ![p].pc = "write", ![p].list = [x \in Fits |-> IF found[x] = "no" THEN proc[p].list[x] ELSE found[x]]]
      BY Zenon DEF Store!Scan, side, proc
    <2>2. QED
      BY <2>1, StoreNames, Zenon
  <1>00. proc[p].pc = "scan" /\ UNCHANGED <<data, side, index, put, torn, overlap>>
    BY DEF Store!Scan, Store!At, data, side, index, proc, put, torn, overlap
  <1>1. /\ proc[p].pc = "scan" /\ proc[p].does = "reindex" /\ proc[p].list \in Listing /\ [x \in Fits |-> IF found[x] = "no" THEN proc[p].list[x] ELSE found[x]] \in Listing /\ UNCHANGED <<data, side, index, put, torn, overlap>>
        /\ proc' \in [Fitters -> Working] /\ \A q \in Fitters : q # p => proc'[q] = proc[q]
        /\ proc'[p].does = proc[p].does /\ proc'[p].pc = "write" /\ proc'[p].list = [x \in Fits |-> IF found[x] = "no" THEN proc[p].list[x] ELSE found[x]]
        /\ proc'[p].fit = proc[p].fit /\ proc'[p].to = proc[p].to /\ proc'[p].alone = proc[p].alone
    <2>1. /\ proc[p].pc = "scan" /\ proc[p].does = "reindex" /\ proc[p].list \in Listing /\ [x \in Fits |-> IF found[x] = "no" THEN proc[p].list[x] ELSE found[x]] \in Listing /\ UNCHANGED <<data, side, index, put, torn, overlap>>
          /\ proc' = [proc EXCEPT ![p].pc = "write", ![p].list = [x \in Fits |-> IF found[x] = "no" THEN proc[p].list[x] ELSE found[x]]]
      BY <1>i, <1>0, <1>00 DEF Listing, Shaped
    <2>2. proc \in [Fitters -> Working] /\ proc[p] \in Working
      BY <1>i DEF StoreTypes
    <2> DEFINE new == [proc[p] EXCEPT !.pc = "write", !.list = [x \in Fits |-> IF found[x] = "no" THEN proc[p].list[x] ELSE found[x]]]
    <2>3. new \in Working
      BY <1>i, <2>1, <2>2 DEF Working, Shaped
    <2>4. proc' = [proc EXCEPT ![p] = new]
      BY <2>1, <2>2
    <2>5. proc'[p] = new /\ proc' \in [Fitters -> Working]
      BY <2>2, <2>3, <2>4
    <2>6. QED
      BY <2>1, <2>2, <2>4, <2>5 DEF Working
  <1>2. (\A q \in Fitters : \A x : Mid(q, x)' <=> Mid(q, x)) /\ \A x : InMove(x)' <=> InMove(x)
    <2>1. \A q \in Fitters : \A x : Mid(q, x)' <=> Mid(q, x)
      BY <1>1 DEF Mid
    <2>2. QED
      BY <2>1 DEF InMove
  <1>m. \A x : (HasData(x) => HasData(x)') /\ (HasSide(x) => HasSide(x)')
    BY <1>1 DEF HasData, HasSide
  <1>n. overlap' # "files" => NoRetag /\ NoRetag'
    <2>1. proc[p].does # "retag" /\ proc[p].pc # "end" /\ proc'[p].does # "retag"
      BY <1>i, <1>1 DEF Shaped, Store!Off
    <2>2. QED
      BY <1>i, <1>1, <2>1 DEF NoRetag, Unraced, RetagAlone
  <1>w. \A x \in Fits : \/ found[x] = "no" /\ ~HasSide(x)
                        \/ found[x] # "no" /\ \E t \in FitNames : side[<<x, t>>] = found[x]
    BY <1>0 DEF HasSide
  <1>g. overlap # "files" => \A x \in Fits \ torn : found[x] # "no" => <<x, found[x]>> \in data
    <2> SUFFICES ASSUME overlap # "files", NEW x \in Fits \ torn, found[x] # "no"
                 PROVE  <<x, found[x]>> \in data
      OBVIOUS
    <2>1. PICK t \in FitNames : side[<<x, t>>] = found[x]
      BY <1>w
    <2>2. ~InMove(x)
      BY <1>i, <1>n, <1>1 DEF InMove, Mid, Shaped, NoRetag
    <2>3. QED
      BY <1>i, <2>1, <2>2 DEF Unraced, SideTrue
  <1>l. /\ proc'[p].list \in Listing /\ proc[p].list \in Listing /\ put \subseteq Fits
        /\ \A x \in Fits : proc'[p].list[x] = IF found[x] = "no" THEN proc[p].list[x] ELSE found[x]
        /\ \A x \in Fits : found[x] \in FitNames \cup {"no"}
    BY <1>i, <1>1 DEF StoreTypes
  <1>f. overlap # "files" => \A x \in put \ torn : Finds(proc'[p].list, x)
    <2>1. \A x \in put : HasSide(x)
      BY <1>i DEF Kept
    <2>2. QED
      BY <1>g, <1>l, <1>w, <2>1 DEF Finds
  <1>3. StoreTypes'
    BY <1>i, <1>1 DEF StoreTypes
  <1>4. Shaped'
    BY <1>i, <1>1, <1>l DEF Shaped
  <1>5. Kept'
    BY <1>i, <1>1, <1>m DEF Kept, Shaped
  <1>6. ASSUME overlap' # "files" PROVE Unraced'
    <2>u. Unraced
      BY <1>i, <1>1, <1>6
    <2>1. RetagAlone'
      BY <1>i, <1>1, <1>2, <1>6, <2>u, <1>n DEF Unraced, RetagAlone, NoRetag
    <2>2. SideTrue'
      BY <1>i, <1>1, <1>2, <1>6, <2>u DEF Unraced, SideTrue
    <2>3. CopiesTrue'
      BY <1>i, <1>1, <1>l, <1>g, <1>n, <1>6, <2>u DEF Unraced, CopiesTrue, NoRetag
    <2>4. WritesTrue'
      BY <1>i, <1>1, <1>2, <1>6, <2>u DEF Unraced, WritesTrue
    <2>5. RetagTrue'
      BY <1>n, <1>6 DEF RetagTrue, NoRetag
    <2>6. TornMoved'
      BY <1>i, <1>1, <1>2, <1>6, <2>u DEF Unraced, TornMoved
    <2>7. QED
      BY <2>1, <2>2, <2>3, <2>4, <2>5, <2>6 DEF Unraced
  <1>7. Single'
    BY <1>i, <1>1 DEF Single
  <1>8. ListsFind'
    <2>1. overlap = "none" => \A x \in put \ torn : Finds(proc'[p].list, x)
      BY <1>f
    <2>2. \A l, x : Finds(l, x)' <=> l[x] \in FitNames /\ <<x, l[x]>> \in data
      BY <1>1 DEF Finds
    <2>3. \A q \in Fitters \ {p} : proc'[q] = proc[q]
      BY <1>1
    <2>4. overlap = "none" /\ NoRetag' => \A x \in put \ torn : Finds(index, x)
      BY <1>i, <1>n, <1>1 DEF ListsFind
    <2>5. overlap = "none" => \A q \in Fitters \ {p} :
            proc[q].does \in {"index", "file", "retag", "reindex"} /\ proc[q].pc # "scan" =>
              \A x \in put \ torn : Finds(proc[q].list, x) \/ Mid(q, x)
      BY <1>i DEF ListsFind
    <2>6. overlap # "files" =>
            \A q \in Fitters \ {p} : proc[q].does = "reindex" /\ proc[q].alone /\ proc[q].pc = "write" =>
              \A x \in put \ torn : Finds(proc[q].list, x)
      BY <1>i DEF ListsFind
    <2>7. overlap' = overlap /\ put' = put /\ torn' = torn /\ index' = index /\ data' = data
      BY <1>1
    <2>8. /\ overlap' = "none" /\ NoRetag' => \A x \in put' \ torn' : Finds(index, x)'
          /\ overlap' # "files" => \A x \in put' \ torn' : Finds(proc[p].list, x)'
      BY <1>f, <2>4, <2>7 DEF Finds
    <2>9. overlap' = "none" => \A q \in Fitters \ {p} :
            proc'[q].does \in {"index", "file", "retag", "reindex"} /\ proc'[q].pc # "scan" =>
              \A x \in put' \ torn' : Finds(proc[q].list, x)' \/ Mid(q, x)'
      BY <1>2, <2>3, <2>5, <2>7 DEF Finds
    <2>10. overlap' # "files" =>
            \A q \in Fitters \ {p} : proc'[q].does = "reindex" /\ proc'[q].alone /\ proc'[q].pc = "write" =>
              \A x \in put' \ torn' : Finds(proc[q].list, x)'
      BY <2>3, <2>6, <2>7 DEF Finds
    <2>11. QED
      BY <2>7, <2>8, <2>9, <2>10 DEF ListsFind
  <1>9. QED
    BY <1>3, <1>4, <1>5, <1>6, <1>7, <1>8 DEF StoreInv

\* A command is through its list.
LEMMA StorePicked ==
  ASSUME StoreInv, NEW p \in Fitters, Store!Pick(p), proc' = [proc EXCEPT ![p].pc = "write"]
  PROVE  StoreInv'
  <1>i. StoreTypes /\ Shaped /\ Kept /\ Single /\ ListsFind /\ (overlap # "files" => Unraced)
    BY DEF StoreInv
  <1>1. /\ proc[p].pc = "pick" /\ proc[p].does \in {"file", "retag"} /\ UNCHANGED <<data, side, index, put, torn, overlap>>
        /\ proc' \in [Fitters -> Working] /\ \A q \in Fitters : q # p => proc'[q] = proc[q]
        /\ proc'[p].does = proc[p].does /\ proc'[p].pc = "write" /\ proc'[p].list = proc[p].list
        /\ proc'[p].fit = proc[p].fit /\ proc'[p].to = proc[p].to /\ proc'[p].alone = proc[p].alone
    <2>1. /\ proc[p].pc = "pick" /\ proc[p].does \in {"file", "retag"} /\ UNCHANGED <<data, side, index, put, torn, overlap>>
          /\ proc' = [proc EXCEPT ![p].pc = "write"]
      BY <1>i DEF Store!Pick, Store!At, Store!Goto, Shaped, StoreTypes, Working, data, side, index, proc, put, torn, overlap
    <2>2. proc \in [Fitters -> Working] /\ proc[p] \in Working
      BY <1>i DEF StoreTypes
    <2> DEFINE new == [proc[p] EXCEPT !.pc = "write"]
    <2>3. new \in Working
      BY <1>i, <2>1, <2>2 DEF Working, Shaped
    <2>4. proc' = [proc EXCEPT ![p] = new]
      BY <2>1, <2>2
    <2>5. proc'[p] = new /\ proc' \in [Fitters -> Working]
      BY <2>2, <2>3, <2>4
    <2>6. QED
      BY <2>1, <2>2, <2>4, <2>5 DEF Working
  <1>2. (\A q \in Fitters : \A x : Mid(q, x)' <=> Mid(q, x)) /\ \A x : InMove(x)' <=> InMove(x)
    <2>1. \A q \in Fitters : \A x : Mid(q, x)' <=> Mid(q, x)
      BY <1>1 DEF Mid
    <2>2. QED
      BY <2>1 DEF InMove
  <1>m. \A x : (HasData(x) => HasData(x)') /\ (HasSide(x) => HasSide(x)')
    BY <1>1 DEF HasData, HasSide
  <1>3. StoreTypes'
    BY <1>i, <1>1 DEF StoreTypes
  <1>4. Shaped'
    BY <1>i, <1>1 DEF Shaped
  <1>5. Kept'
    BY <1>i, <1>1, <1>m DEF Kept, Shaped
  <1>6. ASSUME overlap' # "files" PROVE Unraced'
    <2>u. Unraced
      BY <1>i, <1>1, <1>6
    <2>1. RetagAlone'
      BY <1>i, <1>1, <1>2, <1>6, <2>u DEF Unraced, RetagAlone
    <2>2. SideTrue'
      BY <1>i, <1>1, <1>2, <1>6, <2>u DEF Unraced, SideTrue
    <2>3. CopiesTrue'
      BY <1>i, <1>1, <1>2, <1>6, <2>u DEF Unraced, CopiesTrue, NoRetag
    <2>4. WritesTrue'
      BY <1>i, <1>1, <1>2, <1>6, <2>u DEF Unraced, WritesTrue
    <2>5. RetagTrue'
      BY <1>i, <1>1, <1>2, <1>6, <2>u DEF Unraced, RetagTrue
    <2>6. TornMoved'
      BY <1>i, <1>1, <1>2, <1>6, <2>u DEF Unraced, TornMoved
    <2>7. QED
      BY <2>1, <2>2, <2>3, <2>4, <2>5, <2>6 DEF Unraced
  <1>7. Single'
    BY <1>i, <1>1 DEF Single
  <1>8. ListsFind'
    BY <1>i, <1>1, <1>2 DEF ListsFind, Finds, NoRetag
  <1>9. QED
    BY <1>3, <1>4, <1>5, <1>6, <1>7, <1>8 DEF StoreInv

\* A command takes the next fit of its list.
LEMMA StorePicks ==
  ASSUME StoreInv, NEW p \in Fitters, NEW x \in Fits, Store!Pick(p),
         proc[p].list[x] = IF proc[p].does = "file" THEN "inplace" ELSE "copy",
         proc' = [proc EXCEPT ![p].fit = x, ![p].pc = IF proc[p].does = "file" THEN "data" ELSE "move"]
  PROVE  StoreInv'
  <1>i. StoreTypes /\ Shaped /\ Kept /\ Single /\ ListsFind /\ (overlap # "files" => Unraced)
    BY DEF StoreInv
  <1>1. /\ proc[p].pc = "pick" /\ proc[p].does \in {"file", "retag"} /\ UNCHANGED <<data, side, index, put, torn, overlap>>
        /\ proc' \in [Fitters -> Working] /\ \A q \in Fitters : q # p => proc'[q] = proc[q]
        /\ proc'[p].does = proc[p].does /\ proc'[p].pc = (IF proc[p].does = "file" THEN "data" ELSE "move") /\ proc'[p].list = proc[p].list
        /\ proc'[p].fit = x /\ proc'[p].to = proc[p].to /\ proc'[p].alone = proc[p].alone
    <2>1. /\ proc[p].pc = "pick" /\ proc[p].does \in {"file", "retag"} /\ UNCHANGED <<data, side, index, put, torn, overlap>>
          /\ proc' = [proc EXCEPT ![p].fit = x, ![p].pc = (IF proc[p].does = "file" THEN "data" ELSE "move")]
      BY <1>i DEF Store!Pick, Store!At, Store!Goto, Shaped, StoreTypes, Working, data, side, index, proc, put, torn, overlap
    <2>2. proc \in [Fitters -> Working] /\ proc[p] \in Working
      BY <1>i DEF StoreTypes
    <2> DEFINE new == [proc[p] EXCEPT !.fit = x, !.pc = (IF proc[p].does = "file" THEN "data" ELSE "move")]
    <2>3. new \in Working
      BY <1>i, <2>1, <2>2 DEF Working, Shaped
    <2>4. proc' = [proc EXCEPT ![p] = new]
      BY <2>1, <2>2
    <2>5. proc'[p] = new /\ proc' \in [Fitters -> Working]
      BY <2>2, <2>3, <2>4
    <2>6. QED
      BY <2>1, <2>2, <2>4, <2>5 DEF Working
  <1>2. (\A q \in Fitters : \A y : Mid(q, y)' <=> Mid(q, y)) /\ \A y : InMove(y)' <=> InMove(y)
    <2>1. \A q \in Fitters : \A y : Mid(q, y)' <=> Mid(q, y)
      BY <1>1 DEF Mid
    <2>2. QED
      BY <2>1 DEF InMove
  <1>m. \A y : (HasData(y) => HasData(y)') /\ (HasSide(y) => HasSide(y)')
    BY <1>1 DEF HasData, HasSide
  <1>3. StoreTypes'
    BY <1>i, <1>1 DEF StoreTypes
  <1>4. Shaped'
    BY <1>i, <1>1 DEF Shaped
  <1>5. Kept'
    BY <1>i, <1>1, <1>m DEF Kept, Shaped
  <1>6. ASSUME overlap' # "files" PROVE Unraced'
    <2>u. Unraced
      BY <1>i, <1>1, <1>6
    <2>1. RetagAlone'
      BY <1>i, <1>1, <1>2, <1>6, <2>u DEF Unraced, RetagAlone
    <2>2. SideTrue'
      BY <1>i, <1>1, <1>2, <1>6, <2>u DEF Unraced, SideTrue
    <2>3. CopiesTrue'
      BY <1>i, <1>1, <1>2, <1>6, <2>u DEF Unraced, CopiesTrue, NoRetag
    <2>4. WritesTrue'
      BY <1>i, <1>1, <1>2, <1>6, <2>u DEF Unraced, WritesTrue
    <2>5. RetagTrue'
      <3>1. \A q \in Fitters \ {p} : proc'[q] = proc[q]
        BY <1>1
      <3>2. RetagTrue
        BY <2>u DEF Unraced
      <3>3. \A q \in Fitters \ {p} : \A y \in Fits : Mid(q, y)' <=> Mid(q, y)
        BY <1>2
      <3>4. \A y \in Fits : ~Mid(p, y) /\ ~Mid(p, y)'
        BY <1>1 DEF Mid
      <3>5. proc[p].does = "retag" => proc[p].list[x] = "copy"
        BY <1>1
      <3> SUFFICES ASSUME NEW q \in Fitters, proc'[q].does = "retag"
                   PROVE  /\ \A y \in Fits :
                               /\ proc'[q].list[y] = "copy" =>
                                    /\ index'[y] = "copy" /\ y \notin torn'
                                    /\ Mid(q, y)' \/ (<<y, "copy">> \in data' /\ <<y, "new">> \notin data')
                               /\ proc'[q].list[y] # "copy" =>
                                    \/ index'[y] = proc'[q].list[y]
                                    \/ index'[y] = "copy" /\ proc'[q].list[y] = "new" /\ <<y, "new">> \in data'
                          /\ proc'[q].pc \in {"move", "moveside", "restate"} => proc'[q].list[proc'[q].fit] = "copy"
                          /\ proc'[q].pc \in {"moveside", "restate"} => <<proc'[q].fit, "new">> \in data'
                          /\ proc'[q].pc = "moveside" => side'[<<proc'[q].fit, "new">>] = "no"
                          /\ proc'[q].pc = "restate" => side'[<<proc'[q].fit, "copy">>] = "no"
        BY DEF RetagTrue
      <3>6. CASE q = p
        <4>1. /\ proc[p].does = "retag" /\ proc'[p].pc = "move" /\ proc'[p].fit = x
              /\ proc'[p].list = proc[p].list
              /\ index' = index /\ torn' = torn /\ data' = data
          BY <1>1, <3>6
        <4>2. \A y \in Fits :
                /\ proc[p].list[y] = "copy" =>
                     index[y] = "copy" /\ y \notin torn /\ <<y, "copy">> \in data /\ <<y, "new">> \notin data
                /\ proc[p].list[y] # "copy" =>
                     \/ index[y] = proc[p].list[y]
                     \/ index[y] = "copy" /\ proc[p].list[y] = "new" /\ <<y, "new">> \in data
          BY <3>2, <3>4, <4>1, ZenonT(40) DEF RetagTrue
        <4>3. QED
          BY <3>5, <3>6, <4>1, <4>2
      <3>7. CASE q # p
        BY <1>1, <3>1, <3>2, <3>3, <3>7 DEF RetagTrue
      <3>8. QED
        BY <3>6, <3>7
    <2>6. TornMoved'
      BY <1>i, <1>1, <1>2, <1>6, <2>u DEF Unraced, TornMoved
    <2>7. QED
      BY <2>1, <2>2, <2>3, <2>4, <2>5, <2>6 DEF Unraced
  <1>7. Single'
    BY <1>i, <1>1 DEF Single
  <1>8. ListsFind'
    BY <1>i, <1>1, <1>2 DEF ListsFind, Finds, NoRetag
  <1>9. QED
    BY <1>3, <1>4, <1>5, <1>6, <1>7, <1>8 DEF StoreInv

\* Once files raced, a command may end anywhere.
LEMMA StoreRaced ==
  ASSUME StoreInv, NEW p \in Fitters, overlap = "files", proc' = [proc EXCEPT ![p] = Store!Off],
         UNCHANGED <<data, side, index, put, overlap>>, torn' \subseteq Fits
  PROVE  StoreInv'
  <1>i. StoreTypes /\ Shaped /\ Kept /\ Single /\ ListsFind
    BY DEF StoreInv
  <1>1. /\ proc'[p] = Store!Off /\ \A q \in Fitters : q # p => proc'[q] = proc[q]
        /\ Store!Off \in Working /\ Store!Off.pc = "end" /\ Store!Off.does = "off"
        /\ proc' \in [Fitters -> Working]
    BY <1>i DEF StoreTypes, Store!Off, Working, FitNames
  <1>2. StoreTypes'
    BY <1>i, <1>1 DEF StoreTypes
  <1>3. Shaped'
    BY <1>i, <1>1 DEF Shaped
  <1>4. Kept'
    BY <1>i, <1>1 DEF Kept, HasData, HasSide
  <1>5. Single' /\ ListsFind'
    BY <1>i, <1>1 DEF Single, ListsFind
  <1>6. QED
    BY <1>2, <1>3, <1>4, <1>5 DEF StoreInv

\* A fit's line is appended to the index.
LEMMA StoreAppends ==
  ASSUME StoreInv, NEW p \in Fitters, Store!AppendIndex(p)
  PROVE  StoreInv'
  <1>i. StoreTypes /\ Shaped /\ Kept /\ Single /\ ListsFind /\ (overlap # "files" => Unraced)
    BY DEF StoreInv
  <1>1. /\ proc[p].pc = "append" /\ proc[p].does = "put" /\ proc[p].fit \in Fits /\ proc[p].to \in FitNames /\ UNCHANGED <<data, side, torn, overlap>> /\ index' = [index EXCEPT ![proc[p].fit] = proc[p].to] /\ put' = put \cup {proc[p].fit}
        /\ proc' \in [Fitters -> Working] /\ \A q \in Fitters : q # p => proc'[q] = proc[q]
        /\ proc'[p] = Store!Off /\ Store!Off.pc = "end" /\ Store!Off.does = "off"
    <2>1. /\ proc[p].pc = "append" /\ proc[p].does = "put" /\ proc[p].fit \in Fits /\ proc[p].to \in FitNames /\ UNCHANGED <<data, side, torn, overlap>> /\ index' = [index EXCEPT ![proc[p].fit] = proc[p].to] /\ put' = put \cup {proc[p].fit}
          /\ proc' = [proc EXCEPT ![p] = Store!Off]
      BY <1>i DEF Store!AppendIndex, Store!At, Store!Finish, Shaped, StoreTypes, Working, data, side, index, proc, put, torn, overlap
    <2>2. proc \in [Fitters -> Working] /\ Store!Off \in Working /\ Store!Off.pc = "end" /\ Store!Off.does = "off"
      BY <1>i DEF StoreTypes, Store!Off, Working, FitNames
    <2>3. QED
      BY <2>1, <2>2
  <1>2. (\A q \in Fitters : \A x : Mid(q, x)' <=> Mid(q, x)) /\ \A x : InMove(x)' <=> InMove(x)
    <2>1. \A q \in Fitters : \A x : Mid(q, x)' <=> Mid(q, x)
      BY <1>1 DEF Mid
    <2>2. QED
      BY <2>1 DEF InMove
  <1>m. \A x : (HasData(x) => HasData(x)') /\ (HasSide(x) => HasSide(x)')
    BY <1>1 DEF HasData, HasSide
  <1>n. overlap' # "files" => NoRetag /\ NoRetag'
    <2>1. proc[p].does # "retag" /\ proc[p].pc # "end" /\ proc'[p].does # "retag"
      BY <1>i, <1>1 DEF Shaped, Store!Off
    <2>2. QED
      BY <1>i, <1>1, <2>1 DEF NoRetag, Unraced, RetagAlone
  <1>o. \A q \in Fitters \ {p} :
          /\ overlap = "none" => proc[q].does = "off"
          /\ proc[q].does = "reindex" => ~proc[q].alone
    BY <1>i, <1>1 DEF Single, Shaped, Store!Off
  <1>l. /\ index \in Listing /\ index' \in Listing /\ index'[proc[p].fit] = proc[p].to
        /\ \A x \in Fits : x # proc[p].fit => index'[x] = index[x]
    BY <1>i, <1>1 DEF StoreTypes, Listing, FitNames
  <1>3. StoreTypes'
    BY <1>i, <1>1, <1>l DEF StoreTypes
  <1>4. Shaped'
    BY <1>i, <1>1 DEF Shaped
  <1>5. Kept'
    <2>1. \A x : x = proc[p].fit => HasData(x)' /\ HasSide(x)'
      BY <1>i, <1>1, <1>m DEF Kept
    <2>2. QED
      BY <1>i, <1>1, <1>m, <2>1 DEF Kept
  <1>6. ASSUME overlap' # "files" PROVE Unraced'
    <2>u. Unraced
      BY <1>i, <1>1, <1>6
    <2>1. RetagAlone'
      BY <1>i, <1>1, <1>2, <1>6, <2>u, <1>n DEF Unraced, RetagAlone, NoRetag
    <2>2. SideTrue'
      BY <1>i, <1>1, <1>2, <1>6, <2>u DEF Unraced, SideTrue
    <2>3. CopiesTrue'
      <3>1. \A x \in Fits \ torn : index'[x] = "copy" => <<x, "copy">> \in data
        BY <1>1, <1>l, <1>n, <1>6, <2>u DEF Unraced, CopiesTrue, WritesTrue
      <3>2. QED
        BY <1>1, <2>u, <3>1 DEF Unraced, CopiesTrue
    <2>4. WritesTrue'
      BY <1>i, <1>1, <1>2, <1>6, <2>u DEF Unraced, WritesTrue
    <2>5. RetagTrue'
      BY <1>n, <1>6 DEF RetagTrue, NoRetag
    <2>6. TornMoved'
      BY <1>i, <1>1, <1>2, <1>6, <2>u DEF Unraced, TornMoved
    <2>7. QED
      BY <2>1, <2>2, <2>3, <2>4, <2>5, <2>6 DEF Unraced
  <1>7. Single'
    BY <1>i, <1>1 DEF Single
  <1>8. ListsFind'
    <2>1. overlap = "none" => \A x \in put' \ torn : Finds(index', x)
      <3>1. overlap = "none" => <<proc[p].fit, proc[p].to>> \in data
        BY <1>i, <1>1 DEF Unraced, WritesTrue
      <3>2. overlap = "none" => NoRetag
        BY <1>i, <1>1, <1>o DEF NoRetag
      <3>3. put \subseteq Fits
        BY <1>i DEF StoreTypes
      <3>4. overlap = "none" => \A x \in put \ torn : Finds(index, x)
        BY <1>i, <3>2 DEF ListsFind
      <3>5. QED
        BY <1>1, <1>l, <3>1, <3>3, <3>4 DEF Finds
    <2>2. \A q \in Fitters : /\ overlap = "none" => proc'[q].does = "off"
                             /\ proc'[q].does = "reindex" => ~proc'[q].alone
      BY <1>1, <1>o
    <2>3. overlap = "none" => \A x \in put' \ torn' : Finds(index, x)'
      BY <1>1, <2>1 DEF Finds
    <2>4. QED
      BY <1>1, <2>2, <2>3 DEF ListsFind
  <1>9. QED
    BY <1>3, <1>4, <1>5, <1>6, <1>7, <1>8 DEF StoreInv

\* A command saves its list as the index.
LEMMA StoreWrites ==
  ASSUME StoreInv, NEW p \in Fitters, Store!WriteIndex(p)
  PROVE  StoreInv'
  <1>i. StoreTypes /\ Shaped /\ Kept /\ Single /\ ListsFind /\ (overlap # "files" => Unraced)
    BY DEF StoreInv
  <1>1. /\ proc[p].pc = "write" /\ proc[p].list \in Listing /\ proc[p].does \in {"index", "file", "retag", "reindex"} /\ UNCHANGED <<data, side, put, torn>> /\ index' = proc[p].list
        /\ overlap' = (IF proc[p].does = "reindex" /\ proc[p].alone /\ overlap # "files" THEN "none" ELSE overlap)
        /\ proc' \in [Fitters -> Working] /\ \A q \in Fitters : q # p => proc'[q] = proc[q]
        /\ proc'[p] = Store!Off /\ Store!Off.pc = "end" /\ Store!Off.does = "off"
    <2>1. /\ proc[p].pc = "write" /\ proc[p].list \in Listing /\ proc[p].does \in {"index", "file", "retag", "reindex"} /\ UNCHANGED <<data, side, put, torn>> /\ index' = proc[p].list
          /\ overlap' = (IF proc[p].does = "reindex" /\ proc[p].alone /\ overlap # "files" THEN "none" ELSE overlap)
          /\ proc' = [proc EXCEPT ![p] = Store!Off]
      BY <1>i DEF Store!WriteIndex, Store!At, Store!Finish, Shaped, StoreTypes, Working, data, side, index, proc, put, torn, overlap
    <2>2. proc \in [Fitters -> Working] /\ Store!Off \in Working /\ Store!Off.pc = "end" /\ Store!Off.does = "off"
      BY <1>i DEF StoreTypes, Store!Off, Working, FitNames
    <2>3. QED
      BY <2>1, <2>2
  <1>2. (\A q \in Fitters : \A x : Mid(q, x)' <=> Mid(q, x)) /\ \A x : InMove(x)' <=> InMove(x)
    <2>1. \A q \in Fitters : \A x : Mid(q, x)' <=> Mid(q, x)
      BY <1>1 DEF Mid
    <2>2. QED
      BY <2>1 DEF InMove
  <1>m. \A x : (HasData(x) => HasData(x)') /\ (HasSide(x) => HasSide(x)')
    BY <1>1 DEF HasData, HasSide
  <1>o. \A q \in Fitters \ {p} :
          /\ overlap = "none" => proc[q].does = "off"
          /\ proc[q].does = "reindex" => ~proc[q].alone
    BY <1>i, <1>1 DEF Single, Shaped, Store!Off
  <1>3. StoreTypes'
    BY <1>i, <1>1 DEF StoreTypes
  <1>4. Shaped'
    BY <1>i, <1>1 DEF Shaped
  <1>5. Kept'
    BY <1>i, <1>1, <1>m DEF Kept, Shaped
  <1>6. ASSUME overlap' # "files" PROVE Unraced'
    <2>u. Unraced
      BY <1>i, <1>1, <1>6
    <2>1. RetagAlone'
      BY <1>i, <1>1, <1>2, <1>6, <2>u DEF Unraced, RetagAlone
    <2>2. SideTrue'
      BY <1>i, <1>1, <1>2, <1>6, <2>u DEF Unraced, SideTrue
    <2>3. CopiesTrue'
      <3>1. \A x \in Fits \ torn : proc[p].list[x] = "copy" => <<x, "copy">> \in data
        <4>1. \A x : ~Mid(p, x)
          BY <1>1 DEF Mid
        <4>2. QED
          BY <1>1, <2>u, <4>1 DEF Unraced, CopiesTrue, RetagTrue
      <3>2. QED
        BY <1>1, <2>u, <3>1 DEF Unraced, CopiesTrue
    <2>4. WritesTrue'
      BY <1>i, <1>1, <1>2, <1>6, <2>u DEF Unraced, WritesTrue
    <2>5. RetagTrue'
      <3>1. \A q \in Fitters : proc'[q].does # "retag"
        BY <1>1, <2>u DEF Unraced, RetagAlone
      <3>2. QED
        BY <3>1 DEF RetagTrue
    <2>6. TornMoved'
      BY <1>i, <1>1, <1>2, <1>6, <2>u DEF Unraced, TornMoved
    <2>7. QED
      BY <2>1, <2>2, <2>3, <2>4, <2>5, <2>6 DEF Unraced
  <1>7. Single'
    BY <1>i, <1>1 DEF Single
  <1>8. ListsFind'
    <2>1. overlap' = "none" => \A x \in put \ torn : Finds(proc[p].list, x)
      <3>1. \A x : ~Mid(p, x)
        BY <1>1 DEF Mid
      <3>2. QED
        BY <1>i, <1>1, <3>1 DEF ListsFind
    <2>2. \A q \in Fitters : /\ overlap' = "none" => proc'[q].does = "off"
                             /\ proc'[q].does = "reindex" => ~proc'[q].alone
      <3>1. proc[p].alone => \A q \in Fitters \ {p} : proc[q].does = "off"
        BY <1>i, <1>1 DEF Single, Shaped, Store!Off
      <3>2. QED
        BY <1>1, <1>o, <3>1
    <2>3. overlap' = "none" => \A x \in put' \ torn' : Finds(index, x)'
      BY <1>1, <2>1 DEF Finds
    <2>4. QED
      BY <1>1, <2>2, <2>3 DEF ListsFind
  <1>9. QED
    BY <1>3, <1>4, <1>5, <1>6, <1>7, <1>8 DEF StoreInv

\* A command is killed.
LEMMA StoreKilled ==
  ASSUME StoreInv, NEW p \in Fitters, Store!Killed(p), overlap # "files"
  PROVE  StoreInv'
  <1>i. StoreTypes /\ Shaped /\ Kept /\ Single /\ ListsFind /\ (overlap # "files" => Unraced)
    BY DEF StoreInv
  <1>1. /\ proc[p].pc # "end" /\ torn \subseteq torn' /\ torn' \subseteq Fits /\ UNCHANGED <<data, side, index, put, overlap>>
        /\ proc[p].does = "retag" => \A x \in Fits : index[x] = "copy" /\ <<x, "new">> \in data => x \in torn'
        /\ \A x \in torn' \ torn : proc[p].does = "retag" /\ index[x] = "copy" /\ <<x, "new">> \in data
        /\ proc' \in [Fitters -> Working] /\ \A q \in Fitters : q # p => proc'[q] = proc[q]
        /\ proc'[p] = Store!Off /\ Store!Off.pc = "end" /\ Store!Off.does = "off"
    <2>1. /\ proc[p].pc # "end" /\ torn \subseteq torn' /\ torn' \subseteq Fits /\ UNCHANGED <<data, side, index, put, overlap>>
          /\ proc[p].does = "retag" => \A x \in Fits : index[x] = "copy" /\ <<x, "new">> \in data => x \in torn'
          /\ \A x \in torn' \ torn : proc[p].does = "retag" /\ index[x] = "copy" /\ <<x, "new">> \in data
          /\ proc' = [proc EXCEPT ![p] = Store!Off]
      BY <1>i DEF Store!Killed, Store!Off, Store!At, Store!Finish, Shaped, StoreTypes, Working, data, side, index, proc, put, torn, overlap
    <2>2. proc \in [Fitters -> Working] /\ Store!Off \in Working /\ Store!Off.pc = "end" /\ Store!Off.does = "off"
      BY <1>i DEF StoreTypes, Store!Off, Working, FitNames
    <2>3. QED
      BY <2>1, <2>2
  <1>2. \A q \in Fitters : \A x : Mid(q, x)' <=> Mid(q, x) /\ q # p
    BY <1>1 DEF Mid
  <1>m. \A x : (HasData(x) => HasData(x)') /\ (HasSide(x) => HasSide(x)')
    BY <1>1 DEF HasData, HasSide
  <1>o. \A q \in Fitters \ {p} :
          /\ overlap = "none" => proc[q].does = "off"
          /\ proc[q].does = "reindex" => ~proc[q].alone
    BY <1>i, <1>1 DEF Single, Shaped, Store!Off
  <1>u. Unraced
    BY <1>i
  <1>k. \A x \in Fits : Mid(p, x) => x \in torn'
    <2>1. \A x \in Fits : Mid(p, x) => proc[p].does = "retag" /\ index[x] = "copy" /\ <<x, "new">> \in data
      <3>1. RetagTrue
        BY <1>u DEF Unraced
      <3>2. \A x \in Fits : Mid(p, x) => /\ proc[p].does = "retag" /\ proc[p].fit = x
                                         /\ proc[p].pc \in {"moveside", "restate"}
        BY <1>i DEF Mid, Shaped
      <3>3. \A x \in Fits : Mid(p, x) => proc[p].list[x] = "copy" /\ <<x, "new">> \in data
        BY <3>1, <3>2, ZenonT(40) DEF RetagTrue
      <3>4. QED
        BY <3>1, <3>2, <3>3 DEF RetagTrue
    <2>2. QED
      BY <1>1, <2>1
  <1>3. StoreTypes'
    BY <1>i, <1>1 DEF StoreTypes
  <1>4. Shaped'
    BY <1>i, <1>1 DEF Shaped
  <1>5. Kept'
    BY <1>i, <1>1, <1>m DEF Kept, Shaped
  <1>6. ASSUME overlap' # "files" PROVE Unraced'
    <2>u. Unraced
      BY <1>i, <1>1, <1>6
    <2>1. RetagAlone'
      BY <1>i, <1>1, <1>2, <1>6, <2>u DEF Unraced, RetagAlone
    <2>2. SideTrue'
      <3>1. \A x \in Fits \ torn' : InMove(x) => InMove(x)'
        BY <1>2, <1>k DEF InMove
      <3>2. QED
        BY <1>1, <1>u, <3>1 DEF Unraced, SideTrue
    <2>3. CopiesTrue'
      <3>1. NoRetag' => \A x \in Fits \ torn' : index[x] = "copy" => <<x, "copy">> \in data
        <4>1. CASE proc[p].does = "retag"
          <5>1. \A x \in Fits \ torn' : ~(index[x] = "copy" /\ <<x, "new">> \in data) /\ ~Mid(p, x)
            BY <1>1, <1>k, <4>1
          <5>2. RetagTrue
            BY <1>u DEF Unraced
          <5>3. QED
            BY <4>1, <5>1, <5>2 DEF RetagTrue
        <4>2. CASE proc[p].does # "retag"
          BY <1>1, <1>u, <4>2 DEF Unraced, CopiesTrue, NoRetag
        <4>3. QED
          BY <4>1, <4>2
      <3>2. QED
        BY <1>1, <1>u, <3>1 DEF Unraced, CopiesTrue
    <2>4. WritesTrue'
      BY <1>i, <1>1, <1>2, <1>6, <2>u DEF Unraced, WritesTrue
    <2>5. RetagTrue'
      <3>1. \A q \in Fitters : proc'[q].does # "retag"
        BY <1>1, <1>u DEF Unraced, RetagAlone
      <3>2. QED
        BY <3>1 DEF RetagTrue
    <2>6. TornMoved'
      BY <1>i, <1>1, <1>2, <1>6, <2>u DEF Unraced, TornMoved
    <2>7. QED
      BY <2>1, <2>2, <2>3, <2>4, <2>5, <2>6 DEF Unraced
  <1>7. Single'
    BY <1>i, <1>1 DEF Single
  <1>8. ListsFind'
    <2>0. put \subseteq Fits
      BY <1>i DEF StoreTypes
    <2>1. overlap = "none" => \A x \in put \ torn' : Finds(index, x)
      <3> SUFFICES ASSUME overlap = "none", NEW x \in put \ torn'
                   PROVE  Finds(index, x)
        OBVIOUS
      <3>1. CASE proc[p].does = "retag"
        <4>0. x \in Fits /\ x \in put \ torn /\ ~Mid(p, x)
          BY <1>1, <1>k, <2>0
        <4>1. Finds(proc[p].list, x)
          <5>1. proc[p].pc # "scan"
            BY <1>i, <3>1 DEF Shaped
          <5>2. QED
            BY <1>i, <3>1, <4>0, <5>1 DEF ListsFind
        <4>2. index[x] = proc[p].list[x]
          <5>1. ~(index[x] = "copy" /\ <<x, "new">> \in data)
            BY <1>1, <3>1, <4>0
          <5>2. RetagTrue
            BY <1>u DEF Unraced
          <5>3. QED
            BY <3>1, <4>0, <5>1, <5>2 DEF RetagTrue
        <4>3. QED
          BY <4>1, <4>2 DEF Finds
      <3>2. CASE proc[p].does # "retag"
        <4>1. NoRetag
          BY <1>o, <3>2 DEF NoRetag
        <4>2. QED
          BY <1>i, <1>1, <4>1 DEF ListsFind
      <3>3. QED
        BY <3>1, <3>2
    <2>2. \A q \in Fitters : /\ overlap = "none" => proc'[q].does = "off"
                             /\ proc'[q].does = "reindex" => ~proc'[q].alone
      BY <1>1, <1>o
    <2>3. overlap = "none" => \A x \in put' \ torn' : Finds(index, x)'
      BY <1>1, <2>1 DEF Finds
    <2>4. QED
      BY <1>1, <2>2, <2>3 DEF ListsFind
  <1>9. QED
    BY <1>3, <1>4, <1>5, <1>6, <1>7, <1>8 DEF StoreInv

\* A retag moves a fit's data.
LEMMA StoreMovesData ==
  ASSUME StoreInv, NEW p \in Fitters, Store!MoveData(p), <<proc[p].fit, "new">> \notin data, overlap # "files"
  PROVE  StoreInv'
  <1>i. StoreTypes /\ Shaped /\ Kept /\ Single /\ ListsFind /\ (overlap # "files" => Unraced)
    BY DEF StoreInv
  <1>1. /\ proc[p].pc = "move" /\ proc[p].does = "retag" /\ proc[p].fit \in Fits /\ <<proc[p].fit, "new">> \notin data /\ UNCHANGED <<side, index, put, torn, overlap>>
        /\ data' = (IF <<proc[p].fit, "copy">> \in data
                    THEN (data \ {<<proc[p].fit, "copy">>}) \cup {<<proc[p].fit, "new">>} ELSE data)
        /\ proc' \in [Fitters -> Working] /\ \A q \in Fitters : q # p => proc'[q] = proc[q]
        /\ proc'[p].does = proc[p].does /\ proc'[p].pc = "moveside" /\ proc'[p].list = proc[p].list
        /\ proc'[p].fit = proc[p].fit /\ proc'[p].to = proc[p].to /\ proc'[p].alone = proc[p].alone
    <2>1. /\ proc[p].pc = "move" /\ proc[p].does = "retag" /\ proc[p].fit \in Fits /\ <<proc[p].fit, "new">> \notin data /\ UNCHANGED <<side, index, put, torn, overlap>>
        /\ data' = (IF <<proc[p].fit, "copy">> \in data
                    THEN (data \ {<<proc[p].fit, "copy">>}) \cup {<<proc[p].fit, "new">>} ELSE data)
          /\ proc' = [proc EXCEPT ![p].pc = "moveside"]
      BY <1>i DEF Store!MoveData, Store!Finish, Store!At, Store!Goto, Shaped, StoreTypes, Working, data, side, index, proc, put, torn, overlap
    <2>2. proc \in [Fitters -> Working] /\ proc[p] \in Working
      BY <1>i DEF StoreTypes
    <2> DEFINE new == [proc[p] EXCEPT !.pc = "moveside"]
    <2>3. new \in Working
      BY <1>i, <2>1, <2>2 DEF Working, Shaped
    <2>4. proc' = [proc EXCEPT ![p] = new]
      BY <2>1, <2>2
    <2>5. proc'[p] = new /\ proc' \in [Fitters -> Working]
      BY <2>2, <2>3, <2>4
    <2>6. QED
      BY <2>1, <2>2, <2>4, <2>5 DEF Working
  <1>u. Unraced
    BY <1>i
  <1>o. \A q \in Fitters \ {p} : proc[q].pc = "end" /\ proc[q].does = "off" /\ proc'[q] = proc[q]
    BY <1>i, <1>1, <1>u DEF Unraced, RetagAlone, Shaped, Store!Off
  <1>r. /\ \A x \in Fits :
             /\ proc[p].list[x] = "copy" =>
                  /\ index[x] = "copy" /\ x \notin torn
                  /\ Mid(p, x) \/ (<<x, "copy">> \in data /\ <<x, "new">> \notin data)
             /\ proc[p].list[x] # "copy" =>
                  \/ index[x] = proc[p].list[x]
                  \/ index[x] = "copy" /\ proc[p].list[x] = "new" /\ <<x, "new">> \in data
        /\ proc[p].list[proc[p].fit] = "copy"
        /\ proc[p].pc \in {"moveside", "restate"} => <<proc[p].fit, "new">> \in data
        /\ proc[p].pc = "moveside" => side[<<proc[p].fit, "new">>] = "no"
        /\ proc[p].pc = "restate" => side[<<proc[p].fit, "copy">>] = "no"
    <2>1. RetagTrue
      BY <1>u DEF Unraced
    <2>2. QED
      BY <1>1, <2>1 DEF RetagTrue
  <1>t. put \subseteq Fits /\ torn \subseteq Fits /\ proc[p].list \in Listing
    BY <1>i, <1>1 DEF StoreTypes, Shaped
  <1>2. (\A q \in Fitters : \A x : Mid(q, x)' <=> (q = p /\ x = proc[p].fit)) /\ \A x : InMove(x)' <=> x = proc[p].fit
    <2>1. \A q \in Fitters : \A x : Mid(q, x)' <=> (q = p /\ x = proc[p].fit)
      BY <1>1, <1>o DEF Mid
    <2>2. \A q \in Fitters \ {p} : \A x : ~Mid(q, x)
      BY <1>o DEF Mid
    <2>3. QED
      BY <2>1, <2>2 DEF InMove
  <1>d. /\ data' = (data \ {<<proc[p].fit, "copy">>}) \cup {<<proc[p].fit, "new">>}
        /\ data' \subseteq Fits \X FitNames
        /\ side[<<proc[p].fit, "new">>] = "no"
    <2>1. ~Mid(p, proc[p].fit) /\ \A q \in Fitters : ~Mid(q, proc[p].fit)
      BY <1>1, <1>o DEF Mid
    <2>2. <<proc[p].fit, "copy">> \in data /\ proc[p].fit \notin torn
      BY <1>1, <1>r, <2>1
    <2>3. side[<<proc[p].fit, "new">>] = "no"
      BY <1>1, <1>u, <2>1, <2>2 DEF Unraced, SideTrue, InMove, FitNames
    <2>4. QED
      BY <1>i, <1>1, <2>2, <2>3 DEF StoreTypes, FitNames
  <1>m. \A x : (HasData(x) => HasData(x)') /\ (HasSide(x) => HasSide(x)')
    <2>1. \A x : HasData(x) => HasData(x)'
      BY <1>d DEF HasData, FitNames
    <2>2. QED
      BY <1>1, <2>1 DEF HasSide
  <1>3. StoreTypes'
    BY <1>i, <1>1, <1>d DEF StoreTypes
  <1>4. Shaped'
    BY <1>i, <1>1 DEF Shaped
  <1>5. Kept'
    BY <1>i, <1>1, <1>m, <1>o, <1>t DEF Kept
  <1>6. ASSUME overlap' # "files" PROVE Unraced'
    <2>u. Unraced
      BY <1>i, <1>1, <1>6
    <2>1. RetagAlone'
      BY <1>i, <1>1, <1>2, <1>6, <2>u, <1>o DEF Unraced, RetagAlone
    <2>2. SideTrue'
      <3> SUFFICES ASSUME NEW x \in Fits \ torn, NEW t \in FitNames, ~InMove(x)', side[<<x, t>>] # "no"
                   PROVE  <<x, t>> \in data' /\ side[<<x, t>>] = t
        BY <1>1 DEF SideTrue
      <3>1. x # proc[p].fit /\ ~InMove(x)
        BY <1>1, <1>2, <1>o DEF InMove, Mid
      <3>2. QED
        BY <1>d, <1>u, <3>1 DEF Unraced, SideTrue
    <2>3. CopiesTrue'
      <3>1. ~NoRetag' /\ \A q \in Fitters : proc'[q].does \notin {"file", "index", "reindex"}
        BY <1>1, <1>o DEF NoRetag
      <3>2. QED
        BY <3>1 DEF CopiesTrue
    <2>4. WritesTrue'
      BY <1>i, <1>1, <1>2, <1>6, <2>u, <1>o DEF Unraced, WritesTrue
    <2>5. RetagTrue'
      <3>1. \A x \in Fits :
              /\ proc'[p].list[x] = "copy" =>
                   /\ index[x] = "copy" /\ x \notin torn
                   /\ Mid(p, x)' \/ (<<x, "copy">> \in data' /\ <<x, "new">> \notin data')
              /\ proc'[p].list[x] # "copy" =>
                   \/ index[x] = proc'[p].list[x]
                   \/ index[x] = "copy" /\ proc'[p].list[x] = "new" /\ <<x, "new">> \in data'
        <4> SUFFICES ASSUME NEW x \in Fits
                     PROVE  /\ proc'[p].list[x] = "copy" =>
                                 /\ index[x] = "copy" /\ x \notin torn
                                 /\ Mid(p, x)' \/ (<<x, "copy">> \in data' /\ <<x, "new">> \notin data')
                            /\ proc'[p].list[x] # "copy" =>
                                 \/ index[x] = proc'[p].list[x]
                                 \/ index[x] = "copy" /\ proc'[p].list[x] = "new" /\ <<x, "new">> \in data'
          OBVIOUS
        <4>1. Mid(p, x)' <=> x = proc[p].fit
          BY <1>1, <1>2
        <4>2. CASE x = proc[p].fit
          BY <1>1, <1>r, <4>1, <4>2, <1>d DEF Mid
        <4>3. CASE x # proc[p].fit
          BY <1>1, <1>r, <4>1, <4>3, <1>d DEF Mid
        <4>4. QED
          BY <4>2, <4>3
      <3>2. /\ proc'[p].pc \in {"move", "moveside", "restate"} => proc'[p].list[proc'[p].fit] = "copy"
            /\ proc'[p].pc \in {"moveside", "restate"} => <<proc'[p].fit, "new">> \in data'
            /\ proc'[p].pc = "moveside" => side'[<<proc'[p].fit, "new">>] = "no"
            /\ proc'[p].pc = "restate" => side'[<<proc'[p].fit, "copy">>] = "no"
        BY <1>1, <1>r, <1>d
      <3>3. \A q \in Fitters : proc'[q].does = "retag" => q = p
        BY <1>o
      <3>4. index' = index /\ torn' = torn
        BY <1>1
      <3>5. QED
        BY <3>1, <3>2, <3>3, <3>4 DEF RetagTrue
    <2>6. TornMoved'
      BY <1>i, <1>1, <1>2, <1>6, <2>u, <1>d DEF Unraced, TornMoved
    <2>7. QED
      BY <2>1, <2>2, <2>3, <2>4, <2>5, <2>6 DEF Unraced
  <1>7. Single'
    BY <1>i, <1>1 DEF Single
  <1>8. ListsFind'
    <2>1. overlap = "none" => \A x \in put \ torn : Finds(proc[p].list, x) \/ Mid(p, x)
      BY <1>i, <1>1 DEF ListsFind
    <2>2. overlap = "none" => \A x \in put \ torn :
            (proc'[p].list[x] \in FitNames /\ <<x, proc'[p].list[x]>> \in data') \/ Mid(p, x)'
      <3> SUFFICES ASSUME overlap = "none", NEW x \in put \ torn
                   PROVE  (proc'[p].list[x] \in FitNames /\ <<x, proc'[p].list[x]>> \in data') \/ Mid(p, x)'
        OBVIOUS
      <3>1. x \in Fits /\ (Finds(proc[p].list, x) \/ Mid(p, x))
        BY <1>t, <2>1
      <3>2. CASE x = proc[p].fit
        BY <1>1, <1>2, <3>2, <1>d DEF FitNames, Mid
      <3>3. CASE x # proc[p].fit
        <4>1. Finds(proc[p].list, x)
          BY <3>1, <3>3 DEF Mid
        <4>2. QED
          BY <1>1, <1>r, <3>1, <3>3, <4>1, <1>d DEF Finds
      <3>4. QED
        BY <3>2, <3>3
    <2>3. ~NoRetag' /\ \A q \in Fitters : proc'[q].does \notin {"index", "file", "reindex"} /\ (proc'[q].does = "retag" => q = p)
      BY <1>1, <1>o DEF NoRetag
    <2>4. QED
      BY <1>1, <2>2, <2>3 DEF ListsFind, Finds
  <1>9. QED
    BY <1>3, <1>4, <1>5, <1>6, <1>7, <1>8 DEF StoreInv

\* A retag moves a fit's sidecar.
LEMMA StoreMovesSide ==
  ASSUME StoreInv, NEW p \in Fitters, Store!MoveSide(p), side[<<proc[p].fit, "new">>] = "no", overlap # "files"
  PROVE  StoreInv'
  <1>i. StoreTypes /\ Shaped /\ Kept /\ Single /\ ListsFind /\ (overlap # "files" => Unraced)
    BY DEF StoreInv
  <1>1. /\ proc[p].pc = "moveside" /\ proc[p].does = "retag" /\ proc[p].fit \in Fits /\ side[<<proc[p].fit, "new">>] = "no" /\ UNCHANGED <<data, index, put, torn, overlap>>
        /\ side' = [side EXCEPT ![<<proc[p].fit, "new">>] = side[<<proc[p].fit, "copy">>], ![<<proc[p].fit, "copy">>] = "no"]
        /\ proc' \in [Fitters -> Working] /\ \A q \in Fitters : q # p => proc'[q] = proc[q]
        /\ proc'[p].does = proc[p].does /\ proc'[p].pc = "restate" /\ proc'[p].list = proc[p].list
        /\ proc'[p].fit = proc[p].fit /\ proc'[p].to = proc[p].to /\ proc'[p].alone = proc[p].alone
    <2>1. /\ proc[p].pc = "moveside" /\ proc[p].does = "retag" /\ proc[p].fit \in Fits /\ side[<<proc[p].fit, "new">>] = "no" /\ UNCHANGED <<data, index, put, torn, overlap>>
        /\ side' = [side EXCEPT ![<<proc[p].fit, "new">>] = side[<<proc[p].fit, "copy">>], ![<<proc[p].fit, "copy">>] = "no"]
          /\ proc' = [proc EXCEPT ![p].pc = "restate"]
      BY <1>i DEF Store!MoveSide, Store!Finish, Store!At, Store!Goto, Shaped, StoreTypes, Working, data, side, index, proc, put, torn, overlap
    <2>2. proc \in [Fitters -> Working] /\ proc[p] \in Working
      BY <1>i DEF StoreTypes
    <2> DEFINE new == [proc[p] EXCEPT !.pc = "restate"]
    <2>3. new \in Working
      BY <1>i, <2>1, <2>2 DEF Working, Shaped
    <2>4. proc' = [proc EXCEPT ![p] = new]
      BY <2>1, <2>2
    <2>5. proc'[p] = new /\ proc' \in [Fitters -> Working]
      BY <2>2, <2>3, <2>4
    <2>6. QED
      BY <2>1, <2>2, <2>4, <2>5 DEF Working
  <1>u. Unraced
    BY <1>i
  <1>o. \A q \in Fitters \ {p} : proc[q].pc = "end" /\ proc[q].does = "off" /\ proc'[q] = proc[q]
    BY <1>i, <1>1, <1>u DEF Unraced, RetagAlone, Shaped, Store!Off
  <1>r. /\ \A x \in Fits :
             /\ proc[p].list[x] = "copy" =>
                  /\ index[x] = "copy" /\ x \notin torn
                  /\ Mid(p, x) \/ (<<x, "copy">> \in data /\ <<x, "new">> \notin data)
             /\ proc[p].list[x] # "copy" =>
                  \/ index[x] = proc[p].list[x]
                  \/ index[x] = "copy" /\ proc[p].list[x] = "new" /\ <<x, "new">> \in data
        /\ proc[p].list[proc[p].fit] = "copy"
        /\ proc[p].pc \in {"moveside", "restate"} => <<proc[p].fit, "new">> \in data
        /\ proc[p].pc = "moveside" => side[<<proc[p].fit, "new">>] = "no"
        /\ proc[p].pc = "restate" => side[<<proc[p].fit, "copy">>] = "no"
    <2>1. RetagTrue
      BY <1>u DEF Unraced
    <2>2. QED
      BY <1>1, <2>1 DEF RetagTrue
  <1>t. put \subseteq Fits /\ torn \subseteq Fits /\ proc[p].list \in Listing
    BY <1>i, <1>1 DEF StoreTypes, Shaped
  <1>2. (\A q \in Fitters : \A x : Mid(q, x)' <=> Mid(q, x)) /\ \A x : InMove(x)' <=> InMove(x)
    <2>1. \A q \in Fitters : \A x : Mid(q, x)' <=> Mid(q, x)
      BY <1>1, <1>o DEF Mid
    <2>2. \A q \in Fitters \ {p} : \A x : ~Mid(q, x)
      BY <1>o DEF Mid
    <2>3. QED
      BY <2>1, <2>2 DEF InMove
  <1>s. /\ side' \in [Fits \X FitNames -> FitNames \cup {"no"}]
        /\ side'[<<proc[p].fit, "new">>] = side[<<proc[p].fit, "copy">>]
        /\ side'[<<proc[p].fit, "copy">>] = "no"
        /\ \A x \in Fits, t \in FitNames : x # proc[p].fit => side'[<<x, t>>] = side[<<x, t>>]
    BY <1>i, <1>1 DEF StoreTypes, FitNames
  <1>m. \A x \in Fits : (HasData(x) => HasData(x)') /\ (HasSide(x) => HasSide(x)')
    <2>1. \A x : HasData(x) => HasData(x)'
      BY <1>1 DEF HasData
    <2>2. HasSide(proc[p].fit) => side[<<proc[p].fit, "copy">>] # "no"
      BY <1>1 DEF HasSide, FitNames
    <2>3. HasSide(proc[p].fit) => HasSide(proc[p].fit)'
      BY <1>1, <1>s, <2>2 DEF HasSide, FitNames
    <2>4. \A x \in Fits \ {proc[p].fit} : HasSide(x) => HasSide(x)'
      BY <1>1, <1>s DEF HasSide
    <2>5. \A x : x = proc[p].fit => (HasSide(x) => HasSide(x)')
      BY <1>1, <2>3
    <2>6. QED
      BY <2>1, <2>4, <2>5
  <1>3. StoreTypes'
    BY <1>i, <1>1, <1>s DEF StoreTypes
  <1>4. Shaped'
    BY <1>i, <1>1 DEF Shaped
  <1>5. Kept'
    BY <1>i, <1>1, <1>m, <1>o, <1>t DEF Kept
  <1>6. ASSUME overlap' # "files" PROVE Unraced'
    <2>u. Unraced
      BY <1>i, <1>1, <1>6
    <2>1. RetagAlone'
      BY <1>i, <1>1, <1>2, <1>6, <2>u, <1>o DEF Unraced, RetagAlone
    <2>2. SideTrue'
      <3> SUFFICES ASSUME NEW x \in Fits \ torn, NEW t \in FitNames, ~InMove(x)', side'[<<x, t>>] # "no"
                   PROVE  <<x, t>> \in data /\ side'[<<x, t>>] = t
        BY <1>1 DEF SideTrue
      <3>1. x # proc[p].fit /\ ~InMove(x)
        BY <1>1, <1>2 DEF InMove, Mid
      <3>2. QED
        BY <1>s, <1>u, <3>1 DEF Unraced, SideTrue
    <2>3. CopiesTrue'
      <3>1. ~NoRetag' /\ \A q \in Fitters : proc'[q].does \notin {"file", "index", "reindex"}
        BY <1>1, <1>o DEF NoRetag
      <3>2. QED
        BY <3>1 DEF CopiesTrue
    <2>4. WritesTrue'
      BY <1>i, <1>1, <1>2, <1>6, <2>u, <1>o DEF Unraced, WritesTrue
    <2>5. RetagTrue'
      <3>1. \A x \in Fits :
              /\ proc'[p].list[x] = "copy" =>
                   /\ index[x] = "copy" /\ x \notin torn
                   /\ Mid(p, x)' \/ (<<x, "copy">> \in data' /\ <<x, "new">> \notin data')
              /\ proc'[p].list[x] # "copy" =>
                   \/ index[x] = proc'[p].list[x]
                   \/ index[x] = "copy" /\ proc'[p].list[x] = "new" /\ <<x, "new">> \in data'
        <4> SUFFICES ASSUME NEW x \in Fits
                     PROVE  /\ proc'[p].list[x] = "copy" =>
                                 /\ index[x] = "copy" /\ x \notin torn
                                 /\ Mid(p, x)' \/ (<<x, "copy">> \in data' /\ <<x, "new">> \notin data')
                            /\ proc'[p].list[x] # "copy" =>
                                 \/ index[x] = proc'[p].list[x]
                                 \/ index[x] = "copy" /\ proc'[p].list[x] = "new" /\ <<x, "new">> \in data'
          OBVIOUS
        <4>1. Mid(p, x)' <=> Mid(p, x)
          BY <1>1, <1>2
        <4>2. CASE x = proc[p].fit
          BY <1>1, <1>r, <4>1, <4>2 DEF Mid
        <4>3. CASE x # proc[p].fit
          BY <1>1, <1>r, <4>1, <4>3 DEF Mid
        <4>4. QED
          BY <4>2, <4>3
      <3>2. /\ proc'[p].pc \in {"move", "moveside", "restate"} => proc'[p].list[proc'[p].fit] = "copy"
            /\ proc'[p].pc \in {"moveside", "restate"} => <<proc'[p].fit, "new">> \in data'
            /\ proc'[p].pc = "moveside" => side'[<<proc'[p].fit, "new">>] = "no"
            /\ proc'[p].pc = "restate" => side'[<<proc'[p].fit, "copy">>] = "no"
        BY <1>1, <1>r, <1>s
      <3>3. \A q \in Fitters : proc'[q].does = "retag" => q = p
        BY <1>o
      <3>4. index' = index /\ torn' = torn
        BY <1>1
      <3>5. QED
        BY <3>1, <3>2, <3>3, <3>4 DEF RetagTrue
    <2>6. TornMoved'
      BY <1>i, <1>1, <1>2, <1>6, <2>u DEF Unraced, TornMoved
    <2>7. QED
      BY <2>1, <2>2, <2>3, <2>4, <2>5, <2>6 DEF Unraced
  <1>7. Single'
    BY <1>i, <1>1 DEF Single
  <1>8. ListsFind'
    <2>1. overlap = "none" => \A x \in put \ torn : Finds(proc[p].list, x) \/ Mid(p, x)
      BY <1>i, <1>1 DEF ListsFind
    <2>2. overlap = "none" => \A x \in put \ torn :
            (proc'[p].list[x] \in FitNames /\ <<x, proc'[p].list[x]>> \in data') \/ Mid(p, x)'
      <3> SUFFICES ASSUME overlap = "none", NEW x \in put \ torn
                   PROVE  (proc'[p].list[x] \in FitNames /\ <<x, proc'[p].list[x]>> \in data') \/ Mid(p, x)'
        OBVIOUS
      <3>1. x \in Fits /\ (Finds(proc[p].list, x) \/ Mid(p, x))
        BY <1>t, <2>1
      <3>2. CASE x = proc[p].fit
        BY <1>1, <1>2, <3>2 DEF FitNames, Mid
      <3>3. CASE x # proc[p].fit
        <4>1. Finds(proc[p].list, x)
          BY <3>1, <3>3 DEF Mid
        <4>2. QED
          BY <1>1, <1>r, <3>1, <3>3, <4>1 DEF Finds
      <3>4. QED
        BY <3>2, <3>3
    <2>3. ~NoRetag' /\ \A q \in Fitters : proc'[q].does \notin {"index", "file", "reindex"} /\ (proc'[q].does = "retag" => q = p)
      BY <1>1, <1>o DEF NoRetag
    <2>4. QED
      BY <1>1, <2>2, <2>3 DEF ListsFind, Finds
  <1>9. QED
    BY <1>3, <1>4, <1>5, <1>6, <1>7, <1>8 DEF StoreInv

\* A retag names the teacher in a fit's sidecar.
LEMMA StoreRestates ==
  ASSUME StoreInv, NEW p \in Fitters, Store!Restate(p), overlap # "files"
  PROVE  StoreInv'
  <1>i. StoreTypes /\ Shaped /\ Kept /\ Single /\ ListsFind /\ (overlap # "files" => Unraced)
    BY DEF StoreInv
  <1>1. /\ proc[p].pc = "restate" /\ proc[p].does = "retag" /\ proc[p].fit \in Fits /\ proc[p].to = "new" /\ proc[p].list \in Listing /\ [proc[p].list EXCEPT ![proc[p].fit] = proc[p].to] \in Listing /\ UNCHANGED <<data, index, put, torn, overlap>>
        /\ side' = [side EXCEPT ![<<proc[p].fit, "new">>] = "new"]
        /\ proc' \in [Fitters -> Working] /\ \A q \in Fitters : q # p => proc'[q] = proc[q]
        /\ proc'[p].does = proc[p].does /\ proc'[p].pc = "pick" /\ proc'[p].list = [proc[p].list EXCEPT ![proc[p].fit] = proc[p].to]
        /\ proc'[p].fit = proc[p].fit /\ proc'[p].to = proc[p].to /\ proc'[p].alone = proc[p].alone
    <2>1. /\ proc[p].pc = "restate" /\ proc[p].does = "retag" /\ proc[p].fit \in Fits /\ proc[p].to = "new" /\ proc[p].list \in Listing /\ [proc[p].list EXCEPT ![proc[p].fit] = proc[p].to] \in Listing /\ UNCHANGED <<data, index, put, torn, overlap>>
        /\ side' = [side EXCEPT ![<<proc[p].fit, "new">>] = "new"]
          /\ proc' = [proc EXCEPT ![p].pc = "pick", ![p].list = [proc[p].list EXCEPT ![proc[p].fit] = proc[p].to]]
      BY <1>i DEF Store!Restate, Store!Listed, Listing, FitNames, Store!At, Store!Goto, Shaped, StoreTypes, Working, data, side, index, proc, put, torn, overlap
    <2>2. proc \in [Fitters -> Working] /\ proc[p] \in Working
      BY <1>i DEF StoreTypes
    <2> DEFINE new == [proc[p] EXCEPT !.pc = "pick", !.list = [proc[p].list EXCEPT ![proc[p].fit] = proc[p].to]]
    <2>3. new \in Working
      BY <1>i, <2>1, <2>2 DEF Working, Shaped
    <2>4. proc' = [proc EXCEPT ![p] = new]
      BY <2>1, <2>2
    <2>5. proc'[p] = new /\ proc' \in [Fitters -> Working]
      BY <2>2, <2>3, <2>4
    <2>6. QED
      BY <2>1, <2>2, <2>4, <2>5 DEF Working
  <1>u. Unraced
    BY <1>i
  <1>o. \A q \in Fitters \ {p} : proc[q].pc = "end" /\ proc[q].does = "off" /\ proc'[q] = proc[q]
    BY <1>i, <1>1, <1>u DEF Unraced, RetagAlone, Shaped, Store!Off
  <1>r. /\ \A x \in Fits :
             /\ proc[p].list[x] = "copy" =>
                  /\ index[x] = "copy" /\ x \notin torn
                  /\ Mid(p, x) \/ (<<x, "copy">> \in data /\ <<x, "new">> \notin data)
             /\ proc[p].list[x] # "copy" =>
                  \/ index[x] = proc[p].list[x]
                  \/ index[x] = "copy" /\ proc[p].list[x] = "new" /\ <<x, "new">> \in data
        /\ proc[p].list[proc[p].fit] = "copy"
        /\ proc[p].pc \in {"moveside", "restate"} => <<proc[p].fit, "new">> \in data
        /\ proc[p].pc = "moveside" => side[<<proc[p].fit, "new">>] = "no"
        /\ proc[p].pc = "restate" => side[<<proc[p].fit, "copy">>] = "no"
    <2>1. RetagTrue
      BY <1>u DEF Unraced
    <2>2. QED
      BY <1>1, <2>1 DEF RetagTrue
  <1>t. put \subseteq Fits /\ torn \subseteq Fits /\ proc[p].list \in Listing
    BY <1>i, <1>1 DEF StoreTypes, Shaped
  <1>2. (\A q \in Fitters : \A x : Mid(q, x)' <=> FALSE) /\ \A x : InMove(x)' <=> FALSE
    <2>1. \A q \in Fitters : \A x : Mid(q, x)' <=> FALSE
      BY <1>1, <1>o DEF Mid
    <2>2. \A q \in Fitters \ {p} : \A x : ~Mid(q, x)
      BY <1>o DEF Mid
    <2>3. QED
      BY <2>1, <2>2 DEF InMove
  <1>s. /\ side' \in [Fits \X FitNames -> FitNames \cup {"no"}]
        /\ side'[<<proc[p].fit, "new">>] = "new"
        /\ side'[<<proc[p].fit, "copy">>] = "no"
        /\ \A x \in Fits, t \in FitNames : x # proc[p].fit => side'[<<x, t>>] = side[<<x, t>>]
    BY <1>i, <1>1, <1>r DEF StoreTypes, FitNames
  <1>l. /\ proc'[p].list[proc[p].fit] = "new" /\ proc'[p].list \in Listing
        /\ \A x \in Fits : x # proc[p].fit => proc'[p].list[x] = proc[p].list[x] /\ ~Mid(p, x)
        /\ index[proc[p].fit] = "copy" /\ <<proc[p].fit, "new">> \in data
    BY <1>1, <1>r DEF Listing, Mid
  <1>m. \A x \in Fits : (HasData(x) => HasData(x)') /\ (HasSide(x) => HasSide(x)')
    <2>1. \A x : HasData(x) => HasData(x)'
      BY <1>1 DEF HasData
    <2>2. HasSide(proc[p].fit)'
      BY <1>1, <1>s DEF HasSide, FitNames
    <2>3. \A x \in Fits \ {proc[p].fit} : HasSide(x) => HasSide(x)'
      BY <1>1, <1>s DEF HasSide
    <2>4. \A x : x = proc[p].fit => HasSide(x)'
      BY <1>1, <2>2
    <2>5. QED
      BY <2>1, <2>3, <2>4
  <1>3. StoreTypes'
    BY <1>i, <1>1, <1>s DEF StoreTypes
  <1>4. Shaped'
    BY <1>i, <1>1, <1>l DEF Shaped
  <1>5. Kept'
    BY <1>i, <1>1, <1>m, <1>o, <1>t DEF Kept
  <1>6. ASSUME overlap' # "files" PROVE Unraced'
    <2>u. Unraced
      BY <1>i, <1>1, <1>6
    <2>1. RetagAlone'
      BY <1>i, <1>1, <1>2, <1>6, <2>u, <1>o DEF Unraced, RetagAlone
    <2>2. SideTrue'
      <3> SUFFICES ASSUME NEW x \in Fits \ torn, NEW t \in FitNames, side'[<<x, t>>] # "no"
                   PROVE  <<x, t>> \in data /\ side'[<<x, t>>] = t
        BY <1>1 DEF SideTrue
      <3>1. CASE x = proc[p].fit
        BY <1>s, <1>l, <3>1 DEF FitNames
      <3>2. CASE x # proc[p].fit
        <4>1. ~InMove(x)
          BY <1>o, <1>l, <3>2 DEF InMove, Mid
        <4>2. QED
          BY <1>s, <1>u, <3>2, <4>1 DEF Unraced, SideTrue
      <3>3. QED
        BY <3>1, <3>2
    <2>3. CopiesTrue'
      <3>1. ~NoRetag' /\ \A q \in Fitters : proc'[q].does \notin {"file", "index", "reindex"}
        BY <1>1, <1>o DEF NoRetag
      <3>2. QED
        BY <3>1 DEF CopiesTrue
    <2>4. WritesTrue'
      BY <1>i, <1>1, <1>2, <1>6, <2>u, <1>o DEF Unraced, WritesTrue
    <2>5. RetagTrue'
      <3>1. \A x \in Fits :
              /\ proc'[p].list[x] = "copy" =>
                   /\ index[x] = "copy" /\ x \notin torn
                   /\ Mid(p, x)' \/ (<<x, "copy">> \in data' /\ <<x, "new">> \notin data')
              /\ proc'[p].list[x] # "copy" =>
                   \/ index[x] = proc'[p].list[x]
                   \/ index[x] = "copy" /\ proc'[p].list[x] = "new" /\ <<x, "new">> \in data'
        <4> SUFFICES ASSUME NEW x \in Fits
                     PROVE  /\ proc'[p].list[x] = "copy" =>
                                 /\ index[x] = "copy" /\ x \notin torn
                                 /\ Mid(p, x)' \/ (<<x, "copy">> \in data' /\ <<x, "new">> \notin data')
                            /\ proc'[p].list[x] # "copy" =>
                                 \/ index[x] = proc'[p].list[x]
                                 \/ index[x] = "copy" /\ proc'[p].list[x] = "new" /\ <<x, "new">> \in data'
          OBVIOUS
        <4>1. Mid(p, x)' <=> FALSE
          BY <1>1, <1>2
        <4>2. CASE x = proc[p].fit
          BY <1>1, <1>r, <4>1, <4>2, <1>l
        <4>3. CASE x # proc[p].fit
          BY <1>1, <1>r, <4>1, <4>3, <1>l
        <4>4. QED
          BY <4>2, <4>3
      <3>2. /\ proc'[p].pc \in {"move", "moveside", "restate"} => proc'[p].list[proc'[p].fit] = "copy"
            /\ proc'[p].pc \in {"moveside", "restate"} => <<proc'[p].fit, "new">> \in data'
            /\ proc'[p].pc = "moveside" => side'[<<proc'[p].fit, "new">>] = "no"
            /\ proc'[p].pc = "restate" => side'[<<proc'[p].fit, "copy">>] = "no"
        BY <1>1, <1>r, <1>s, <1>l
      <3>3. \A q \in Fitters : proc'[q].does = "retag" => q = p
        BY <1>o
      <3>4. index' = index /\ torn' = torn
        BY <1>1
      <3>5. QED
        BY <3>1, <3>2, <3>3, <3>4 DEF RetagTrue
    <2>6. TornMoved'
      BY <1>i, <1>1, <1>2, <1>6, <2>u DEF Unraced, TornMoved
    <2>7. QED
      BY <2>1, <2>2, <2>3, <2>4, <2>5, <2>6 DEF Unraced
  <1>7. Single'
    BY <1>i, <1>1 DEF Single
  <1>8. ListsFind'
    <2>1. overlap = "none" => \A x \in put \ torn : Finds(proc[p].list, x) \/ Mid(p, x)
      BY <1>i, <1>1 DEF ListsFind
    <2>2. overlap = "none" => \A x \in put \ torn :
            (proc'[p].list[x] \in FitNames /\ <<x, proc'[p].list[x]>> \in data') \/ Mid(p, x)'
      <3> SUFFICES ASSUME overlap = "none", NEW x \in put \ torn
                   PROVE  (proc'[p].list[x] \in FitNames /\ <<x, proc'[p].list[x]>> \in data') \/ Mid(p, x)'
        OBVIOUS
      <3>1. x \in Fits /\ (Finds(proc[p].list, x) \/ Mid(p, x))
        BY <1>t, <2>1
      <3>2. CASE x = proc[p].fit
        BY <1>1, <1>2, <3>2, <1>l DEF FitNames, Mid
      <3>3. CASE x # proc[p].fit
        <4>1. Finds(proc[p].list, x)
          BY <3>1, <3>3 DEF Mid
        <4>2. QED
          BY <1>1, <1>r, <3>1, <3>3, <4>1, <1>l DEF Finds
      <3>4. QED
        BY <3>2, <3>3
    <2>3. ~NoRetag' /\ \A q \in Fitters : proc'[q].does \notin {"index", "file", "reindex"} /\ (proc'[q].does = "retag" => q = p)
      BY <1>1, <1>o DEF NoRetag
    <2>4. QED
      BY <1>1, <2>2, <2>3 DEF ListsFind, Finds
  <1>9. QED
    BY <1>3, <1>4, <1>5, <1>6, <1>7, <1>8 DEF StoreInv

\* The same once files raced.
LEMMA StoreRacedData ==
  ASSUME StoreInv, NEW p \in Fitters, Store!MoveData(p), <<proc[p].fit, "new">> \notin data, overlap = "files"
  PROVE  StoreInv'
  <1>i. StoreTypes /\ Shaped /\ Kept /\ Single
    BY DEF StoreInv
  <1>1. /\ proc[p].pc = "move" /\ proc[p].does = "retag" /\ proc[p].fit \in Fits /\ UNCHANGED <<side, index, put, torn, overlap>>
        /\ data' = (IF <<proc[p].fit, "copy">> \in data
                    THEN (data \ {<<proc[p].fit, "copy">>}) \cup {<<proc[p].fit, "new">>} ELSE data)
        /\ proc' \in [Fitters -> Working] /\ \A q \in Fitters : q # p => proc'[q] = proc[q]
        /\ proc'[p].does = proc[p].does /\ proc'[p].pc = "moveside" /\ proc'[p].list = proc[p].list
        /\ proc'[p].fit = proc[p].fit /\ proc'[p].to = proc[p].to /\ proc'[p].alone = proc[p].alone
    <2>1. /\ proc[p].pc = "move" /\ proc[p].does = "retag" /\ proc[p].fit \in Fits /\ UNCHANGED <<side, index, put, torn, overlap>>
        /\ data' = (IF <<proc[p].fit, "copy">> \in data
                    THEN (data \ {<<proc[p].fit, "copy">>}) \cup {<<proc[p].fit, "new">>} ELSE data)
          /\ proc' = [proc EXCEPT ![p].pc = "moveside"]
      BY <1>i DEF Store!MoveData, Store!Finish, Store!At, Store!Goto, Shaped, StoreTypes, Working, data, side, index, proc, put, torn, overlap
    <2>2. proc \in [Fitters -> Working] /\ proc[p] \in Working
      BY <1>i DEF StoreTypes
    <2> DEFINE new == [proc[p] EXCEPT !.pc = "moveside"]
    <2>3. new \in Working
      BY <1>i, <2>1, <2>2 DEF Working, Shaped
    <2>4. proc' = [proc EXCEPT ![p] = new]
      BY <2>1, <2>2
    <2>5. proc'[p] = new /\ proc' \in [Fitters -> Working]
      BY <2>2, <2>3, <2>4
    <2>6. QED
      BY <2>1, <2>2, <2>4, <2>5 DEF Working
  <1>s. data' \subseteq Fits \X FitNames
    BY <1>i, <1>1 DEF StoreTypes, FitNames
  <1>m. \A x \in Fits : (HasData(x) => HasData(x)') /\ (HasSide(x) => HasSide(x)')
    <2>1. \A x : HasData(x) => HasData(x)'
      BY <1>1 DEF HasData, FitNames
    <2>2. QED
      BY <1>1, <2>1 DEF HasSide
  <1>3. StoreTypes'
    BY <1>i, <1>1, <1>s DEF StoreTypes
  <1>4. Shaped'
    BY <1>i, <1>1 DEF Shaped
  <1>5. Kept'
    <2>1. put \subseteq Fits /\ \A q \in Fitters : proc'[q].pc \in {"side", "append"} => proc'[q].fit \in Fits
      BY <1>i, <1>4 DEF StoreTypes, Shaped
    <2>2. \A q \in Fitters : proc'[q].pc \in {"side", "append"} => proc'[q] = proc[q]
      BY <1>1
    <2>3. QED
      BY <1>i, <1>1, <1>m, <2>1, <2>2 DEF Kept
  <1>6. Single' /\ ListsFind'
    BY <1>i, <1>1 DEF Single, ListsFind
  <1>7. QED
    BY <1>1, <1>3, <1>4, <1>5, <1>6 DEF StoreInv

\* The same once files raced.
LEMMA StoreRacedSide ==
  ASSUME StoreInv, NEW p \in Fitters, Store!MoveSide(p), side[<<proc[p].fit, "new">>] = "no", overlap = "files"
  PROVE  StoreInv'
  <1>i. StoreTypes /\ Shaped /\ Kept /\ Single
    BY DEF StoreInv
  <1>1. /\ proc[p].pc = "moveside" /\ proc[p].does = "retag" /\ proc[p].fit \in Fits /\ side[<<proc[p].fit, "new">>] = "no" /\ UNCHANGED <<data, index, put, torn, overlap>>
        /\ side' = [side EXCEPT ![<<proc[p].fit, "new">>] = side[<<proc[p].fit, "copy">>], ![<<proc[p].fit, "copy">>] = "no"]
        /\ proc' \in [Fitters -> Working] /\ \A q \in Fitters : q # p => proc'[q] = proc[q]
        /\ proc'[p].does = proc[p].does /\ proc'[p].pc = "restate" /\ proc'[p].list = proc[p].list
        /\ proc'[p].fit = proc[p].fit /\ proc'[p].to = proc[p].to /\ proc'[p].alone = proc[p].alone
    <2>1. /\ proc[p].pc = "moveside" /\ proc[p].does = "retag" /\ proc[p].fit \in Fits /\ side[<<proc[p].fit, "new">>] = "no" /\ UNCHANGED <<data, index, put, torn, overlap>>
        /\ side' = [side EXCEPT ![<<proc[p].fit, "new">>] = side[<<proc[p].fit, "copy">>], ![<<proc[p].fit, "copy">>] = "no"]
          /\ proc' = [proc EXCEPT ![p].pc = "restate"]
      BY <1>i DEF Store!MoveSide, Store!Finish, Store!At, Store!Goto, Shaped, StoreTypes, Working, data, side, index, proc, put, torn, overlap
    <2>2. proc \in [Fitters -> Working] /\ proc[p] \in Working
      BY <1>i DEF StoreTypes
    <2> DEFINE new == [proc[p] EXCEPT !.pc = "restate"]
    <2>3. new \in Working
      BY <1>i, <2>1, <2>2 DEF Working, Shaped
    <2>4. proc' = [proc EXCEPT ![p] = new]
      BY <2>1, <2>2
    <2>5. proc'[p] = new /\ proc' \in [Fitters -> Working]
      BY <2>2, <2>3, <2>4
    <2>6. QED
      BY <2>1, <2>2, <2>4, <2>5 DEF Working
  <1>s. /\ side' \in [Fits \X FitNames -> FitNames \cup {"no"}]
        /\ side'[<<proc[p].fit, "new">>] = side[<<proc[p].fit, "copy">>]
        /\ side'[<<proc[p].fit, "copy">>] = "no"
        /\ \A x \in Fits, t \in FitNames : x # proc[p].fit => side'[<<x, t>>] = side[<<x, t>>]
    BY <1>i, <1>1 DEF StoreTypes, FitNames
  <1>m. \A x \in Fits : (HasData(x) => HasData(x)') /\ (HasSide(x) => HasSide(x)')
    <2>1. \A x : HasData(x) => HasData(x)'
      BY <1>1 DEF HasData
    <2>2. HasSide(proc[p].fit) => side[<<proc[p].fit, "copy">>] # "no"
      BY <1>1 DEF HasSide, FitNames
    <2>3. HasSide(proc[p].fit) => HasSide(proc[p].fit)'
      BY <1>1, <1>s, <2>2 DEF HasSide, FitNames
    <2>4. \A x \in Fits \ {proc[p].fit} : HasSide(x) => HasSide(x)'
      BY <1>1, <1>s DEF HasSide
    <2>5. \A x : x = proc[p].fit => (HasSide(x) => HasSide(x)')
      BY <1>1, <2>3
    <2>6. QED
      BY <2>1, <2>4, <2>5
  <1>3. StoreTypes'
    BY <1>i, <1>1, <1>s DEF StoreTypes
  <1>4. Shaped'
    BY <1>i, <1>1 DEF Shaped
  <1>5. Kept'
    <2>1. put \subseteq Fits /\ \A q \in Fitters : proc'[q].pc \in {"side", "append"} => proc'[q].fit \in Fits
      BY <1>i, <1>4 DEF StoreTypes, Shaped
    <2>2. \A q \in Fitters : proc'[q].pc \in {"side", "append"} => proc'[q] = proc[q]
      BY <1>1
    <2>3. QED
      BY <1>i, <1>1, <1>m, <2>1, <2>2 DEF Kept
  <1>6. Single' /\ ListsFind'
    BY <1>i, <1>1 DEF Single, ListsFind
  <1>7. QED
    BY <1>1, <1>3, <1>4, <1>5, <1>6 DEF StoreInv

\* The same once files raced.
LEMMA StoreRacedName ==
  ASSUME StoreInv, NEW p \in Fitters, Store!Restate(p), overlap = "files"
  PROVE  StoreInv'
  <1>i. StoreTypes /\ Shaped /\ Kept /\ Single
    BY DEF StoreInv
  <1>1. /\ proc[p].pc = "restate" /\ proc[p].does = "retag" /\ proc[p].fit \in Fits /\ proc[p].to = "new" /\ proc[p].list \in Listing /\ [proc[p].list EXCEPT ![proc[p].fit] = proc[p].to] \in Listing /\ UNCHANGED <<data, index, put, torn, overlap>>
        /\ side' = [side EXCEPT ![<<proc[p].fit, "new">>] = "new"]
        /\ proc' \in [Fitters -> Working] /\ \A q \in Fitters : q # p => proc'[q] = proc[q]
        /\ proc'[p].does = proc[p].does /\ proc'[p].pc = "pick" /\ proc'[p].list = [proc[p].list EXCEPT ![proc[p].fit] = proc[p].to]
        /\ proc'[p].fit = proc[p].fit /\ proc'[p].to = proc[p].to /\ proc'[p].alone = proc[p].alone
    <2>1. /\ proc[p].pc = "restate" /\ proc[p].does = "retag" /\ proc[p].fit \in Fits /\ proc[p].to = "new" /\ proc[p].list \in Listing /\ [proc[p].list EXCEPT ![proc[p].fit] = proc[p].to] \in Listing /\ UNCHANGED <<data, index, put, torn, overlap>>
        /\ side' = [side EXCEPT ![<<proc[p].fit, "new">>] = "new"]
          /\ proc' = [proc EXCEPT ![p].pc = "pick", ![p].list = [proc[p].list EXCEPT ![proc[p].fit] = proc[p].to]]
      BY <1>i DEF Store!Restate, Store!Listed, Listing, FitNames, Store!At, Store!Goto, Shaped, StoreTypes, Working, data, side, index, proc, put, torn, overlap
    <2>2. proc \in [Fitters -> Working] /\ proc[p] \in Working
      BY <1>i DEF StoreTypes
    <2> DEFINE new == [proc[p] EXCEPT !.pc = "pick", !.list = [proc[p].list EXCEPT ![proc[p].fit] = proc[p].to]]
    <2>3. new \in Working
      BY <1>i, <2>1, <2>2 DEF Working, Shaped
    <2>4. proc' = [proc EXCEPT ![p] = new]
      BY <2>1, <2>2
    <2>5. proc'[p] = new /\ proc' \in [Fitters -> Working]
      BY <2>2, <2>3, <2>4
    <2>6. QED
      BY <2>1, <2>2, <2>4, <2>5 DEF Working
  <1>s. /\ side' \in [Fits \X FitNames -> FitNames \cup {"no"}]
        /\ side'[<<proc[p].fit, "new">>] = "new"
        /\ \A x \in Fits, t \in FitNames : x # proc[p].fit => side'[<<x, t>>] = side[<<x, t>>]
    BY <1>i, <1>1 DEF StoreTypes, FitNames
  <1>l. proc'[p].list \in Listing
    BY <1>1
  <1>m. \A x \in Fits : (HasData(x) => HasData(x)') /\ (HasSide(x) => HasSide(x)')
    <2>1. \A x : HasData(x) => HasData(x)'
      BY <1>1 DEF HasData
    <2>2. HasSide(proc[p].fit)'
      BY <1>1, <1>s DEF HasSide, FitNames
    <2>3. \A x \in Fits \ {proc[p].fit} : HasSide(x) => HasSide(x)'
      BY <1>1, <1>s DEF HasSide
    <2>4. \A x : x = proc[p].fit => HasSide(x)'
      BY <1>1, <2>2
    <2>5. QED
      BY <2>1, <2>3, <2>4
  <1>3. StoreTypes'
    BY <1>i, <1>1, <1>s DEF StoreTypes
  <1>4. Shaped'
    BY <1>i, <1>1, <1>l DEF Shaped
  <1>5. Kept'
    <2>1. put \subseteq Fits /\ \A q \in Fitters : proc'[q].pc \in {"side", "append"} => proc'[q].fit \in Fits
      BY <1>i, <1>4 DEF StoreTypes, Shaped
    <2>2. \A q \in Fitters : proc'[q].pc \in {"side", "append"} => proc'[q] = proc[q]
      BY <1>1
    <2>3. QED
      BY <1>i, <1>1, <1>m, <2>1, <2>2 DEF Kept
  <1>6. Single' /\ ListsFind'
    BY <1>i, <1>1 DEF Single, ListsFind
  <1>7. QED
    BY <1>1, <1>3, <1>4, <1>5, <1>6 DEF StoreInv

LEMMA StoreNext == StoreInv /\ [Store!Next]_(Store!fvars) => StoreInv'
  <1> SUFFICES ASSUME StoreInv, [Store!Next]_(Store!fvars)
               PROVE  StoreInv'
    OBVIOUS
  <1>i. StoreTypes /\ Shaped /\ (overlap # "files" => Unraced)
    BY DEF StoreInv
  <1>l. index \in Listing /\ \A l \in Listing : \A x \in Fits : l[x] \in FitNames \cup {"no", "inplace"}
    BY <1>i DEF StoreTypes, Listing
  <1>1. ASSUME NEW p \in Fitters, NEW x \in Fits, NEW t \in FitNames, Store!Put(p, x, t) PROVE StoreInv'
    BY <1>1, StoreBegins DEF Store!Put
  <1>2. ASSUME NEW p \in Fitters, NEW found \in SUBSET Fits, Store!IndexRuns(p, found) PROVE StoreInv'
    <2> DEFINE list == [x \in Fits |-> IF x \in found /\ index[x] = "no" THEN "inplace" ELSE index[x]]
    <2>1. Store!Begin(p, "index", <<>>, "new", list)
      BY <1>2 DEF Store!IndexRuns, index
    <2>2. list \in Listing
      BY <1>l DEF Listing
    <2>3. \A x \in Fits : /\ list[x] = "copy" => index[x] = "copy"
                          /\ index[x] \in FitNames => list[x] = index[x]
      BY DEF FitNames
    <2> HIDE DEF list
    <2>4. QED
      BY <2>1, <2>2, <2>3, StoreBegins DEF FitNames
  <1>3. ASSUME NEW p \in Fitters, Store!File(p) PROVE StoreInv'
    BY <1>3, <1>l, StoreBegins DEF Store!File, index, FitNames
  <1>4. ASSUME NEW p \in Fitters, Store!Retag(p) PROVE StoreInv'
    <2>1. \A x \in Fits : index[x] = "copy" => <<x, "new">> \notin data
      BY <1>4 DEF Store!Retag, index, data
    <2>2. Store!Begin(p, "retag", <<>>, "new", index)
      BY <1>4 DEF Store!Retag, index
    <2>3. QED
      BY <1>l, <2>1, <2>2, StoreBegins DEF FitNames
  <1>5. ASSUME NEW p \in Fitters, Store!Reindex(p) PROVE StoreInv'
    <2> DEFINE list == [x \in Fits |-> IF index[x] = "inplace" THEN "inplace" ELSE "no"]
    <2>1. Store!Begin(p, "reindex", <<>>, "new", list)
      BY <1>5 DEF Store!Reindex, index
    <2>2. list \in Listing /\ \A x \in Fits : list[x] # "copy"
      BY DEF Listing
    <2> HIDE DEF list
    <2>3. QED
      BY <2>1, <2>2, StoreBegins DEF FitNames
  <1>6. ASSUME NEW p \in Fitters, Store!Pick(p) PROVE StoreInv'
    <2> DEFINE todo == {x \in Fits : proc[p].list[x] = IF proc[p].does = "file" THEN "inplace" ELSE "copy"}
    <2>1. IF todo = {} THEN proc' = [proc EXCEPT ![p].pc = "write"]
          ELSE \E x \in todo : proc' = [proc EXCEPT ![p].fit = x,
                                                    ![p].pc = IF proc[p].does = "file" THEN "data" ELSE "move"]
      BY <1>6 DEF Store!Pick, Store!Goto, proc
    <2>2. CASE todo = {}
      BY <1>6, <2>1, <2>2, StorePicked
    <2>3. CASE todo # {}
      <3>1. PICK x \in todo : proc' = [proc EXCEPT ![p].fit = x,
                                                   ![p].pc = IF proc[p].does = "file" THEN "data" ELSE "move"]
        BY <2>1, <2>3
      <3>2. QED
        BY <1>6, <3>1, StorePicks
    <2>4. QED
      BY <2>2, <2>3
  <1>7. ASSUME NEW p \in Fitters, Store!MoveData(p) PROVE StoreInv'
    <2>1. CASE overlap # "files" /\ <<proc[p].fit, "new">> \notin data
      BY <1>7, <2>1, StoreMovesData
    <2>2. CASE overlap # "files" /\ <<proc[p].fit, "new">> \in data
      <3>1. proc[p].pc = "move" /\ proc[p].does = "retag" /\ proc[p].fit \in Fits
        BY <1>7, <1>i DEF Store!MoveData, Store!At, Shaped, proc
      <3>2. RetagTrue
        BY <1>i, <2>2 DEF Unraced
      <3>3. ~Mid(p, proc[p].fit)
        BY <3>1 DEF Mid
      <3>4. QED
        BY <2>2, <3>1, <3>2, <3>3 DEF RetagTrue
    <2>3. CASE overlap = "files" /\ <<proc[p].fit, "new">> \in data
      <3>1. proc' = [proc EXCEPT ![p] = Store!Off] /\ UNCHANGED <<data, side, index, put, torn, overlap>>
        BY <1>7, <2>3 DEF Store!MoveData, Store!Finish, data, side, index, proc, put, torn, overlap
      <3>2. QED
        BY <1>i, <2>3, <3>1, StoreRaced DEF StoreTypes
    <2>4. CASE overlap = "files" /\ <<proc[p].fit, "new">> \notin data
      BY <1>7, <2>4, StoreRacedData
    <2>5. QED
      BY <2>1, <2>2, <2>3, <2>4
  <1>8. ASSUME NEW p \in Fitters, Store!MoveSide(p) PROVE StoreInv'
    <2>0. proc[p].pc = "moveside" /\ proc[p].does = "retag" /\ proc[p].fit \in Fits
      BY <1>8, <1>i DEF Store!MoveSide, Store!At, Shaped, proc
    <2>1. CASE overlap # "files" /\ side[<<proc[p].fit, "new">>] = "no"
      BY <1>8, <2>1, StoreMovesSide
    <2>2. CASE overlap # "files" /\ side[<<proc[p].fit, "new">>] # "no"
      BY <1>i, <2>0, <2>2 DEF Unraced, RetagTrue
    <2>3. CASE overlap = "files" /\ side[<<proc[p].fit, "new">>] # "no"
      <3>1. /\ proc' = [proc EXCEPT ![p] = Store!Off] /\ UNCHANGED <<data, side, index, put, overlap>>
            /\ torn' = torn \cup {proc[p].fit}
        BY <1>8, <2>3 DEF Store!MoveSide, Store!Finish, data, side, index, proc, put, torn, overlap
      <3>2. QED
        BY <1>i, <2>0, <2>3, <3>1, StoreRaced DEF StoreTypes
    <2>4. CASE overlap = "files" /\ side[<<proc[p].fit, "new">>] = "no"
      BY <1>8, <2>4, StoreRacedSide
    <2>5. QED
      BY <2>1, <2>2, <2>3, <2>4
  <1>9. ASSUME NEW p \in Fitters, Store!Restate(p) PROVE StoreInv'
    <2>1. CASE overlap # "files"
      BY <1>9, <2>1, StoreRestates
    <2>2. CASE overlap = "files"
      BY <1>9, <2>2, StoreRacedName
    <2>3. QED
      BY <2>1, <2>2
  <1>10. ASSUME NEW p \in Fitters, Store!Killed(p) PROVE StoreInv'
    <2>1. CASE overlap # "files"
      BY <1>10, <2>1, StoreKilled
    <2>2. CASE overlap = "files"
      <3>1. /\ proc' = [proc EXCEPT ![p] = Store!Off] /\ UNCHANGED <<data, side, index, put, overlap>>
            /\ torn' \subseteq Fits
        BY <1>10, <1>i DEF Store!Killed, Store!Finish, StoreTypes, data, side, index, proc, put, torn, overlap
      <3>2. QED
        BY <2>2, <3>1, StoreRaced
    <2>3. QED
      BY <2>1, <2>2
  <1>11. ASSUME NEW p \in Fitters,
                Store!Scan(p) \/ Store!Data(p) \/ Store!Side(p) \/ Store!AppendIndex(p) \/ Store!WriteIndex(p)
         PROVE  StoreInv'
    BY <1>11, StoreScans, StoreData, StoreSidePut, StoreSideFile, StoreAppends, StoreWrites
  <1>12. CASE UNCHANGED Store!fvars
    <2>1. UNCHANGED <<data, side, index, proc, put, torn, overlap>>
      BY <1>12 DEF Store!fvars, data, side, index, proc, put, torn, overlap
    <2>2. \A q \in Fitters : \A x : Mid(q, x)' <=> Mid(q, x)
      BY <2>1 DEF Mid
    <2>3. \A x : InMove(x)' <=> InMove(x)
      BY <2>2 DEF InMove
    <2>4. Unraced => Unraced'
      <3>1. RetagAlone' = RetagAlone /\ WritesTrue' = WritesTrue /\ TornMoved' = TornMoved /\ CopiesTrue' = CopiesTrue
        BY <2>1 DEF RetagAlone, WritesTrue, TornMoved, CopiesTrue, NoRetag
      <3>2. SideTrue => SideTrue'
        BY <2>1, <2>3 DEF SideTrue
      <3>3. RetagTrue => RetagTrue'
        BY <2>1, <2>2 DEF RetagTrue
      <3>4. QED
        BY <3>1, <3>2, <3>3 DEF Unraced
    <2>5. ListsFind => ListsFind'
      BY <2>1, <2>2 DEF ListsFind, Finds, NoRetag
    <2>6. StoreTypes' /\ Shaped' /\ Kept' /\ Single'
      BY <2>1 DEF StoreInv, StoreTypes, Shaped, Kept, HasData, HasSide, Single
    <2>7. QED
      BY <2>1, <2>4, <2>5, <2>6 DEF StoreInv
  <1>13. QED
    BY <1>1, <1>2, <1>3, <1>4, <1>5, <1>6, <1>7, <1>8, <1>9, <1>10, <1>11, <1>12, StoreNames DEF Store!Next

\* What was put keeps its data and a sidecar; a sidecar is beside its data, and
\* the index finds every fit, where commands did not race.
LEMMA StoreHolds == StoreInv => Store!ArchiveKept /\ Store!SidecarHasData /\ Store!IndexFinds
  <1> SUFFICES ASSUME StoreInv
               PROVE  Store!ArchiveKept /\ Store!SidecarHasData /\ Store!IndexFinds
    OBVIOUS
  <1>1. Store!ArchiveKept
    BY StoreNames DEF StoreInv, Kept, HasData, HasSide, Store!ArchiveKept, data, side, put
  <1>2. Store!SidecarHasData
    <2>1. \A x : InMove(x) => x \in Store!Moving
      <3>1. \A p \in Fitters : proc[p].pc \in {"moveside", "restate"} => proc[p].does = "retag"
        BY DEF StoreInv, Shaped
      <3>2. \A p \in Fitters : proc[p].does = "retag" => proc[p].fit \in Store!Moving
        BY DEF Store!Moving, proc
      <3>3. QED
        BY <3>1, <3>2 DEF InMove, Mid
    <2>2. overlap # "files" => SideTrue
      BY DEF StoreInv, Unraced
    <2>3. QED
      BY <2>1, <2>2, StoreNames DEF SideTrue, Store!SidecarHasData, data, side, torn, overlap
  <1>3. Store!IndexFinds
    BY StoreNames DEF StoreInv, ListsFind, Finds, NoRetag, Store!IndexFinds, index, data, put, torn, proc, overlap
  <1>4. QED
    BY <1>1, <1>2, <1>3

-----------------------------------------------------------------------------
(* Where things are (Locations).  First what a setting, a first run and the *)
(* end of the older data leave where it was, of any view of the locations.  *)

AskedFor == {"lab", "scratch", "models", "teachers", "fit_store", "gpu_lease", "records"}

Tabled(t) == t = [k \in DOMAIN t |-> t[k]] /\ \A k \in DOMAIN t : PlaceOf(k, t[k])
Viewed(v) == Tabled(v.env) /\ Tabled(v.table)

LEMMA AskedAre == Settings!Range(Settings!Asked) = AskedFor /\ Settings!Asked \in Seq(AskedFor)
  <1>1. DOMAIN Settings!Asked = 1..7
    BY DEF Settings!Asked
  <1>2. /\ Settings!Asked[1] = "lab" /\ Settings!Asked[2] = "scratch" /\ Settings!Asked[3] = "models"
        /\ Settings!Asked[4] = "teachers" /\ Settings!Asked[5] = "fit_store"
        /\ Settings!Asked[6] = "gpu_lease" /\ Settings!Asked[7] = "records"
    BY DEF Settings!Asked
  <1>3. Settings!Asked \in Seq(AskedFor)
    BY DEF Settings!Asked, AskedFor
  <1>4. ASSUME NEW x PROVE x \in Settings!Range(Settings!Asked) <=> x \in AskedFor
    <2>1. x \in Settings!Range(Settings!Asked) <=> \E i \in 1..7 : x = Settings!Asked[i]
      BY <1>1 DEF Settings!Range
    <2>2. \A i \in 1..7 : i = 1 \/ i = 2 \/ i = 3 \/ i = 4 \/ i = 5 \/ i = 6 \/ i = 7
      OBVIOUS
    <2>3. 1 \in 1..7 /\ 2 \in 1..7 /\ 3 \in 1..7 /\ 4 \in 1..7 /\ 5 \in 1..7 /\ 6 \in 1..7 /\ 7 \in 1..7
      OBVIOUS
    <2>4. QED
      BY <1>2, <2>1, <2>2, <2>3, Zenon DEF AskedFor
  <1>5. QED
    BY <1>3, <1>4

LEMMA RawIs ==
  ASSUME NEW v, Viewed(v), NEW k
  PROVE  Settings!Raw(v, k) = <<>> \/ PlaceOf(k, Settings!Raw(v, k))
  BY DEF Settings!Raw, Viewed, Tabled

LEMMA Appended ==
  ASSUME NEW s \in Seq(Words), NEW x \in Words
  PROVE  Append(s, x) \in Seq(Words) /\ Append(s, x) # <<>>
  <1>1. Append(s, x) \in Seq(Words) /\ Len(Append(s, x)) = Len(s) + 1 /\ Len(s) \in Nat
    OBVIOUS
  <1>2. QED
    BY <1>1

LEMMA KnownFolders ==
  /\ Settings!Old \in Seq(Words) /\ Settings!Old # <<>>
  /\ Settings!Xdg \in Seq(Words) /\ Settings!Xdg # <<>>
  /\ <<"home", "VQLab">> \in Seq(Words) /\ <<"home", "VQLab">> # <<>>
  <1>1. "home" \in Words /\ ".vqlab" \in Words /\ ".local" \in Words /\ "VQLab" \in Words
    BY SettingsAssumption
  <1>2. \A x, y \in Words : <<x, y>> \in Seq(Words) /\ <<x, y>> # <<>>
    OBVIOUS
  <1>3. QED
    BY <1>1, <1>2 DEF Settings!Old, Settings!Xdg

\* Every location is a place, and so is whatever a command may write to.
LEMMA BasesFit ==
  ASSUME NEW v, Viewed(v)
  PROVE  /\ Settings!Lab(v) \in Seq(Words) /\ Settings!Lab(v) # <<>>
         /\ Settings!Base(v) \in Seq(Words) /\ Settings!Base(v) # <<>>
  <1>1. Settings!Lab(v) \in Seq(Words) /\ Settings!Lab(v) # <<>>
    BY RawIs, KnownFolders DEF Settings!Lab, Settings!Or, PlaceOf
  <1>2. QED
    BY <1>1, KnownFolders DEF Settings!Base

\* In a folder, or where it was set.
LEMMA OrFits ==
  ASSUME NEW k, k \notin {"fit_store", "roots"}, NEW set, set = <<>> \/ PlaceOf(k, set),
         NEW s \in Seq(Words), NEW x \in Words
  PROVE  PlaceOf(k, Settings!Or(set, Append(s, x)))
  BY Appended DEF Settings!Or, PlaceOf

LEMMA LocationsFit ==
  ASSUME NEW v, Viewed(v)
  PROVE  \A k \in AskedFor : PlaceOf(k, Settings!Location(v, k))
  <1>1. \A k : Settings!Raw(v, k) = <<>> \/ PlaceOf(k, Settings!Raw(v, k))
    BY RawIs
  <1>2. /\ "scratch" \in Words /\ "models" \in Words /\ "teachers" \in Words /\ "fits" \in Words
        /\ "gpu.lease" \in Words /\ "records" \in Words
    BY SettingsAssumption
  <1> HIDE DEF Settings!Raw
  <1>3. PlaceOf("lab", Settings!Lab(v))
    BY BasesFit DEF PlaceOf
  <1>4. PlaceOf("scratch", Settings!Scratch(v))
    BY BasesFit, <1>1, <1>2, OrFits DEF Settings!Scratch
  <1>5. PlaceOf("models", Settings!ModelsFolder(v))
    BY BasesFit, <1>1, <1>2, OrFits DEF Settings!ModelsFolder
  <1>6. PlaceOf("gpu_lease", Settings!GpuLease(v))
    BY BasesFit, <1>1, <1>2, OrFits DEF Settings!GpuLease
  <1>7. PlaceOf("teachers", Settings!Teachers(v))
    <2>1. Append(Settings!Old, "teachers") \in Seq(Words) /\ Append(Settings!Old, "teachers") # <<>>
      BY <1>2, KnownFolders, Appended
    <2>2. QED
      BY <1>1, <1>5, <2>1 DEF PlaceOf, Settings!Teachers, Settings!Or
  <1>8. PlaceOf("records", Settings!Records(v))
    <2>1. Append(Settings!Lab(v), "records") \in Seq(Words) /\ Append(Settings!Lab(v), "records") # <<>>
      BY <1>2, BasesFit, Appended
    <2>2. QED
      BY <1>1, <2>1, KnownFolders DEF PlaceOf, Settings!Records, Settings!Or
  <1>9. PlaceOf("fit_store", Settings!FitStore(v))
    <2>1. Append(Settings!Base(v), "fits") \in Seq(Words)
      BY <1>2, BasesFit, Appended
    <2>2. /\ <<Append(Settings!Base(v), "fits")>> \in Seq(Seq(Words))
          /\ <<Append(Settings!Base(v), "fits")>> # <<>>
      BY <2>1
    <2>3. QED
      BY <1>1, <2>2 DEF PlaceOf, Settings!FitStore, Settings!Or
  <1>10. QED
    BY <1>3, <1>4, <1>5, <1>6, <1>7, <1>8, <1>9 DEF AskedFor, Settings!Location

\* A setting changes what is set of its own key, and of that one only unless
\* the environment has it.
LEMMA PutRaw ==
  ASSUME NEW v, NEW w, NEW k, NEW x,
         w.env = v.env, w.table = Settings!Put(v.table, k, x)
  PROVE  /\ \A l : l # k \/ k \in DOMAIN v.env => Settings!Raw(w, l) = Settings!Raw(v, l)
         /\ k \notin DOMAIN v.env => Settings!Raw(w, k) = x
  BY DEF Settings!Raw, Settings!Put

LEMMA PutTabled ==
  ASSUME NEW t, Tabled(t), NEW k, NEW x, PlaceOf(k, x)
  PROVE  Tabled(Settings!Put(t, k, x))
  BY DEF Settings!Put, Tabled

\* Set in both, or defaults of one folder.
LEMMA SamePlace ==
  ASSUME NEW v, NEW w, NEW l \in {"models", "scratch", "fit_store"},
         Settings!Raw(w, l) = Settings!Raw(v, l),
         Settings!Raw(v, l) = <<>> => Settings!Base(w) = Settings!Base(v)
  PROVE  Settings!Location(w, l) = Settings!Location(v, l)
  <1> HIDE DEF Settings!Raw, Settings!Base
  <1>1. CASE l = "models"
    BY <1>1 DEF Settings!Location, Settings!ModelsFolder, Settings!Or
  <1>2. CASE l = "scratch"
    BY <1>2 DEF Settings!Location, Settings!Scratch, Settings!Or
  <1>3. CASE l = "fit_store"
    BY <1>3 DEF Settings!Location, Settings!FitStore, Settings!Or
  <1>4. QED
    BY <1>1, <1>2, <1>3

LEMMA SameTeachers ==
  ASSUME NEW v, NEW w, Settings!Raw(w, "teachers") = Settings!Raw(v, "teachers"),
         Settings!Raw(v, "teachers") = <<>> => Settings!Legacy(v) /\ Settings!Legacy(w)
  PROVE  Settings!Location(w, "teachers") = Settings!Location(v, "teachers")
  <1> HIDE DEF Settings!Raw, Settings!Legacy, Settings!ModelsFolder
  <1>1. QED
    BY DEF Settings!Location, Settings!Teachers, Settings!Or

LEMMA SameBase ==
  ASSUME NEW v, NEW w, w.older = v.older, Settings!Raw(w, "lab") = Settings!Raw(v, "lab")
  PROVE  Settings!Base(w) = Settings!Base(v) /\ (Settings!Legacy(w) <=> Settings!Legacy(v))
  BY DEF Settings!Base, Settings!Legacy, Settings!Lab

\* What a record promises: it is found, by a place set or by default, and
\* `teachers` names a place of its own.
Labels == {"models", "scratch", "fit_store", "teachers"}
There(v, r) ==
  /\ r.label \in Labels /\ r.rest \in Seq(Words)
  /\ Settings!Resolve(v, r) = r.real
  /\ r.default \/ Settings!Raw(v, r.label) # <<>>
  /\ r.label = "teachers" =>
       ~r.shared /\ (Settings!Raw(v, "teachers") = <<>> => Settings!Legacy(v))

\* It stays as long as its location does.
LEMMA StaysThere ==
  ASSUME NEW v, NEW w, NEW r, There(v, r),
         Settings!Raw(w, r.label) = Settings!Raw(v, r.label),
         Settings!Raw(v, r.label) = <<>> =>
           IF r.label = "teachers" THEN Settings!Legacy(w) ELSE Settings!Base(w) = Settings!Base(v)
  PROVE  There(w, r)
  <1> HIDE DEF Settings!Raw, Settings!Legacy, Settings!Base
  <1>1. r.label \in Labels
    BY DEF There
  <1>2. Settings!Location(w, r.label) = Settings!Location(v, r.label)
    <2>1. CASE r.label = "teachers"
      BY <2>1, SameTeachers DEF There
    <2>2. CASE r.label # "teachers"
      BY <1>1, <2>2, SamePlace DEF Labels
    <2>3. QED
      BY <2>1, <2>2
  <1>3. Settings!Resolve(w, r) = Settings!Resolve(v, r)
    <2>1. CASE r.label = "fit_store"
      BY <1>2, <2>1 DEF Settings!Resolve, Settings!Location
    <2>2. CASE r.label # "fit_store"
      <3> HIDE DEF Settings!Location
      <3>1. QED
        BY <1>1, <1>2, <2>2 DEF Settings!Resolve, Labels
    <2>3. QED
      BY <2>1, <2>2
  <1>4. QED
    BY <1>3, Zenon DEF There

\* A set moves no record but those of its own location, and by the lab folder
\* those of defaults.
LEMMA SetMoves ==
  ASSUME NEW v, NEW w, NEW k, NEW r, w.older = v.older,
         \A l : l # k => Settings!Raw(w, l) = Settings!Raw(v, l),
         There(v, r), r.label = k => k = "teachers" /\ r.shared, k = "lab" => ~r.default
  PROVE  There(w, r)
  <1>1. r.label # k
    BY Zenon DEF There
  <1>2. Settings!Raw(w, r.label) = Settings!Raw(v, r.label)
    BY <1>1, Zenon
  <1>3. CASE k = "lab"
    <2>1. Settings!Raw(v, r.label) # <<>>
      BY <1>3, Zenon DEF There
    <2>2. QED
      BY <1>2, <2>1, StaysThere
  <1>4. CASE k # "lab"
    <2>1. Settings!Raw(w, "lab") = Settings!Raw(v, "lab")
      BY <1>4, Zenon
    <2>2. Settings!Base(w) = Settings!Base(v) /\ (Settings!Legacy(w) <=> Settings!Legacy(v))
      BY <2>1, SameBase
    <2>3. Settings!Raw(v, r.label) = <<>> =>
            IF r.label = "teachers" THEN Settings!Legacy(w) ELSE Settings!Base(w) = Settings!Base(v)
      BY <2>2, Zenon DEF There
    <2>4. QED
      BY <1>2, <2>3, StaysThere
  <1>5. QED
    BY <1>3, <1>4

\* The end of the older data moves nothing that was not in it.
LEMMA OldIsGone ==
  ASSUME NEW v, NEW w, NEW r, Viewed(v), There(v, r),
         w.env = v.env, w.table = v.table, "data" \in v.older, w.older = v.older \ {"data"},
         ~Settings!IsPrefix(Settings!Old, r.real)
  PROVE  There(w, r)
  <1>1. \A l : Settings!Raw(w, l) = Settings!Raw(v, l)
    BY DEF Settings!Raw
  <1>2. CASE Settings!Raw(v, r.label) # <<>>
    BY <1>1, <1>2, StaysThere
  <1>3. CASE Settings!Raw(v, r.label) = <<>> /\ ~Settings!Legacy(v)
    <2>1. Settings!Raw(v, "lab") # <<>> /\ r.label # "teachers"
      BY <1>3 DEF Settings!Legacy, There
    <2>2. Settings!Base(w) = Settings!Base(v)
      BY <1>1, <2>1 DEF Settings!Base, Settings!Legacy, Settings!Lab
    <2>3. QED
      BY <1>1, <2>1, <2>2, StaysThere
  <1>4. CASE Settings!Raw(v, r.label) = <<>> /\ Settings!Legacy(v)
    <2>1. \A x \in Words : Settings!IsPrefix(Settings!Old, Append(Settings!Old, x) \o r.rest)
      <3>1. r.rest \in Seq(Words)
        BY DEF There
      <3>2. ASSUME NEW s \in Seq(Words), NEW x \in Words, NEW t \in Seq(Words)
            PROVE  Settings!IsPrefix(s, Append(s, x) \o t)
        <4>1. /\ Append(s, x) \o t \in Seq(Words) /\ Len(Append(s, x) \o t) = Len(s) + 1 + Len(t)
              /\ Len(s) \in Nat /\ Len(t) \in Nat
          OBVIOUS
        <4>2. \A i \in 1..Len(s) : (Append(s, x) \o t)[i] = s[i]
          OBVIOUS
        <4> DEFINE all == Append(s, x) \o t
        <4> HIDE DEF all
        <4>3. all \in Seq(Words) /\ Len(s) <= Len(all) /\ \A i \in 1..Len(s) : all[i] = s[i]
          BY <4>1, <4>2 DEF all
        <4>4. SubSeq(s, 1, Len(s)) = s
          OBVIOUS
        <4>5. SubSeq(all, 1, Len(s)) = s
          BY <4>3
        <4>6. QED
          BY <4>3, <4>4, <4>5 DEF Settings!IsPrefix, all
      <3>3. QED
        BY <3>1, <3>2, KnownFolders
    <2>2. "scratch" \in Words /\ "models" \in Words /\ "teachers" \in Words /\ "fits" \in Words
      BY SettingsAssumption
    <2>3. Settings!Base(v) = Settings!Old
      BY <1>4 DEF Settings!Base
    <2>4. r.label \in Labels /\ r.real = Settings!Resolve(v, r)
      BY DEF There
    <2> HIDE DEF Settings!Raw, Settings!Legacy, Settings!Base, Settings!Old, Settings!IsPrefix
    <2>5. \E x \in Words : r.real = Append(Settings!Old, x) \o r.rest
      <3>1. CASE r.label = "models"
        BY <1>4, <2>2, <2>3, <2>4, <3>1
           DEF Settings!Resolve, Settings!Location, Settings!ModelsFolder, Settings!Or
      <3>2. CASE r.label = "scratch"
        BY <1>4, <2>2, <2>3, <2>4, <3>2
           DEF Settings!Resolve, Settings!Location, Settings!Scratch, Settings!Or
      <3>3. CASE r.label = "teachers"
        BY <1>4, <2>2, <2>4, <3>3
           DEF Settings!Resolve, Settings!Location, Settings!Teachers, Settings!Or
      <3>4. CASE r.label = "fit_store"
        BY <1>4, <2>2, <2>3, <2>4, <3>4 DEF Settings!Resolve, Settings!FitStore, Settings!Or
      <3>5. QED
        BY <2>4, <3>1, <3>2, <3>3, <3>4 DEF Labels
    <2>6. QED
      BY <2>1, <2>5
  <1>5. QED
    BY <1>2, <1>3, <1>4

\* A first run names the lab folder that nothing names: all stays.
LEMMA FirstMovesNothing ==
  ASSUME NEW v, NEW w, v.env = Settings!Nothing, v.table = Settings!Nothing,
         "data" \notin v.older, "records" \notin v.older, w.env = v.env, w.older = v.older,
         w.table = Settings!Put(Settings!Nothing, "lab", Settings!Lab(v))
  PROVE  /\ \A k \in AskedFor : Settings!Location(w, k) = Settings!Location(v, k)
         /\ \A k : k # "lab" => Settings!Raw(w, k) = Settings!Raw(v, k)
         /\ Settings!Base(w) = Settings!Base(v) /\ ~Settings!Legacy(v)
  <1>1. \A k : Settings!Raw(v, k) = <<>>
    BY DEF Settings!Raw, Settings!Nothing
  <1>2. Settings!Lab(v) = <<"home", "VQLab">>
    BY <1>1 DEF Settings!Lab, Settings!Or
  <1>3. \A k : k # "lab" => Settings!Raw(w, k) = <<>>
    BY DEF Settings!Raw, Settings!Nothing, Settings!Put
  <1>4. Settings!Raw(w, "lab") = <<"home", "VQLab">>
    BY <1>2 DEF Settings!Raw, Settings!Nothing, Settings!Put
  <1> HIDE DEF Settings!Raw
  <1>5. Settings!Lab(w) = <<"home", "VQLab">>
    BY <1>4, KnownFolders DEF Settings!Lab, Settings!Or
  <1>6. Settings!Base(w) = Settings!Base(v) /\ ~Settings!Legacy(w) /\ ~Settings!Legacy(v)
    BY <1>2, <1>5 DEF Settings!Base, Settings!Legacy
  <1>7. Settings!ModelsFolder(w) = Settings!ModelsFolder(v)
    BY <1>1, <1>3, <1>6 DEF Settings!ModelsFolder, Settings!Or
  <1>8. Settings!Teachers(w) = Settings!Teachers(v)
    BY <1>1, <1>3, <1>6, <1>7 DEF Settings!Teachers, Settings!Or
  <1>9. Settings!Records(w) = Settings!Records(v)
    BY <1>1, <1>2, <1>3, <1>5 DEF Settings!Records, Settings!Or
  <1>10. Settings!Scratch(w) = Settings!Scratch(v) /\ Settings!GpuLease(w) = Settings!GpuLease(v)
    BY <1>1, <1>3, <1>6 DEF Settings!Scratch, Settings!GpuLease, Settings!Or
  <1>11. Settings!FitStore(w) = Settings!FitStore(v)
    BY <1>1, <1>3, <1>6 DEF Settings!FitStore, Settings!Or
  <1>12. QED
    BY <1>1, <1>2, <1>3, <1>5, <1>6, <1>7, <1>8, <1>9, <1>10, <1>11 DEF Settings!Location, AskedFor

-----------------------------------------------------------------------------
(* What a record is named by.                                                *)

LEMMA LeastThere ==
  ASSUME NEW S, S \subseteq Nat, S # {}
  PROVE  \E i \in S : \A j \in S : i <= j
  <1>1. IsWellFoundedOn(OpToRel(<, Nat), Nat)
    BY NatLessThanWellFounded, Zenon
  <1>2. PICK i \in S : \A j \in S : ~(<<j, i>> \in OpToRel(<, Nat))
    BY <1>1, WFMin, Zenon
  <1>3. \A j \in S : ~(j < i)
    BY <1>2 DEF OpToRel
  <1>4. QED
    BY <1>3

\* The pairs of _labelled_roots and private_prefixes.
Pair(v) ==
  {e \in {"models", "scratch", "teachers", "fit_store", "roots", "~"} \X Seq(Words) :
     /\ e[1] \in {"models", "scratch", "teachers"} => e[2] = Settings!Location(v, e[1])
     /\ e[1] = "teachers" => Settings!Teachers(v) # Settings!ModelsFolder(v)}

LEMMA PairsAre ==
  ASSUME NEW v, Viewed(v)
  PROVE  Settings!Labelled(v) \in Seq(Pair(v)) /\ Settings!Private(v) \in Seq(Pair(v))
  <1>1. /\ Settings!Location(v, "models") = Settings!ModelsFolder(v)
        /\ Settings!Location(v, "scratch") = Settings!Scratch(v)
        /\ Settings!Location(v, "teachers") = Settings!Teachers(v)
        /\ Settings!Location(v, "fit_store") = Settings!FitStore(v)
    BY DEF Settings!Location
  <1>2. /\ Settings!ModelsFolder(v) \in Seq(Words) /\ Settings!Scratch(v) \in Seq(Words)
        /\ Settings!Teachers(v) \in Seq(Words) /\ Settings!FitStore(v) \in Seq(Seq(Words))
    BY <1>1, LocationsFit DEF PlaceOf, AskedFor
  <1>3. <<"models", Settings!ModelsFolder(v)>> \in Pair(v) /\ <<"scratch", Settings!Scratch(v)>> \in Pair(v)
    BY <1>1, <1>2 DEF Pair
  <1>4. Settings!Teachers(v) # Settings!ModelsFolder(v) => <<"teachers", Settings!Teachers(v)>> \in Pair(v)
    BY <1>1, <1>2 DEF Pair
  <1>5. \A s \in Seq(Words) : <<"fit_store", s>> \in Pair(v) /\ <<"roots", s>> \in Pair(v) /\ <<"~", s>> \in Pair(v)
    BY DEF Pair
  <1> HIDE DEF Pair
  <1>6. Settings!Labelled(v) \in Seq(Pair(v))
    BY <1>3, <1>4 DEF Settings!Labelled
  <1>7. \A l \in {"fit_store", "roots"} : \A s \in Seq(Seq(Words)) :
          [i \in DOMAIN s |-> <<l, s[i]>>] \in Seq(Pair(v))
    <2> SUFFICES ASSUME NEW l \in {"fit_store", "roots"}, NEW s \in Seq(Seq(Words))
                 PROVE  [i \in DOMAIN s |-> <<l, s[i]>>] \in Seq(Pair(v))
      OBVIOUS
    <2>1. DOMAIN s = 1..Len(s) /\ Len(s) \in Nat /\ \A i \in 1..Len(s) : s[i] \in Seq(Words)
      OBVIOUS
    <2>2. \A i \in 1..Len(s) : <<l, s[i]>> \in Pair(v)
      BY <1>5, <2>1
    <2>3. QED
      BY <2>1, <2>2
  <1>8. Settings!Raw(v, "roots") \in Seq(Seq(Words))
    <2>1. Settings!Raw(v, "roots") = <<>> \/ PlaceOf("roots", Settings!Raw(v, "roots"))
      BY RawIs
    <2>2. PlaceOf("roots", Settings!Raw(v, "roots")) => Settings!Raw(v, "roots") \in Seq(Seq(Words))
      BY Zenon DEF PlaceOf
    <2>3. <<>> \in Seq(Seq(Words))
      OBVIOUS
    <2> HIDE DEF Settings!Raw
    <2>4. QED
      BY <2>1, <2>2, <2>3, Zenon
  <1>9. <<"home">> \in Seq(Words)
    BY SettingsAssumption
  <1>10. <<<<"~", <<"home">>>>>> \in Seq(Pair(v))
    <2>1. <<"~", <<"home">>>> \in Pair(v)
      BY <1>5, <1>9
    <2>2. \A e \in Pair(v) : <<e>> \in Seq(Pair(v))
      OBVIOUS
    <2>3. QED
      BY <2>1, <2>2
  <1>11. /\ [i \in DOMAIN Settings!FitStore(v) |-> <<"fit_store", Settings!FitStore(v)[i]>>] \in Seq(Pair(v))
         /\ [i \in DOMAIN Settings!Raw(v, "roots") |-> <<"roots", Settings!Raw(v, "roots")[i]>>] \in Seq(Pair(v))
    BY <1>2, <1>7, <1>8
  <1>12. \A s, t \in Seq(Pair(v)) : s \o t \in Seq(Pair(v))
    OBVIOUS
  <1>13. Settings!Private(v) \in Seq(Pair(v))
    BY <1>6, <1>10, <1>11, <1>12, Zenon DEF Settings!Private
  <1>14. QED
    BY <1>6, <1>13

\* The name is of a prefix, and the rest is what is left of the path.
NamedBy(v, as, path) ==
  \E e \in Pair(v) : as.label = e[1] /\ as.rest \in Seq(Words) /\ e[2] \o as.rest = path

LEMMA PortableIs ==
  ASSUME NEW v, NEW prefixes \in Seq(Pair(v)), NEW path \in Seq(Words),
         NEW as, as = Settings!Portable(prefixes, path), as.label # "none"
  PROVE  NamedBy(v, as, path)
  <1> DEFINE P == Pair(v)
  <1>0. prefixes \in Seq(P) /\ \A e \in P : e[2] \in Seq(Words)
    BY DEF Pair
  <1> HIDE DEF P
  <1> DEFINE size(i) == Len(prefixes[i][2])
             under == {i \in DOMAIN prefixes : Settings!IsPrefix(prefixes[i][2], path)}
             best == {i \in under : \A j \in under : size(j) < size(i) \/ (size(j) = size(i) /\ i <= j)}
             it == prefixes[CHOOSE i \in best : TRUE]
  <1>1. as = IF under = {} THEN [label |-> "none", rest |-> path]
             ELSE [label |-> it[1], rest |-> SubSeq(path, Len(it[2]) + 1, Len(path))]
    BY DEF Settings!Portable
  <1>2. DOMAIN prefixes = 1..Len(prefixes) /\ Len(prefixes) \in Nat /\ Len(path) \in Nat
        /\ \A i \in DOMAIN prefixes : prefixes[i] \in P /\ prefixes[i][2] \in Seq(Words)
    BY <1>0
  <1>3. \A i \in under : /\ i \in Nat /\ size(i) \in Nat /\ size(i) <= Len(path)
                         /\ prefixes[i] \in P /\ prefixes[i][2] \in Seq(Words)
                         /\ SubSeq(prefixes[i][2], 1, size(i)) = SubSeq(path, 1, size(i))
    BY <1>2 DEF Settings!IsPrefix
  <1>4. under # {}
    BY <1>1
  <1> HIDE DEF under, size
  <1>5. best # {}
    <2> DEFINE left == {Len(path) - size(i) : i \in under}
    <2>1. left \subseteq Nat /\ left # {}
      BY <1>2, <1>3, <1>4
    <2>2. PICK d \in left : \A j \in left : d <= j
      BY <2>1, LeastThere
    <2> DEFINE longest == {i \in under : Len(path) - size(i) = d}
    <2>3. longest \subseteq Nat /\ longest # {}
      BY <1>3, <2>2
    <2>4. PICK i \in longest : \A j \in longest : i <= j
      BY <2>3, LeastThere
    <2>5. ASSUME NEW j \in under
          PROVE  size(j) < size(i) \/ (size(j) = size(i) /\ i <= j)
      <3>1. i \in under /\ Len(path) - size(i) = d /\ Len(path) - size(j) \in left
        BY <2>4
      <3>2. d <= Len(path) - size(j)
        BY <2>2, <3>1
      <3>3. size(j) <= size(i)
        BY <1>2, <1>3, <3>1, <3>2
      <3>4. size(j) = size(i) => i <= j
        BY <2>4, <3>1
      <3>5. QED
        <4>1. size(i) \in Nat /\ size(j) \in Nat
          BY <1>3, <3>1
        <4>2. QED
          BY <3>3, <3>4, <4>1
    <2>6. QED
      BY <2>4, <2>5
  <1>6. PICK k \in under : it = prefixes[k]
    BY <1>5
  <1> HIDE DEF it, best
  <1>7. /\ it \in P /\ it[2] \in Seq(Words) /\ Len(it[2]) \in Nat /\ Len(it[2]) <= Len(path)
        /\ SubSeq(it[2], 1, Len(it[2])) = SubSeq(path, 1, Len(it[2]))
    BY <1>3, <1>6 DEF size
  <1>8. as = [label |-> it[1], rest |-> SubSeq(path, Len(it[2]) + 1, Len(path))]
    BY <1>1, <1>4
  <1>9. ASSUME NEW s \in Seq(Words), Len(s) <= Len(path), SubSeq(s, 1, Len(s)) = SubSeq(path, 1, Len(s))
        PROVE  /\ s \o SubSeq(path, Len(s) + 1, Len(path)) = path
               /\ SubSeq(path, Len(s) + 1, Len(path)) \in Seq(Words)
    <2>1. SubSeq(s, 1, Len(s)) = s /\ Len(s) \in Nat
      OBVIOUS
    <2> DEFINE rest == SubSeq(path, Len(s) + 1, Len(path))
    <2>2. /\ rest \in Seq(Words) /\ Len(rest) = Len(path) - Len(s)
          /\ \A i \in 1..Len(rest) : rest[i] = path[Len(s) + i]
      BY <2>1, <1>9
    <2>3. \A i \in 1..Len(s) : s[i] = path[i]
      BY <2>1, <1>9
    <2> HIDE DEF rest
    <2>4. s \o rest \in Seq(Words) /\ Len(s \o rest) = Len(path)
      BY <1>2, <2>1, <2>2
    <2>5. ASSUME NEW i \in 1..Len(path)
          PROVE  (s \o rest)[i] = path[i]
      <3>1. CASE i <= Len(s)
        BY <2>1, <2>2, <2>3, <3>1
      <3>2. CASE i > Len(s)
        <4>1. i - Len(s) \in 1..Len(rest) /\ Len(s) + (i - Len(s)) = i
          BY <1>2, <2>1, <2>2, <3>2
        <4>2. (s \o rest)[i] = rest[i - Len(s)]
          BY <1>2, <2>1, <2>2, <3>2
        <4>3. QED
          BY <2>2, <4>1, <4>2
      <3>3. i \in Nat /\ Len(s) \in Nat
        BY <1>2, <2>1
      <3>4. i <= Len(s) \/ i > Len(s)
        BY <3>3
      <3>5. QED
        BY <3>1, <3>2, <3>4
    <2>6. s \o rest = path
      BY <2>4, <2>5, SeqEqual
    <2>7. QED
      BY <2>2, <2>6 DEF rest
  <1> DEFINE rest == SubSeq(path, Len(it[2]) + 1, Len(path))
  <1>10. rest \in Seq(Words) /\ it[2] \o rest = path
    BY <1>7, <1>9
  <1>11. as.label = it[1] /\ as.rest = rest
    BY <1>8
  <1> HIDE DEF rest
  <1>12. QED
    BY <1>7, <1>10, <1>11, Zenon DEF P, NamedBy

\* What Record looks after is found where it was.
LEMMA RecordThere ==
  ASSUME NEW v, Viewed(v), NEW prefixes \in Seq(Pair(v)), NEW path \in Seq(Words),
         NEW as, as = Settings!Portable(prefixes, path), as.label \notin {"none", "~", "roots"},
         as.label = "fit_store" => Settings!FitStore(v)[1] \o as.rest = path
  PROVE  There(v, [label |-> as.label, rest |-> as.rest, real |-> path,
                   default |-> Settings!Raw(v, as.label) = <<>>,
                   shared |-> Settings!Teachers(v) = Settings!ModelsFolder(v)])
  <1> DEFINE r == [label |-> as.label, rest |-> as.rest, real |-> path,
                   default |-> Settings!Raw(v, as.label) = <<>>,
                   shared |-> Settings!Teachers(v) = Settings!ModelsFolder(v)]
  <1>2. PICK e \in Pair(v) : as.label = e[1] /\ as.rest \in Seq(Words) /\ e[2] \o as.rest = path
    <2>1. as.label # "none"
      OBVIOUS
    <2>2. NamedBy(v, as, path)
      BY <2>1, PortableIs
    <2>3. QED
      BY <2>2, Zenon DEF NamedBy
  <1>3. /\ r.label = as.label /\ r.rest = as.rest /\ r.real = path
        /\ r.default <=> Settings!Raw(v, as.label) = <<>>
        /\ r.shared <=> Settings!Teachers(v) = Settings!ModelsFolder(v)
    OBVIOUS
  <1> HIDE DEF r
  <1>4. as.label \in Labels
    BY <1>2 DEF Pair, Labels
  <1>5. Settings!Resolve(v, r) = path
    <2>1. CASE as.label = "fit_store"
      BY <1>3, <2>1 DEF Settings!Resolve
    <2>2. CASE as.label # "fit_store"
      <3>1. e[2] = Settings!Location(v, as.label)
        BY <1>2, <1>4, <2>2 DEF Pair, Labels
      <3> HIDE DEF Settings!Location
      <3>2. Settings!Resolve(v, r) = Settings!Location(v, as.label) \o as.rest
        BY <1>3, <1>4, <2>2 DEF Settings!Resolve, Labels
      <3>3. QED
        BY <1>2, <3>1, <3>2
    <2>3. QED
      BY <2>1, <2>2
  <1>6. as.label = "teachers" =>
          /\ Settings!Teachers(v) # Settings!ModelsFolder(v)
          /\ Settings!Raw(v, "teachers") = <<>> => Settings!Legacy(v)
    <2>1. as.label = "teachers" => Settings!Teachers(v) # Settings!ModelsFolder(v)
      BY <1>2 DEF Pair
    <2>2. QED
      BY <2>1 DEF Settings!Teachers, Settings!Or
  <1>7. There(v, r)
    BY <1>2, <1>3, <1>4, <1>5, <1>6, Zenon DEF There
  <1>8. QED
    BY <1>7 DEF r

-----------------------------------------------------------------------------
(* The processes at the config file.                                         *)

config == v1
draft == v2
remains == v3
shell == v4
settled == v5
recs == v6
clashed == v8
astray == v9
environ == v10

IsFile(x) == x # <<>> => x = <<x[1]>> /\ Tabled(x[1])

IsShell(c) ==
  /\ DOMAIN c = {"pc", "read", "at", "own", "key", "lines", "ask", "was", "enter"}
  /\ c.pc \in {"off", "new", "up", "edit", "temp"}

\* What a table of settings, an environment and the older data make of the places.
SeenBy(table, e, o) == [env |-> e, table |-> table, older |-> o]

\* A run's log is where its own view of the file, read once, has it.
LogFound(c) ==
  c.pc \in {"up", "edit", "temp"} =>
    c.own \/ (c.read # <<>> /\ c.at = Settings!RunLog(SeenBy(c.read[1], environ, remains)))

Writes(c) == c.pc \in {"new", "edit", "temp"} \/ c.ask # <<>>

\* A first run is of a place nobody has set up; lines are the file's and one
\* key; what is about to replace the file is them.
EditIs(c) ==
  /\ c.pc = "new" => Settings!Needed
  /\ c.pc \in {"off", "new"} => c.ask = <<>>
  /\ c.pc \in {"edit", "temp"} =>
       /\ c.lines = Settings!Put(Settings!Contents(config), c.key, c.lines[c.key])
       /\ PlaceOf(c.key, c.lines[c.key])
  /\ c.pc = "temp" => draft = <<c.lines>>

\* A walk shows places, the environment's own where it sets them, and those
\* answered with Enter only are in the file as they were shown.
Shows(c, k) == IF k = "fit_store" THEN <<c.was[k][1]>> ELSE c.was[k]
ShownPlaces(c) ==
  /\ c.ask \in Seq(AskedFor)
  /\ \A k \in AskedFor :
       /\ PlaceOf(k, c.was[k])
       /\ k \in DOMAIN environ => c.was[k] = environ[k]
       /\ k = "fit_store" /\ k \notin DOMAIN environ => c.was[k] = <<c.was[k][1]>>
AsShown(c) ==
  /\ \A k \in AskedFor \ Settings!Range(c.ask) :
       k \in DOMAIN Settings!Contents(config) /\ Settings!Contents(config)[k] = Shows(c, k)
  /\ c.pc \in {"edit", "temp"} => c.key = Head(c.ask) /\ c.lines[c.key] = Shows(c, c.key)
WalkIs(c) == c.ask # <<>> => ShownPlaces(c) /\ (c.enter => AsShown(c))

ShellSound(c) == IsFile(c.read) /\ EditIs(c) /\ WalkIs(c)

FilesAgree == IsFile(config) /\ IsFile(draft) /\ Settings!Contents(config) = settled
OneWriter == \A p, q \in Shells : Writes(shell[p]) /\ Writes(shell[q]) => p = q
RecordsThere == \A r \in recs : There(Settings!Now, r)

SetInv ==
  /\ environ \in Environments /\ DOMAIN shell = Shells /\ astray = {}
  /\ \A p \in Shells : IsShell(shell[p]) /\ LogFound(shell[p])
  /\ ~clashed => /\ FilesAgree /\ OneWriter /\ RecordsThere
                 /\ \A p \in Shells : ShellSound(shell[p])

LEMMA SetInit == Settings!Init => SetInv
  <1> SUFFICES ASSUME Settings!Init
               PROVE  SetInv
    OBVIOUS
  <1>1. /\ environ \in Environments /\ config = <<>> /\ draft = <<>> /\ settled = Settings!Nothing
        /\ shell = [p \in Shells |-> Settings!Off] /\ recs = {} /\ astray = {}
    BY DEF Settings!Init, environ, config, draft, settled, shell, recs, astray
  <1>2. /\ IsShell(Settings!Off) /\ Settings!Off.pc = "off" /\ Settings!Off.ask = <<>>
        /\ Settings!Off.read = <<>>
    BY DEF IsShell, Settings!Off
  <1>3. \A p \in Shells : shell[p] = Settings!Off
    BY <1>1
  <1>4. ~Writes(Settings!Off) /\ LogFound(Settings!Off) /\ ShellSound(Settings!Off)
    BY <1>2 DEF Writes, LogFound, ShellSound, IsFile, EditIs, WalkIs
  <1>5. FilesAgree
    BY <1>1 DEF FilesAgree, IsFile, Settings!Contents
  <1>6. OneWriter /\ RecordsThere
    BY <1>1, <1>3, <1>4 DEF OneWriter, RecordsThere
  <1>7. QED
    BY <1>1, <1>2, <1>3, <1>4, <1>5, <1>6 DEF SetInv

\* Who does not write has nothing to lose to others.
LEMMA IdleIsSound ==
  ASSUME NEW p \in Shells, ~Writes(shell[p]), IsFile(shell[p].read)
  PROVE  ShellSound(shell[p])
  BY DEF Writes, ShellSound, EditIs, WalkIs

\* Run logs do not follow the older data.
LEMMA LogStays ==
  ASSUME NEW p \in Shells, LogFound(shell[p]), environ' = environ,
         remains' = remains \/ remains' = remains \ {"data"}, shell'[p] = shell[p]
  PROVE  LogFound(shell[p])'
  <1>1. \A t : Settings!RunLog(SeenBy(t, environ, remains')) = Settings!RunLog(SeenBy(t, environ, remains))
    BY DEF Settings!RunLog, SeenBy, Settings!Records, Settings!Lab, Settings!Raw
  <1>2. QED
    BY <1>1 DEF LogFound

\* How the module sees them.
LEMMA SeenNow ==
  /\ \A t : Settings!Given(t) = SeenBy(t, environ, remains)
  /\ Settings!Now = SeenBy(Settings!Contents(config), environ, remains)
  /\ Settings!Now' = SeenBy(Settings!Contents(config'), environ', remains')
  BY DEF Settings!Given, Settings!Now, SeenBy, config, environ, remains

\* A step of one process that leaves the files alone.
LEMMA QuietStep ==
  ASSUME SetInv, NEW p \in Shells,
         UNCHANGED <<config, draft, remains, environ, settled, astray>>,
         DOMAIN shell' = Shells, \A q \in Shells \ {p} : shell'[q] = shell[q],
         IsShell(shell'[p]), LogFound(shell[p])',
         ~clashed' => /\ ~clashed /\ ShellSound(shell[p])' /\ RecordsThere'
                      /\ Writes(shell'[p]) => \A q \in Shells \ {p} : ~Writes(shell[q])
  PROVE  SetInv'
  <1>1. environ' \in Environments /\ astray' = {}
    BY DEF SetInv
  <1>2. \A q \in Shells : IsShell(shell'[q])
    BY DEF SetInv
  <1>3. ASSUME NEW q \in Shells PROVE LogFound(shell[q])'
    <2>1. CASE q = p
      BY <2>1
    <2>2. CASE q # p
      BY <2>2, LogStays DEF SetInv
    <2>3. QED
      BY <2>1, <2>2
  <1>4. ASSUME ~clashed' PROVE (FilesAgree /\ OneWriter /\ RecordsThere)'
    <2>1. FilesAgree'
      BY <1>4 DEF SetInv, FilesAgree
    <2>2. OneWriter'
      BY <1>4 DEF SetInv, OneWriter
    <2>3. QED
      BY <1>4, <2>1, <2>2
  <1>5. ASSUME ~clashed', NEW q \in Shells PROVE ShellSound(shell[q])'
    <2>1. CASE q = p
      BY <1>5, <2>1
    <2>2. CASE q # p
      <3>1. ShellSound(shell[q]) /\ shell'[q] = shell[q]
        BY <1>5, <2>2 DEF SetInv
      <3>2. Settings!Needed' <=> Settings!Needed
        BY DEF Settings!Needed, config, remains, environ
      <3>3. EditIs(shell[q])'
        BY <3>1, <3>2 DEF ShellSound, EditIs
      <3>4. WalkIs(shell[q])'
        BY <3>1 DEF ShellSound, WalkIs, ShownPlaces, AsShown, Shows
      <3>5. QED
        BY <3>1, <3>3, <3>4 DEF ShellSound
    <2>3. QED
      BY <2>1, <2>2
  <1>6. QED
    BY <1>1, <1>2, <1>3, <1>4, <1>5 DEF SetInv

\* A step of one process that changes the files: nobody else was about to.
LEMMA FileStep ==
  ASSUME SetInv, NEW p \in Shells, UNCHANGED <<remains, environ, astray>>,
         DOMAIN shell' = Shells, \A q \in Shells \ {p} : shell'[q] = shell[q],
         IsShell(shell'[p]), LogFound(shell[p])',
         ~clashed' => /\ ~clashed /\ FilesAgree' /\ ShellSound(shell[p])' /\ RecordsThere'
                      /\ \A q \in Shells \ {p} : ~Writes(shell[q])
  PROVE  SetInv'
  <1>1. environ' \in Environments /\ astray' = {}
    BY DEF SetInv
  <1>2. \A q \in Shells : IsShell(shell'[q])
    BY DEF SetInv
  <1>3. ASSUME NEW q \in Shells PROVE LogFound(shell[q])'
    <2>1. CASE q = p
      BY <2>1
    <2>2. CASE q # p
      BY <2>2, LogStays DEF SetInv
    <2>3. QED
      BY <2>1, <2>2
  <1>4. ASSUME ~clashed' PROVE (FilesAgree /\ OneWriter /\ RecordsThere)'
    <2>1. OneWriter'
      BY <1>4 DEF OneWriter
    <2>2. QED
      BY <1>4, <2>1
  <1>5. ASSUME ~clashed', NEW q \in Shells PROVE ShellSound(shell[q])'
    <2>1. CASE q = p
      BY <1>5, <2>1
    <2>2. CASE q # p
      <3>1. IsFile(shell[q].read) /\ ~Writes(shell[q]) /\ shell'[q] = shell[q]
        BY <1>5, <2>2 DEF SetInv, ShellSound
      <3>2. QED
        BY <3>1 DEF Writes, ShellSound, EditIs, WalkIs
    <2>3. QED
      BY <2>1, <2>2
  <1>6. QED
    BY <1>1, <1>2, <1>3, <1>4, <1>5 DEF SetInv

\* Records stay where they are as long as the files do.
LEMMA RecordsStay ==
  ASSUME RecordsThere, config' = config, remains' = remains, environ' = environ, recs' = recs
  PROVE  RecordsThere'
  <1>1. Settings!Now' = Settings!Now
    BY DEF Settings!Now, Settings!Given, config, remains, environ
  <1>2. QED
    BY <1>1 DEF RecordsThere

\* What is seen of the files is a view of the locations.
LEMMA NowIsView ==
  ASSUME environ \in Environments, IsFile(config)
  PROVE  /\ Viewed(Settings!Now) /\ Settings!Now.table = Settings!Contents(config)
         /\ Settings!Now.env = environ /\ Settings!Now.older = remains /\ Tabled(Settings!Nothing)
  <1>1. Tabled(Settings!Nothing)
    BY DEF Tabled, Settings!Nothing
  <1>2. Tabled(Settings!Contents(config))
    BY <1>1 DEF Settings!Contents, IsFile
  <1>3. Tabled(environ)
    BY SettingsAssumption DEF Tabled
  <1>4. /\ Settings!Now.table = Settings!Contents(config) /\ Settings!Now.env = environ
        /\ Settings!Now.older = remains
    BY DEF Settings!Now, Settings!Given, config, remains, environ
  <1>5. QED
    BY <1>1, <1>2, <1>3, <1>4 DEF Viewed

LEMMA EntersAlone ==
  ASSUME NEW p \in Shells, Settings!Enters(p), ~clashed'
  PROVE  ~clashed /\ \A q \in Shells \ {p} : ~Writes(shell[q])
  <1>1. \A q \in Shells : Settings!Writing(q) <=> Writes(shell[q])
    BY DEF Settings!Writing, Writes, shell
  <1>2. clashed' <=> (clashed \/ \E q \in Shells \ {p} : Settings!Writing(q))
    BY DEF Settings!Enters, clashed
  <1>3. QED
    BY <1>1, <1>2

\* Who writes, writes alone.
LEMMA WritesAlone ==
  ASSUME SetInv, NEW p \in Shells, Writes(shell[p]), clashed' = clashed, ~clashed'
  PROVE  ~clashed /\ \A q \in Shells \ {p} : ~Writes(shell[q])
  BY DEF SetInv, OneWriter

LEMMA BeginKeeps ==
  ASSUME SetInv, NEW p \in Shells, Settings!Begin(p)
  PROVE  SetInv'
  <1>1. /\ UNCHANGED <<config, draft, remains, environ, settled, astray, recs>>
        /\ shell[p] = Settings!Off /\ DOMAIN shell = Shells
    BY DEF SetInv, Settings!Begin, config, draft, remains, environ, settled, astray, recs, shell
  <1>2. /\ DOMAIN shell[p] = {"pc", "read", "at", "own", "key", "lines", "ask", "was", "enter"}
        /\ shell[p].read = <<>> /\ shell[p].ask = <<>>
    BY <1>1 DEF Settings!Off
  <1>3. ASSUME ~clashed, ~clashed' PROVE RecordsThere'
    BY <1>1, <1>3, RecordsStay DEF SetInv
  <1>4. CASE Settings!Needed
    <2>1. shell' = [shell EXCEPT ![p].pc = "new"] /\ Settings!Enters(p)
      BY <1>4 DEF Settings!Begin, shell
    <2>2. /\ DOMAIN shell' = Shells /\ \A q \in Shells \ {p} : shell'[q] = shell[q]
          /\ IsShell(shell'[p]) /\ shell'[p].pc = "new" /\ shell'[p].read = <<>> /\ shell'[p].ask = <<>>
      BY <1>1, <1>2, <2>1 DEF IsShell
    <2>3. LogFound(shell[p])'
      BY <2>2 DEF LogFound
    <2>4. Settings!Needed'
      BY <1>1, <1>4 DEF Settings!Needed, config, remains, environ
    <2>5. ShellSound(shell[p])'
      BY <2>2, <2>4 DEF ShellSound, IsFile, EditIs, WalkIs
    <2>6. QED
      BY <1>1, <1>3, <2>1, <2>2, <2>3, <2>5, EntersAlone, QuietStep
  <1>5. CASE ~Settings!Needed
    <2>1. /\ shell' = [shell EXCEPT ![p].pc = "up", ![p].read = <<Settings!Contents(config)>>,
                         ![p].at = Settings!RunLog(Settings!Now)]
          /\ clashed' = clashed
      BY <1>5 DEF Settings!Begin, shell, config, clashed
    <2>2. /\ DOMAIN shell' = Shells /\ \A q \in Shells \ {p} : shell'[q] = shell[q]
          /\ IsShell(shell'[p]) /\ shell'[p].pc = "up" /\ shell'[p].ask = <<>>
          /\ shell'[p].read = <<Settings!Contents(config)>>
          /\ shell'[p].at = Settings!RunLog(Settings!Now)
      BY <1>1, <1>2, <2>1 DEF IsShell
    <2>3. LogFound(shell[p])'
      <3>1. Settings!RunLog(Settings!Now) = Settings!RunLog(SeenBy(shell'[p].read[1], environ', remains'))
        BY <1>1, <2>2, SeenNow
      <3>2. shell'[p].read # <<>>
        BY <2>2
      <3>3. QED
        BY <2>2, <3>1, <3>2 DEF LogFound
    <2>4. ~clashed' => ShellSound(shell[p])' /\ ~Writes(shell'[p])
      <3>1. ~clashed' => IsFile(shell'[p].read)
        BY <2>1, <2>2, NowIsView DEF SetInv, FilesAgree, IsFile, Viewed
      <3>2. QED
        BY <2>2, <3>1 DEF ShellSound, EditIs, WalkIs, Writes
    <2>5. QED
      BY <1>1, <1>3, <2>1, <2>2, <2>3, <2>4, QuietStep
  <1>6. QED
    BY <1>4, <1>5

LEMMA FirstRunKeeps ==
  ASSUME SetInv, NEW p \in Shells, Settings!FirstRun(p)
  PROVE  SetInv'
  <1> DEFINE table == Settings!Put(Settings!Nothing, "lab", Settings!Lab(Settings!Now))
             now == SeenBy(table, environ, remains)
  <1>1. /\ UNCHANGED <<draft, remains, environ, recs, clashed>>
        /\ shell[p].pc = "new" /\ DOMAIN shell = Shells /\ IsShell(shell[p])
        /\ config' = <<table>> /\ settled' = Settings!Put(settled, "lab", table["lab"])
        /\ shell' = [shell EXCEPT ![p].pc = "up", ![p].read = config',
                       ![p].at = Settings!RunLog(Settings!Given(table))]
        /\ astray' = (IF ~clashed /\ Settings!Differ(Settings!Now, Settings!Given(table))
                      THEN astray \cup {"first_run"} ELSE astray)
    BY DEF SetInv, Settings!FirstRun, config, draft, remains, environ, settled, astray, recs, shell, clashed
  <1>2. Settings!Given(table) = now
    BY SeenNow
  <1>3. now.env = environ /\ now.table = table /\ now.older = remains /\ Settings!Now' = now
    BY <1>1, SeenNow DEF SeenBy, Settings!Contents
  <1>4. /\ DOMAIN shell' = Shells /\ \A q \in Shells \ {p} : shell'[q] = shell[q]
        /\ IsShell(shell'[p]) /\ shell'[p].pc = "up" /\ shell'[p].ask = shell[p].ask
        /\ shell'[p].read = <<table>> /\ shell'[p].at = Settings!RunLog(now)
    <2> HIDE DEF table, now
    <2>1. QED
      BY <1>1, <1>2 DEF IsShell
  <1>5. LogFound(shell[p])'
    <2> HIDE DEF table
    <2>1. shell'[p].read # <<>> /\ shell'[p].read[1] = table
      BY <1>4
    <2>2. now = SeenBy(table, environ', remains')
      BY <1>1
    <2>3. QED
      BY <1>4, <2>1, <2>2 DEF LogFound
  <1> HIDE DEF now
  <1>6. ASSUME ~clashed
        PROVE  /\ config = <<>> /\ settled = Settings!Nothing /\ environ = Settings!Nothing
               /\ "data" \notin remains /\ "records" \notin remains /\ shell[p].ask = <<>>
               /\ Settings!Now.env = environ /\ Settings!Now.table = Settings!Nothing
               /\ Settings!Now.older = remains
    <2>1. Settings!Needed /\ shell[p].ask = <<>> /\ Settings!Contents(config) = settled
      BY <1>1, <1>6 DEF SetInv, ShellSound, EditIs, FilesAgree
    <2>2. /\ config = <<>> /\ environ = Settings!Nothing
          /\ "data" \notin remains /\ "records" \notin remains
      BY <2>1 DEF Settings!Needed, config, environ, remains
    <2>3. QED
      BY <2>1, <2>2, SeenNow DEF SeenBy, Settings!Contents
  <1>7. ASSUME ~clashed
        PROVE  /\ \A k \in AskedFor : Settings!Location(now, k) = Settings!Location(Settings!Now, k)
               /\ \A k : k # "lab" => Settings!Raw(now, k) = Settings!Raw(Settings!Now, k)
               /\ Settings!Base(now) = Settings!Base(Settings!Now) /\ ~Settings!Legacy(Settings!Now)
    BY <1>3, <1>6, <1>7, FirstMovesNothing
  <1>8. astray' = astray
    BY <1>1, <1>2, <1>7, AskedAre DEF Settings!Differ
  <1>9. ASSUME ~clashed PROVE FilesAgree'
    <2>1. Tabled(Settings!Nothing) /\ Settings!Lab(Settings!Now) \in Seq(Words)
          /\ Settings!Lab(Settings!Now) # <<>>
      BY <1>6, <1>9, NowIsView, BasesFit DEF SetInv, FilesAgree
    <2>2. Tabled(table)
      BY <2>1, PutTabled DEF PlaceOf
    <2>3. table["lab"] = Settings!Lab(Settings!Now)
      BY DEF Settings!Put
    <2> HIDE DEF table
    <2>4. Settings!Contents(config') = table /\ IsFile(config')
      BY <1>1, <2>2 DEF Settings!Contents, IsFile
    <2>5. settled' = table
      BY <1>1, <1>6, <1>9, <2>3 DEF table
    <2>6. QED
      BY <1>1, <1>9, <2>4, <2>5 DEF FilesAgree, SetInv
  <1>10. ASSUME ~clashed PROVE RecordsThere'
    <2>1. ASSUME NEW r \in recs PROVE There(now, r)
      <3>1. There(Settings!Now, r) /\ r.label # "lab"
        BY <1>10, <2>1 DEF SetInv, RecordsThere, There, Labels
      <3>2. Settings!Raw(now, r.label) = Settings!Raw(Settings!Now, r.label)
        BY <1>7, <1>10, <3>1, Zenon
      <3>3. Settings!Raw(Settings!Now, r.label) = <<>> => r.label # "teachers"
        BY <1>7, <1>10, <3>1, Zenon DEF There
      <3>4. QED
        BY <1>7, <1>10, <3>1, <3>2, <3>3, StaysThere
    <2>2. QED
      BY <1>1, <1>3, <2>1 DEF RecordsThere
  <1>11. ASSUME ~clashed PROVE ShellSound(shell[p])'
    <2>1. IsFile(shell'[p].read)
      BY <1>1, <1>4, <1>9, <1>11 DEF FilesAgree
    <2>2. QED
      BY <1>4, <1>6, <1>11, <2>1 DEF ShellSound, EditIs, WalkIs
  <1>12. Writes(shell[p])
    BY <1>1 DEF Writes
  <1>13. QED
    BY <1>1, <1>4, <1>5, <1>8, <1>9, <1>10, <1>11, <1>12, WritesAlone, FileStep

\* Lines read now and one key.
LEMMA EditSound ==
  ASSUME NEW p \in Shells, NEW k, NEW place, PlaceOf(k, place), config' = config,
         shell'[p].pc = "edit", shell'[p].key = k,
         shell'[p].lines = Settings!Put(Settings!Contents(config), k, place)
  PROVE  EditIs(shell[p])' /\ shell'[p].lines[k] = place
  <1>1. Settings!Put(Settings!Contents(config), k, place)[k] = place
    BY DEF Settings!Put
  <1>2. QED
    BY <1>1 DEF EditIs

LEMMA SetKeeps ==
  ASSUME SetInv, NEW p \in Shells, NEW k \in DOMAIN Settable, NEW place \in Settable[k],
         Settings!Set(p, k, place)
  PROVE  SetInv'
  <1>1. /\ UNCHANGED <<config, draft, remains, environ, settled, astray, recs>>
        /\ shell[p].pc = "up" /\ shell[p].ask = <<>> /\ DOMAIN shell = Shells /\ IsShell(shell[p])
        /\ Settings!Enters(p)
        /\ shell' = [shell EXCEPT ![p].pc = "edit", ![p].key = k,
                       ![p].lines = Settings!Put(Settings!Contents(config), k, place)]
    BY DEF SetInv, Settings!Set, Settings!Edit, config, draft, remains, environ, settled, astray, recs, shell
  <1>2. /\ DOMAIN shell' = Shells /\ \A q \in Shells \ {p} : shell'[q] = shell[q]
        /\ IsShell(shell'[p]) /\ shell'[p].pc = "edit" /\ shell'[p].ask = shell[p].ask
        /\ shell'[p].key = k /\ shell'[p].read = shell[p].read
        /\ shell'[p].lines = Settings!Put(Settings!Contents(config), k, place)
        /\ shell'[p].at = shell[p].at /\ shell'[p].own = shell[p].own
    BY <1>1 DEF IsShell
  <1>3. LogFound(shell[p])'
    BY <1>1, <1>2 DEF SetInv, LogFound
  <1>4. EditIs(shell[p])'
    BY <1>1, <1>2, EditSound, SettingsAssumption
  <1>5. ~clashed => ShellSound(shell[p])'
    BY <1>1, <1>2, <1>4 DEF SetInv, ShellSound, WalkIs
  <1>6. ~clashed => RecordsThere'
    BY <1>1, RecordsStay DEF SetInv
  <1>7. QED
    BY <1>1, <1>2, <1>3, <1>5, <1>6, EntersAlone, QuietStep

\* An edit for `init`: what it shows, or what it is told.
LEMMA WalkEdits ==
  ASSUME SetInv, NEW p \in Shells, NEW k, NEW place,
         shell[p].pc = "up", shell[p].ask # <<>>,
         k = Head(shell[p].ask), ~clashed => PlaceOf(k, place),
         UNCHANGED <<config, draft, remains, environ, settled, astray, recs, clashed>>,
         DOMAIN shell' = Shells, \A q \in Shells \ {p} : shell'[q] = shell[q],
         IsShell(shell'[p]), shell'[p].pc = "edit", shell'[p].key = k,
         shell'[p].lines = Settings!Put(Settings!Contents(config), k, place),
         shell'[p].ask = shell[p].ask, shell'[p].read = shell[p].read, shell'[p].at = shell[p].at,
         shell'[p].own = shell[p].own, shell'[p].was = shell[p].was,
         shell'[p].enter => shell[p].enter /\ place = Shows(shell[p], k)
  PROVE  SetInv'
  <1>1. LogFound(shell[p])'
    BY DEF SetInv, LogFound
  <1>2. ASSUME ~clashed PROVE ShellSound(shell[p])'
    <2>1. EditIs(shell[p])' /\ shell'[p].lines[k] = place
      <3>1. PlaceOf(k, place)
        BY <1>2
      <3>2. shell'[p].lines[k] = place
        BY DEF Settings!Put
      <3>3. QED
        BY <3>1, <3>2 DEF EditIs
    <2>2. IsFile(shell'[p].read) /\ ShownPlaces(shell[p])
      BY <1>2 DEF SetInv, ShellSound, WalkIs
    <2>3. ShownPlaces(shell[p])'
      BY <2>2 DEF ShownPlaces
    <2>4. ASSUME shell'[p].enter PROVE AsShown(shell[p])'
      <3>1. AsShown(shell[p])
        BY <1>2, <2>4, Zenon DEF SetInv, ShellSound, WalkIs
      <3>2. place = Shows(shell[p], k)
        BY <2>4, Zenon
      <3>3. \A l : Shows(shell[p], l)' = Shows(shell[p], l)
        BY DEF Shows
      <3>4. QED
        BY <2>1, <3>1, <3>2, <3>3 DEF AsShown
    <2>5. WalkIs(shell[p])'
      BY <2>3, <2>4, Zenon DEF WalkIs
    <2>6. QED
      BY <2>1, <2>2, <2>5, Zenon DEF ShellSound
  <1>3. ~clashed => RecordsThere'
    BY RecordsStay DEF SetInv
  <1>4. Writes(shell[p])
    BY DEF Writes
  <1>5. ~clashed' => ~clashed /\ \A q \in Shells \ {p} : ~Writes(shell[q])
    BY <1>4, WritesAlone
  <1>6. QED
    BY <1>1, <1>2, <1>3, <1>5, QuietStep

\* What is shown is a place.
LEMMA ShownFits ==
  ASSUME NEW c, ShownPlaces(c), NEW k \in AskedFor
  PROVE  PlaceOf(k, Shows(c, k))
  <1>1. PlaceOf(k, c.was[k])
    BY DEF ShownPlaces
  <1>2. CASE k = "fit_store"
    <2>1. c.was[k] \in Seq(Seq(Words)) /\ c.was[k] # <<>>
      BY <1>1, <1>2 DEF PlaceOf
    <2>2. c.was[k][1] \in Seq(Words)
      BY <2>1
    <2>3. <<c.was[k][1]>> \in Seq(Seq(Words)) /\ <<c.was[k][1]>> # <<>>
      BY <2>2
    <2>4. QED
      BY <1>2, <2>3 DEF PlaceOf, Shows
  <1>3. CASE k # "fit_store"
    BY <1>1, <1>3 DEF Shows
  <1>4. QED
    BY <1>2, <1>3

LEMMA EnterKeeps ==
  ASSUME SetInv, NEW p \in Shells, Settings!Enter(p)
  PROVE  SetInv'
  <1> DEFINE k == Head(shell[p].ask)
             place == Shows(shell[p], k)
             lines == Settings!Put(Settings!Contents(config), k, place)
  <1>1. /\ UNCHANGED <<config, draft, remains, environ, settled, astray, recs, clashed>>
        /\ shell[p].pc = "up" /\ shell[p].ask # <<>> /\ DOMAIN shell = Shells /\ IsShell(shell[p])
    BY DEF SetInv, Settings!Enter, config, draft, remains, environ, settled, astray, recs, shell, clashed
  <1>2. shell' = [shell EXCEPT ![p].pc = "edit", ![p].key = k, ![p].lines = lines]
    BY DEF Settings!Enter, Settings!Edit, Settings!Shown, Shows, shell, config
  <1>3. ~clashed => PlaceOf(k, place)
    <2>1. ~clashed => ShownPlaces(shell[p])
      BY <1>1 DEF SetInv, ShellSound, WalkIs
    <2>2. ~clashed => k \in AskedFor
      BY <1>1, <2>1 DEF ShownPlaces
    <2>3. QED
      BY <2>1, <2>2, ShownFits
  <1> HIDE DEF k, place, lines
  <1>4. /\ DOMAIN shell' = Shells /\ \A q \in Shells \ {p} : shell'[q] = shell[q]
        /\ IsShell(shell'[p]) /\ shell'[p].pc = "edit" /\ shell'[p].key = k
        /\ shell'[p].lines = lines /\ shell'[p].ask = shell[p].ask
        /\ shell'[p].read = shell[p].read /\ shell'[p].at = shell[p].at
        /\ shell'[p].own = shell[p].own /\ shell'[p].was = shell[p].was
    BY <1>1, <1>2 DEF IsShell
  <1>5. shell'[p].enter => shell[p].enter /\ place = Shows(shell[p], k)
    BY <1>1, <1>2, Zenon DEF IsShell, place
  <1>6. k = Head(shell[p].ask) /\ lines = Settings!Put(Settings!Contents(config), k, place)
    BY DEF k, lines
  <1>7. QED
    BY <1>1, <1>3, <1>4, <1>5, <1>6, WalkEdits

LEMMA AnswerKeeps ==
  ASSUME SetInv, NEW p \in Shells, NEW k \in DOMAIN Settable, NEW place \in Settable[k],
         Head(shell[p].ask) = k, Settings!Answer(p, place)
  PROVE  SetInv'
  <1> DEFINE lines == Settings!Put(Settings!Contents(config), k, place)
  <1>1. /\ UNCHANGED <<config, draft, remains, environ, settled, astray, recs, clashed>>
        /\ shell[p].pc = "up" /\ shell[p].ask # <<>> /\ DOMAIN shell = Shells /\ IsShell(shell[p])
        /\ shell' = [shell EXCEPT ![p].pc = "edit", ![p].key = k, ![p].enter = FALSE,
                       ![p].lines = lines]
    BY DEF SetInv, Settings!Answer, config, draft, remains, environ, settled, astray, recs, shell, clashed
  <1>2. PlaceOf(k, place)
    BY SettingsAssumption
  <1> HIDE DEF lines
  <1>3. /\ DOMAIN shell' = Shells /\ \A q \in Shells \ {p} : shell'[q] = shell[q]
        /\ IsShell(shell'[p]) /\ shell'[p].pc = "edit" /\ shell'[p].key = k
        /\ shell'[p].lines = lines /\ shell'[p].ask = shell[p].ask
        /\ shell'[p].read = shell[p].read /\ shell'[p].at = shell[p].at
        /\ shell'[p].own = shell[p].own /\ shell'[p].was = shell[p].was
    BY <1>1 DEF IsShell
  <1>4. ~shell'[p].enter
    BY <1>1, Zenon DEF IsShell
  <1>5. lines = Settings!Put(Settings!Contents(config), k, place)
    BY DEF lines
  <1>6. QED
    BY <1>1, <1>2, <1>3, <1>4, <1>5, WalkEdits

LEMMA WriteTempKeeps ==
  ASSUME SetInv, NEW p \in Shells, Settings!WriteTemp(p)
  PROVE  SetInv'
  <1>1. /\ UNCHANGED <<config, remains, environ, settled, astray, recs, clashed>>
        /\ shell[p].pc = "edit" /\ DOMAIN shell = Shells /\ IsShell(shell[p])
        /\ draft' = <<shell[p].lines>> /\ shell' = [shell EXCEPT ![p].pc = "temp"]
    BY DEF SetInv, Settings!WriteTemp, config, draft, remains, environ, settled, astray, recs, shell, clashed
  <1>2. /\ DOMAIN shell' = Shells /\ \A q \in Shells \ {p} : shell'[q] = shell[q]
        /\ IsShell(shell'[p]) /\ shell'[p].pc = "temp" /\ shell'[p].ask = shell[p].ask
        /\ shell'[p].key = shell[p].key /\ shell'[p].read = shell[p].read
        /\ shell'[p].lines = shell[p].lines /\ shell'[p].at = shell[p].at
        /\ shell'[p].own = shell[p].own /\ shell'[p].was = shell[p].was
    BY <1>1 DEF IsShell
  <1>3. shell'[p].enter => shell[p].enter
    BY <1>1, Zenon DEF IsShell
  <1>4. LogFound(shell[p])'
    BY <1>1, <1>2 DEF SetInv, LogFound
  <1>5. ASSUME ~clashed PROVE FilesAgree' /\ EditIs(shell[p])'
    <2>1. /\ shell[p].lines = Settings!Put(Settings!Contents(config), shell[p].key, shell[p].lines[shell[p].key])
          /\ PlaceOf(shell[p].key, shell[p].lines[shell[p].key])
      BY <1>1, <1>5 DEF SetInv, ShellSound, EditIs
    <2>2. Tabled(Settings!Contents(config))
      BY <1>5, NowIsView DEF SetInv, FilesAgree, Viewed
    <2>3. Tabled(shell[p].lines)
      BY <2>1, <2>2, PutTabled
    <2>4. FilesAgree'
      BY <1>1, <1>5, <2>3 DEF SetInv, FilesAgree, IsFile
    <2>5. EditIs(shell[p])'
      BY <1>1, <1>2, <2>1 DEF EditIs
    <2>6. QED
      BY <2>4, <2>5
  <1>6. ASSUME ~clashed PROVE WalkIs(shell[p])'
    <2>1. CASE shell[p].ask = <<>>
      BY <1>2, <2>1 DEF WalkIs
    <2>2. CASE shell[p].ask # <<>>
      <3>1. ShownPlaces(shell[p])'
        BY <1>1, <1>2, <1>6, <2>2 DEF SetInv, ShellSound, WalkIs, ShownPlaces
      <3>2. \A l : Shows(shell[p], l)' = Shows(shell[p], l)
        BY <1>2 DEF Shows
      <3>3. shell'[p].enter => AsShown(shell[p])
        BY <1>3, <1>6, <2>2, Zenon DEF SetInv, ShellSound, WalkIs
      <3>4. shell'[p].enter => AsShown(shell[p])'
        BY <1>1, <1>2, <3>2, <3>3 DEF AsShown
      <3>5. QED
        BY <3>1, <3>4, Zenon DEF WalkIs
    <2>3. QED
      BY <2>1, <2>2
  <1>7. ~clashed => ShellSound(shell[p])'
    BY <1>2, <1>5, <1>6 DEF SetInv, ShellSound
  <1>8. ~clashed => RecordsThere'
    BY <1>1, RecordsStay DEF SetInv
  <1>9. Writes(shell[p])
    BY <1>1 DEF Writes
  <1>10. QED
    BY <1>1, <1>2, <1>4, <1>5, <1>7, <1>8, <1>9, WritesAlone, FileStep

\* Enter alone leaves every place where it was shown.
LEMMA NobodyStrays ==
  ASSUME NEW c, ShownPlaces(c), AsShown(c), Len(c.ask) = 1, c.pc = "temp",
         NEW v, v.env = environ, v.table = c.lines,
         c.lines = Settings!Put(Settings!Contents(config), c.key, c.lines[c.key]),
         NEW k \in AskedFor
  PROVE  Settings!Location(v, k) = c.was[k]
  <1>1. Settings!Range(c.ask) = {c.key}
    <2>1. DOMAIN c.ask = {1} /\ c.ask[1] = c.key
      BY DEF ShownPlaces, AsShown
    <2>2. QED
      BY <2>1 DEF Settings!Range
  <1>2. k \in DOMAIN c.lines /\ c.lines[k] = Shows(c, k)
    <2>1. CASE k = c.key
      BY <2>1 DEF AsShown, Settings!Put
    <2>2. CASE k # c.key
      BY <1>1, <2>2 DEF AsShown, Settings!Put
    <2>3. QED
      BY <2>1, <2>2
  <1>3. c.was[k] # <<>>
    BY DEF ShownPlaces, PlaceOf
  <1>4. Settings!Raw(v, k) = c.was[k]
    <2>1. CASE k \in DOMAIN environ
      BY <2>1 DEF ShownPlaces, Settings!Raw
    <2>2. CASE k \notin DOMAIN environ
      <3>1. Shows(c, k) = c.was[k]
        BY <2>2 DEF ShownPlaces, Shows
      <3>2. QED
        BY <1>2, <2>2, <3>1 DEF Settings!Raw
    <2>3. QED
      BY <2>1, <2>2
  <1>5. Settings!Location(v, k) = Settings!Raw(v, k)
    <2>1. /\ k = "lab" => Settings!Lab(v) = Settings!Raw(v, k)
          /\ k = "scratch" => Settings!Scratch(v) = Settings!Raw(v, k)
          /\ k = "models" => Settings!ModelsFolder(v) = Settings!Raw(v, k)
          /\ k = "teachers" => Settings!Teachers(v) = Settings!Raw(v, k)
          /\ k = "fit_store" => Settings!FitStore(v) = Settings!Raw(v, k)
          /\ k = "gpu_lease" => Settings!GpuLease(v) = Settings!Raw(v, k)
          /\ k = "records" => Settings!Records(v) = Settings!Raw(v, k)
      <3> HIDE DEF Settings!Raw
      <3>1. QED
        BY <1>3, <1>4 DEF Settings!Lab, Settings!Scratch, Settings!ModelsFolder, Settings!Teachers,
           Settings!FitStore, Settings!GpuLease, Settings!Records, Settings!Or
    <2>2. QED
      BY <2>1 DEF Settings!Location, AskedFor
  <1>6. QED
    BY <1>4, <1>5

LEMMA ReplaceKeeps ==
  ASSUME SetInv, NEW p \in Shells, Settings!Replace(p)
  PROVE  SetInv'
  <1> DEFINE key == shell[p].key
             lines == shell[p].lines
             rest == Tail(shell[p].ask)
  <1>1. /\ UNCHANGED <<remains, environ, clashed>> /\ draft' = <<>>
        /\ shell[p].pc = "temp" /\ DOMAIN shell = Shells /\ IsShell(shell[p]) /\ astray = {}
    BY DEF SetInv, Settings!Replace, draft, remains, environ, shell, clashed, astray
  <1>2. Writes(shell[p])
    BY <1>1 DEF Writes
  <1>3. CASE draft = <<>>
    <2>1. /\ shell' = [shell EXCEPT ![p].pc = "up", ![p].ask = <<>>]
          /\ UNCHANGED <<config, recs, astray, settled>>
      BY <1>3 DEF Settings!Replace, draft, config, recs, astray, settled, shell
    <2>2. /\ DOMAIN shell' = Shells /\ \A q \in Shells \ {p} : shell'[q] = shell[q]
          /\ IsShell(shell'[p]) /\ shell'[p].pc = "up" /\ shell'[p].at = shell[p].at
          /\ shell'[p].own = shell[p].own /\ shell'[p].read = shell[p].read
      BY <1>1, <2>1 DEF IsShell
    <2>3. LogFound(shell[p])'
      BY <1>1, <2>2 DEF SetInv, LogFound
    <2>4. clashed
      BY <1>1, <1>3 DEF SetInv, ShellSound, EditIs
    <2>5. QED
      BY <1>1, <2>1, <2>2, <2>3, <2>4, FileStep
  <1>4. CASE draft # <<>>
    <2>1. /\ config' = draft /\ settled' = Settings!Put(settled, key, lines[key])
          /\ recs' = Settings!Unmoved(key)
          /\ astray' = IF Settings!Astray(p) THEN astray \cup {"init"} ELSE astray
      <3>1. /\ config' = draft /\ settled' = Settings!Put(settled, key, lines[key])
            /\ recs' = Settings!Unmoved(key)
        BY <1>4 DEF Settings!Replace, config, draft, settled, recs, shell
      <3>2. astray' = IF Settings!Astray(p) THEN astray \cup {"init"} ELSE astray
        BY <1>4, Zenon DEF Settings!Replace, draft, astray
      <3>3. QED
        BY <3>1, <3>2
    <2>2. shell' = [shell EXCEPT ![p].pc = "up", ![p].read = <<>>, ![p].own = TRUE, ![p].at = <<>>,
                      ![p].key = "none", ![p].lines = Settings!Nothing,
                      ![p].ask = IF @ = <<>> THEN @ ELSE Tail(@),
                      ![p].was = IF Len(shell[p].ask) > 1 THEN @ ELSE Settings!Nothing,
                      ![p].enter = @ /\ Len(shell[p].ask) > 1]
      BY <1>4, Zenon DEF Settings!Replace, draft, shell
    <2>3. /\ DOMAIN shell' = Shells /\ \A q \in Shells \ {p} : shell'[q] = shell[q]
          /\ IsShell(shell'[p]) /\ shell'[p].pc = "up" /\ shell'[p].read = <<>> /\ shell'[p].own
          /\ shell'[p].ask = (IF shell[p].ask = <<>> THEN <<>> ELSE rest)
          /\ Len(shell[p].ask) > 1 => shell'[p].was = shell[p].was
      BY <1>1, <2>2, Zenon DEF IsShell
    <2>4. shell'[p].enter => shell[p].enter
      BY <1>1, <2>2, Zenon DEF IsShell
    <2>5. LogFound(shell[p])'
      BY <2>3 DEF LogFound
    <2>6. ASSUME ~clashed
          PROVE  /\ draft = <<lines>> /\ lines = Settings!Put(Settings!Contents(config), key, lines[key])
                 /\ PlaceOf(key, lines[key]) /\ FilesAgree /\ RecordsThere /\ WalkIs(shell[p])
      BY <1>1, <2>6 DEF SetInv, ShellSound, EditIs
    <2> HIDE DEF key, lines, rest
    <2>7. ASSUME ~clashed PROVE FilesAgree'
      <3>1. Tabled(lines)
        BY <2>6, <2>7 DEF FilesAgree, IsFile
      <3>2. Settings!Contents(config') = lines
        BY <2>1, <2>6, <2>7 DEF Settings!Contents
      <3>3. settled' = lines
        BY <2>1, <2>6, <2>7 DEF FilesAgree
      <3>4. QED
        BY <1>1, <2>1, <2>6, <2>7, <3>1, <3>2, <3>3 DEF FilesAgree, IsFile
    <2>8. ASSUME ~clashed PROVE astray' = astray
      <3>1. ASSUME Settings!Astray(p) PROVE FALSE
        <4>1. /\ Len(shell[p].ask) = 1 /\ shell[p].enter
              /\ \E k \in AskedFor : Settings!Location(Settings!Given(draft[1]), k) # shell[p].was[k]
          BY <3>1, AskedAre, Zenon DEF Settings!Astray, shell, draft
        <4>2. ShownPlaces(shell[p]) /\ AsShown(shell[p])
          <5>1. Len(shell[p].ask) = 1
            BY <4>1, Zenon
          <5>2. shell[p].ask # <<>>
            BY <5>1
          <5>3. QED
            BY <2>6, <2>8, <4>1, <5>2, Zenon DEF WalkIs
        <4>3. /\ Settings!Given(draft[1]).env = environ
              /\ Settings!Given(draft[1]).table = shell[p].lines
          BY <2>6, <2>8, SeenNow DEF SeenBy, lines
        <4>4. shell[p].lines
              = Settings!Put(Settings!Contents(config), shell[p].key, shell[p].lines[shell[p].key])
          BY <2>6, <2>8 DEF lines, key
        <4>5. \A k \in AskedFor : Settings!Location(Settings!Given(draft[1]), k) = shell[p].was[k]
          BY <1>1, <4>1, <4>2, <4>3, <4>4, NobodyStrays
        <4>6. QED
          BY <4>1, <4>5
      <3>2. QED
        BY <2>1, <3>1
    <2>9. ASSUME ~clashed PROVE RecordsThere'
      <3> DEFINE v == Settings!Now
                 w == SeenBy(lines, environ, remains)
      <3>1. /\ v.env = environ /\ v.older = remains /\ v.table = Settings!Contents(config)
            /\ w.env = environ /\ w.older = remains /\ w.table = lines /\ Settings!Now' = w
        BY <1>1, <2>1, <2>6, <2>9, SeenNow DEF SeenBy, Settings!Contents
      <3> HIDE DEF v, w
      <3>2. \A l : l # key => Settings!Raw(w, l) = Settings!Raw(v, l)
        <4>1. w.env = v.env /\ w.table = Settings!Put(v.table, key, lines[key])
          BY <2>6, <2>9, <3>1, Zenon
        <4>2. ASSUME NEW l, l # key PROVE Settings!Raw(w, l) = Settings!Raw(v, l)
          BY <4>1, <4>2 DEF Settings!Raw, Settings!Put
        <4>3. QED
          BY <4>2
      <3>3. ASSUME NEW r \in recs' PROVE There(w, r)
        <4>1. r \in recs
          BY <2>1, <3>3, Zenon DEF Settings!Unmoved, recs
        <4>2. (r.label = key => key = "teachers" /\ r.shared) /\ (key = "lab" => ~r.default)
          BY <2>1, <3>3, Zenon DEF Settings!Unmoved, recs
        <4>3. There(v, r)
          BY <2>6, <2>9, <4>1, Zenon DEF RecordsThere, v
        <4>4. w.older = v.older
          BY <3>1, Zenon
        <4>5. QED
          BY <3>2, <4>2, <4>3, <4>4, SetMoves, Zenon
      <3>4. QED
        BY <3>1, <3>3 DEF RecordsThere
    <2>10. ASSUME ~clashed PROVE WalkIs(shell[p])'
      <3>1. CASE shell'[p].ask = <<>>
        BY <3>1 DEF WalkIs
      <3>2. CASE shell'[p].ask # <<>>
        <4>1. shell[p].ask # <<>> /\ shell'[p].ask = rest
          BY <2>3, <3>2
        <4>2. ShownPlaces(shell[p])
          BY <2>6, <2>10, <4>1 DEF WalkIs
        <4>3. shell[p].ask \in Seq(AskedFor)
          BY <4>2 DEF ShownPlaces
        <4>4. rest \in Seq(AskedFor) /\ Len(shell[p].ask) > 1
          BY <3>2, <4>1, <4>3 DEF rest
        <4>5. shell'[p].was = shell[p].was
          BY <2>3, <4>4
        <4>6. ShownPlaces(shell[p])'
          BY <1>1, <4>1, <4>2, <4>4, <4>5 DEF ShownPlaces
        <4>7. ASSUME shell'[p].enter PROVE AsShown(shell[p])'
          <5>1. AsShown(shell[p])
            BY <2>4, <2>6, <2>10, <4>1, <4>7, Zenon DEF WalkIs
          <5>2. \A l : Shows(shell[p], l)' = Shows(shell[p], l)
            BY <4>5 DEF Shows
          <5>3. Settings!Contents(config') = lines
            BY <2>1, <2>6, <2>10 DEF Settings!Contents
          <5>4. ASSUME NEW k \in AskedFor \ Settings!Range(rest)
                PROVE  k \in DOMAIN lines /\ lines[k] = Shows(shell[p], k)
            <6>1. CASE k = key
              <7>1. k \in DOMAIN lines
                BY <2>6, <2>10, <6>1 DEF Settings!Put
              <7>2. QED
                BY <1>1, <5>1, <6>1, <7>1 DEF AsShown, key, lines
            <6>2. CASE k # key
              <7>1. key = Head(shell[p].ask)
                BY <1>1, <5>1 DEF AsShown, key
              <7>2. k \notin Settings!Range(shell[p].ask)
                <8>1. ASSUME NEW i \in DOMAIN shell[p].ask, shell[p].ask[i] = k PROVE FALSE
                  <9>1. i # 1
                    BY <4>3, <6>2, <7>1, <8>1
                  <9>2. i \in 2..Len(shell[p].ask)
                    BY <4>3, <8>1, <9>1
                  <9>3. i - 1 \in 1..Len(rest)
                    BY <4>3, <4>4, <9>2 DEF rest
                  <9>4. rest[i - 1] = shell[p].ask[i]
                    BY <4>3, <4>4, <9>2 DEF rest
                  <9>5. QED
                    BY <4>4, <5>4, <8>1, <9>3, <9>4 DEF Settings!Range
                <8>2. QED
                  BY <8>1 DEF Settings!Range
              <7>3. /\ k \in DOMAIN Settings!Contents(config)
                    /\ Settings!Contents(config)[k] = Shows(shell[p], k)
                BY <5>1, <7>2 DEF AsShown
              <7>4. QED
                BY <2>6, <2>10, <6>2, <7>3 DEF Settings!Put
            <6>3. QED
              BY <6>1, <6>2
          <5>5. QED
            BY <2>3, <4>1, <5>2, <5>3, <5>4 DEF AsShown
        <4>8. QED
          BY <4>6, <4>7, Zenon DEF WalkIs
      <3>3. QED
        BY <3>1, <3>2
    <2>11. ASSUME ~clashed PROVE ShellSound(shell[p])'
      <3>1. IsFile(shell'[p].read) /\ EditIs(shell[p])'
        BY <2>3 DEF IsFile, EditIs
      <3>2. QED
        BY <2>10, <2>11, <3>1 DEF ShellSound
    <2>12. ASSUME ~clashed' PROVE ~clashed /\ \A q \in Shells \ {p} : ~Writes(shell[q])
      BY <1>1, <1>2, <2>12, WritesAlone
    <2>13. astray' = astray
      <3>1. Settings!Astray(p) => ~clashed
        BY Zenon DEF Settings!Astray, clashed
      <3>2. QED
        BY <2>1, <2>8, <3>1
    <2>14. QED
      BY <1>1, <2>3, <2>5, <2>7, <2>9, <2>11, <2>12, <2>13, FileStep
  <1>5. QED
    BY <1>3, <1>4

LEMMA WalkKeeps ==
  ASSUME SetInv, NEW p \in Shells, Settings!Walk(p)
  PROVE  SetInv'
  <1> DEFINE none == SeenBy(Settings!Nothing, environ, remains)
             shown == [k \in Settings!Range(Settings!Asked) |-> Settings!Location(Settings!Given(Settings!Nothing), k)]
  <1>1. /\ UNCHANGED <<draft, remains, environ, astray>> /\ Settings!Enters(p)
        /\ config' = <<>> /\ settled' = Settings!Nothing
        /\ recs' = (IF config = <<>> THEN recs ELSE {})
        /\ DOMAIN shell = Shells /\ IsShell(shell[p]) /\ shell[p].pc = "up"
        /\ shell' = [shell EXCEPT ![p].ask = Settings!Asked, ![p].enter = TRUE, ![p].own = TRUE,
                       ![p].at = <<>>, ![p].read = <<Settings!Nothing>>, ![p].was = shown]
    BY DEF SetInv, Settings!Walk, config, draft, remains, environ, settled, astray, recs, shell
  <1>2. shown = [k \in AskedFor |-> Settings!Location(none, k)]
    <2>1. Settings!Given(Settings!Nothing) = none
      BY SeenNow
    <2> HIDE DEF none
    <2>2. QED
      BY <2>1, AskedAre
  <1> HIDE DEF shown
  <1>3. /\ DOMAIN shell' = Shells /\ \A q \in Shells \ {p} : shell'[q] = shell[q]
        /\ IsShell(shell'[p]) /\ shell'[p].pc = "up" /\ shell'[p].own
        /\ shell'[p].ask = Settings!Asked /\ shell'[p].was = shown
        /\ shell'[p].read = <<Settings!Nothing>>
    BY <1>1, Zenon DEF IsShell
  <1>4. LogFound(shell[p])'
    BY <1>3 DEF LogFound
  <1>5. ASSUME ~clashed' PROVE ~clashed /\ \A q \in Shells \ {p} : ~Writes(shell[q])
    BY <1>1, <1>5, EntersAlone
  <1>6. Tabled(Settings!Nothing) /\ Tabled(environ)
    BY SettingsAssumption DEF SetInv, Tabled, Settings!Nothing
  <1>7. ShownPlaces(shell[p])'
    <2>1. none.env = environ /\ none.table = Settings!Nothing /\ Viewed(none)
      BY <1>6 DEF SeenBy, Viewed
    <2>2. \A k \in AskedFor : PlaceOf(k, Settings!Location(none, k))
      BY <2>1, LocationsFit
    <2>3. \A k : Settings!Raw(none, k) = IF k \in DOMAIN environ THEN environ[k] ELSE <<>>
      BY <2>1 DEF Settings!Raw, Settings!Nothing
    <2>4. \A k \in DOMAIN environ : environ[k] # <<>>
      BY <1>6 DEF Tabled, PlaceOf
    <2> HIDE DEF none
    <2>5. ASSUME NEW k \in AskedFor, k \in DOMAIN environ PROVE Settings!Location(none, k) = environ[k]
      <3>1. Settings!Raw(none, k) = environ[k] /\ environ[k] # <<>>
        BY <2>3, <2>4, <2>5
      <3> HIDE DEF Settings!Raw
      <3>2. /\ k = "lab" => Settings!Lab(none) = Settings!Raw(none, k)
            /\ k = "scratch" => Settings!Scratch(none) = Settings!Raw(none, k)
            /\ k = "models" => Settings!ModelsFolder(none) = Settings!Raw(none, k)
            /\ k = "teachers" => Settings!Teachers(none) = Settings!Raw(none, k)
            /\ k = "fit_store" => Settings!FitStore(none) = Settings!Raw(none, k)
            /\ k = "gpu_lease" => Settings!GpuLease(none) = Settings!Raw(none, k)
            /\ k = "records" => Settings!Records(none) = Settings!Raw(none, k)
        BY <3>1 DEF Settings!Lab, Settings!Scratch, Settings!ModelsFolder, Settings!Teachers,
           Settings!FitStore, Settings!GpuLease, Settings!Records, Settings!Or
      <3>3. QED
        BY <3>1, <3>2 DEF Settings!Location, AskedFor
    <2>6. ASSUME "fit_store" \notin DOMAIN environ
          PROVE  Settings!Location(none, "fit_store") = <<Settings!Location(none, "fit_store")[1]>>
      <3>1. Settings!Raw(none, "fit_store") = <<>>
        BY <2>3, <2>6
      <3>2. Settings!Location(none, "fit_store") = <<Append(Settings!Base(none), "fits")>>
        BY <3>1 DEF Settings!Location, Settings!FitStore, Settings!Or
      <3>3. QED
        BY <3>2
    <2>7. environ' = environ /\ shell'[p].ask \in Seq(AskedFor)
      BY <1>1, <1>3, AskedAre
    <2>8. \A k \in AskedFor : shell'[p].was[k] = Settings!Location(none, k)
      BY <1>2, <1>3
    <2>9. QED
      BY <2>2, <2>5, <2>6, <2>7, <2>8 DEF ShownPlaces
  <1>8. AsShown(shell[p])'
    <2>1. AskedFor \ Settings!Range(shell'[p].ask) = {}
      BY <1>3, AskedAre
    <2>2. QED
      BY <1>3, <2>1 DEF AsShown
  <1>9. ShellSound(shell[p])'
    <2>1. IsFile(shell'[p].read)
      BY <1>3, <1>6 DEF IsFile
    <2>2. EditIs(shell[p])'
      BY <1>3 DEF EditIs
    <2>3. WalkIs(shell[p])'
      BY <1>7, <1>8 DEF WalkIs
    <2>4. QED
      BY <2>1, <2>2, <2>3, Zenon DEF ShellSound
  <1>10. ASSUME ~clashed PROVE FilesAgree' /\ RecordsThere'
    <2>1. FilesAgree /\ RecordsThere
      BY <1>10 DEF SetInv
    <2>2. FilesAgree'
      BY <1>1, <2>1 DEF FilesAgree, IsFile, Settings!Contents
    <2>3. RecordsThere'
      <3>1. CASE config = <<>>
        BY <1>1, <2>1, <3>1, RecordsStay
      <3>2. CASE config # <<>>
        BY <1>1, <3>2 DEF RecordsThere
      <3>3. QED
        BY <3>1, <3>2
    <2>4. QED
      BY <2>2, <2>3
  <1>11. QED
    BY <1>1, <1>3, <1>4, <1>5, <1>9, <1>10, FileStep

LEMMA UnderKeeps ==
  ASSUME SetInv, NEW p \in Shells, NEW root \in Settable["lab"], Settings!InitUnder(p, root)
  PROVE  SetInv'
  <1> DEFINE table == [k \in {"scratch", "models", "teachers", "fit_store", "records"} |->
                     IF k = "fit_store" THEN <<Append(root, "fits")>> ELSE Append(root, k)]
  <1>1. /\ UNCHANGED <<draft, remains, environ, astray>> /\ Settings!Enters(p)
        /\ config' = <<table>> /\ settled' = table /\ recs' = {}
        /\ DOMAIN shell = Shells /\ IsShell(shell[p]) /\ shell[p].pc = "up" /\ shell[p].ask = <<>>
        /\ shell' = [shell EXCEPT ![p].read = <<>>, ![p].own = TRUE, ![p].at = <<>>]
    BY DEF SetInv, Settings!InitUnder, config, draft, remains, environ, settled, astray, recs, shell
  <1>2. Tabled(table)
    <2>1. root \in Seq(Words)
      BY SettingsAssumption DEF PlaceOf
    <2>2. /\ "scratch" \in Words /\ "models" \in Words /\ "teachers" \in Words /\ "fits" \in Words
          /\ "records" \in Words
      BY SettingsAssumption
    <2>3. \A x \in Words : Append(root, x) \in Seq(Words) /\ Append(root, x) # <<>>
      BY <2>1, Appended
    <2>4. <<Append(root, "fits")>> \in Seq(Seq(Words)) /\ <<Append(root, "fits")>> # <<>>
      BY <2>2, <2>3
    <2>5. \A k \in {"scratch", "models", "teachers", "records"} : PlaceOf(k, Append(root, k))
      BY <2>2, <2>3 DEF PlaceOf
    <2>6. PlaceOf("fit_store", <<Append(root, "fits")>>)
      BY <2>4 DEF PlaceOf
    <2>7. QED
      BY <2>5, <2>6 DEF Tabled
  <1> HIDE DEF table
  <1>3. /\ DOMAIN shell' = Shells /\ \A q \in Shells \ {p} : shell'[q] = shell[q]
        /\ IsShell(shell'[p]) /\ shell'[p].pc = "up" /\ shell'[p].own
        /\ shell'[p].ask = <<>> /\ shell'[p].read = <<>>
    BY <1>1, Zenon DEF IsShell
  <1>4. LogFound(shell[p])'
    BY <1>3 DEF LogFound
  <1>5. ASSUME ~clashed' PROVE ~clashed /\ \A q \in Shells \ {p} : ~Writes(shell[q])
    BY <1>1, <1>5, EntersAlone
  <1>6. ShellSound(shell[p])'
    BY <1>3 DEF ShellSound, IsFile, EditIs, WalkIs
  <1>7. RecordsThere'
    BY <1>1 DEF RecordsThere
  <1>8. ~clashed => FilesAgree'
    BY <1>1, <1>2 DEF SetInv, FilesAgree, IsFile, Settings!Contents
  <1>9. QED
    BY <1>1, <1>3, <1>4, <1>5, <1>6, <1>7, <1>8, FileStep

\* A command writes where a place is set, or in the folder it is by default.
LEMMA StorageFits ==
  ASSUME NEW v, Viewed(v)
  PROVE  Settings!Storage(v) \subseteq Seq(Words)
  <1>1. /\ Settings!Scratch(v) \in Seq(Words) /\ Settings!ModelsFolder(v) \in Seq(Words)
        /\ Settings!Teachers(v) \in Seq(Words) /\ Settings!FitStore(v) \in Seq(Seq(Words))
    <2>1. \A k \in AskedFor : PlaceOf(k, Settings!Location(v, k))
      BY LocationsFit
    <2>2. /\ Settings!Location(v, "scratch") = Settings!Scratch(v)
          /\ Settings!Location(v, "models") = Settings!ModelsFolder(v)
          /\ Settings!Location(v, "teachers") = Settings!Teachers(v)
          /\ Settings!Location(v, "fit_store") = Settings!FitStore(v)
      BY DEF Settings!Location
    <2>3. QED
      BY <2>1, <2>2 DEF AskedFor, PlaceOf
  <1>2. <<Settings!Scratch(v), Settings!ModelsFolder(v), Settings!Teachers(v)>> \o Settings!FitStore(v)
        \in Seq(Seq(Words))
    <2>1. <<Settings!Scratch(v), Settings!ModelsFolder(v), Settings!Teachers(v)>> \in Seq(Seq(Words))
      BY <1>1
    <2>2. QED
      BY <1>1, <2>1
  <1>3. Settings!Roots(v) \in Seq(Seq(Words))
    <2>1. Settings!Raw(v, "roots") = <<>> \/ Settings!Raw(v, "roots") \in Seq(Seq(Words))
      BY RawIs DEF PlaceOf
    <2>2. QED
      BY <1>2, <2>1 DEF Settings!Roots, Settings!Or
  <1>4. Settings!Range(Settings!Roots(v)) \subseteq Seq(Words)
    BY <1>3 DEF Settings!Range
  <1>5. QED
    BY <1>1, <1>4 DEF Settings!Storage

LEMMA RecordKeeps ==
  ASSUME SetInv, NEW p \in Shells, NEW place, NEW text, Settings!Record(p, place, text)
  PROVE  SetInv'
  <1> DEFINE table == Settings!Table(p)
             v == Settings!View(p)
             path == Append(place, "x")
             as == Settings!Portable(IF text THEN Settings!Private(v) ELSE Settings!Labelled(v), path)
             new == [label |-> as.label, rest |-> as.rest, real |-> path,
                     default |-> Settings!Raw(v, as.label) = <<>>,
                     shared |-> Settings!Teachers(v) = Settings!ModelsFolder(v)]
  <1>1. /\ UNCHANGED <<config, draft, remains, environ, settled, astray, clashed>>
        /\ DOMAIN shell = Shells /\ IsShell(shell[p]) /\ shell[p].pc = "up" /\ shell[p].ask = <<>>
        /\ shell' = [shell EXCEPT ![p].read = <<table>>] /\ place \in Settings!Storage(v)
        /\ recs' = IF as.label \in {"none", "~"} \/ Settings!Lost(v, as, path) THEN recs
                   ELSE recs \cup {new}
    BY DEF SetInv, Settings!Record, config, draft, remains, environ, settled, astray, recs, shell, clashed
  <1>2. /\ v.env = environ /\ v.table = table /\ v.older = remains
        /\ table = IF shell[p].read = <<>> THEN Settings!Contents(config) ELSE shell[p].read[1]
    BY SeenNow DEF Settings!View, Settings!Table, SeenBy, shell, config
  <1>3. v.table = Settings!Contents(config) => v = Settings!Now
    BY SeenNow DEF Settings!View, SeenBy
  <1> HIDE DEF table, v, path, as, new
  <1>4. /\ DOMAIN shell' = Shells /\ \A q \in Shells \ {p} : shell'[q] = shell[q]
        /\ IsShell(shell'[p]) /\ shell'[p].pc = "up" /\ shell'[p].ask = <<>>
        /\ shell'[p].read = <<table>> /\ shell'[p].at = shell[p].at /\ shell'[p].own = shell[p].own
    BY <1>1, Zenon DEF IsShell
  <1>5. LogFound(shell[p])'
    <2>1. LogFound(shell[p]) /\ shell'[p].read # <<>> /\ shell'[p].read[1] = table
      BY <1>4 DEF SetInv
    <2>2. QED
      BY <1>1, <1>2, <1>4, <2>1 DEF LogFound
  <1>6. ASSUME ~clashed PROVE Tabled(table) /\ Viewed(v)
    <2>1. Tabled(Settings!Contents(config)) /\ Tabled(environ)
      BY <1>6, NowIsView DEF SetInv, FilesAgree, Viewed
    <2>2. IsFile(shell[p].read)
      BY <1>6 DEF SetInv, ShellSound
    <2>3. QED
      BY <1>2, <2>1, <2>2 DEF IsFile, Viewed
  <1>7. ~clashed => ShellSound(shell[p])'
    BY <1>4, <1>6 DEF ShellSound, IsFile, EditIs, WalkIs
  <1>8. ASSUME ~clashed PROVE RecordsThere'
    <2>1. RecordsThere /\ Settings!Now' = Settings!Now
      BY <1>1, <1>8, SeenNow DEF SetInv
    <2>2. CASE as.label \in {"none", "~"} \/ Settings!Lost(v, as, path)
      BY <1>1, <2>1, <2>2 DEF RecordsThere
    <2>3. CASE ~(as.label \in {"none", "~"} \/ Settings!Lost(v, as, path))
      <3>1. /\ v.table = Settings!Contents(config) /\ as.label \notin {"none", "~", "roots"}
            /\ as.label = "fit_store" => Settings!FitStore(v)[1] \o as.rest = path
        BY <2>3, Zenon DEF Settings!Lost, config
      <3>2. path \in Seq(Words)
        <4>1. place \in Seq(Words) /\ "x" \in Words
          BY <1>1, <1>6, <1>8, StorageFits, SettingsAssumption
        <4>2. QED
          BY <4>1, Appended DEF path
      <3>3. There(v, new)
        <4>1. Settings!Labelled(v) \in Seq(Pair(v)) /\ Settings!Private(v) \in Seq(Pair(v))
          BY <1>6, <1>8, PairsAre
        <4>2. PICK prefixes \in Seq(Pair(v)) : as = Settings!Portable(prefixes, path)
          BY <4>1, Zenon DEF as
        <4>3. QED
          BY <1>6, <1>8, <3>1, <3>2, <4>2, RecordThere, Zenon DEF new
      <3>4. recs' = recs \cup {new}
        BY <1>1, <2>3
      <3>5. QED
        BY <1>3, <2>1, <3>1, <3>3, <3>4, Zenon DEF RecordsThere
    <2>4. QED
      BY <2>2, <2>3
  <1>9. ~Writes(shell'[p])
    BY <1>4 DEF Writes
  <1>10. QED
    BY <1>1, <1>4, <1>5, <1>7, <1>8, <1>9, QuietStep

\* The end of a process, at which its shell is as at first.
LEMMA OffKeeps ==
  ASSUME SetInv, NEW p \in Shells,
         UNCHANGED <<config, draft, remains, environ, settled, astray, recs, clashed>>,
         shell' = [shell EXCEPT ![p] = Settings!Off]
  PROVE  SetInv'
  <1>1. /\ IsShell(Settings!Off) /\ Settings!Off.pc = "off" /\ Settings!Off.ask = <<>>
        /\ Settings!Off.read = <<>>
    BY DEF IsShell, Settings!Off
  <1>2. /\ DOMAIN shell' = Shells /\ \A q \in Shells \ {p} : shell'[q] = shell[q]
        /\ shell'[p] = Settings!Off
    BY DEF SetInv
  <1>3. LogFound(shell[p])' /\ ShellSound(shell[p])' /\ ~Writes(shell'[p])
    BY <1>1, <1>2 DEF Writes, LogFound, ShellSound, IsFile, EditIs, WalkIs
  <1>4. ~clashed => RecordsThere'
    BY RecordsStay DEF SetInv
  <1>5. QED
    BY <1>1, <1>2, <1>3, <1>4, QuietStep

LEMMA EndKeeps ==
  ASSUME SetInv, NEW p \in Shells, Settings!End(p)
  PROVE  SetInv'
  <1>1. /\ UNCHANGED <<config, draft, remains, environ, settled, recs, clashed>>
        /\ shell[p].pc = "up" /\ shell' = [shell EXCEPT ![p] = Settings!Off]
        /\ Settings!RunLog(Settings!View(p)) = shell[p].at \/ shell[p].own => astray' = astray
    BY DEF Settings!End, config, draft, remains, environ, settled, astray, recs, shell, clashed
  <1>2. shell[p].own \/ (shell[p].read # <<>> /\ shell[p].at = Settings!RunLog(SeenBy(shell[p].read[1], environ, remains)))
    BY <1>1 DEF SetInv, LogFound
  <1>3. shell[p].read # <<>> => Settings!View(p) = SeenBy(shell[p].read[1], environ, remains)
    BY SeenNow DEF Settings!View, Settings!Table, shell
  <1>4. astray' = astray
    BY <1>1, <1>2, <1>3
  <1>5. QED
    BY <1>1, <1>4, OffKeeps

LEMMA KilledKeeps ==
  ASSUME SetInv, NEW p \in Shells, Settings!Killed(p)
  PROVE  SetInv'
  <1>1. /\ UNCHANGED <<config, draft, remains, environ, settled, astray, recs, clashed>>
        /\ shell' = [shell EXCEPT ![p] = Settings!Off]
    BY DEF Settings!Killed, config, draft, remains, environ, settled, astray, recs, shell, clashed
  <1>2. QED
    BY <1>1, OffKeeps

LEMMA EmptiedKeeps ==
  ASSUME SetInv, Settings!Emptied
  PROVE  SetInv'
  <1>1. /\ UNCHANGED <<config, draft, environ, settled, astray, clashed, shell>>
        /\ "data" \in remains /\ remains' = remains \ {"data"}
        /\ recs' = {r \in recs : ~Settings!IsPrefix(Settings!Old, r.real)}
    BY DEF Settings!Emptied, config, draft, remains, environ, settled, astray, recs, shell, clashed
  <1>2. \A p \in Shells : LogFound(shell[p])'
    BY <1>1, LogStays DEF SetInv
  <1>3. ASSUME ~clashed, NEW p \in Shells PROVE ShellSound(shell[p])'
    <2>1. ShellSound(shell[p])
      BY <1>3 DEF SetInv
    <2>2. Settings!Needed => Settings!Needed'
      BY <1>1 DEF Settings!Needed, config, remains, environ
    <2>3. EditIs(shell[p])'
      BY <1>1, <2>1, <2>2 DEF ShellSound, EditIs
    <2>4. WalkIs(shell[p])'
      BY <1>1, <2>1 DEF ShellSound, WalkIs, ShownPlaces, AsShown, Shows
    <2>5. QED
      BY <1>1, <2>1, <2>3, <2>4 DEF ShellSound
  <1>4. ASSUME ~clashed PROVE RecordsThere'
    <2>1. /\ Viewed(Settings!Now) /\ RecordsThere
      BY <1>4, NowIsView DEF SetInv, FilesAgree
    <2>2. /\ Settings!Now'.env = Settings!Now.env /\ Settings!Now'.table = Settings!Now.table
          /\ "data" \in Settings!Now.older /\ Settings!Now'.older = Settings!Now.older \ {"data"}
      BY <1>1, SeenNow DEF SeenBy
    <2>3. ASSUME NEW r \in recs' PROVE There(Settings!Now', r)
      <3>1. r \in recs /\ ~Settings!IsPrefix(Settings!Old, r.real)
        BY <1>1, <2>3
      <3>2. There(Settings!Now, r)
        BY <2>1, <3>1 DEF RecordsThere
      <3>3. QED
        BY <2>1, <2>2, <3>1, <3>2, OldIsGone
    <2>4. QED
      BY <2>3 DEF RecordsThere
  <1>5. ASSUME ~clashed PROVE (FilesAgree /\ OneWriter)'
    BY <1>1, <1>5 DEF SetInv, FilesAgree, OneWriter
  <1>6. QED
    BY <1>1, <1>2, <1>3, <1>4, <1>5 DEF SetInv

LEMMA SetStutters ==
  ASSUME SetInv, UNCHANGED Settings!lvars
  PROVE  SetInv'
  <1>1. UNCHANGED <<config, draft, remains, environ, settled, astray, recs, clashed, shell>>
    BY DEF Settings!lvars, config, draft, remains, environ, settled, astray, recs, shell, clashed
  <1>2. \A p \in Shells : LogFound(shell[p])'
    BY <1>1, LogStays DEF SetInv
  <1>3. ASSUME ~clashed, NEW p \in Shells PROVE ShellSound(shell[p])'
    <2>1. ShellSound(shell[p])
      BY <1>3 DEF SetInv
    <2>2. Settings!Needed <=> Settings!Needed'
      BY <1>1 DEF Settings!Needed, config, remains, environ
    <2>3. EditIs(shell[p])'
      BY <1>1, <2>1, <2>2 DEF ShellSound, EditIs
    <2>4. WalkIs(shell[p])'
      BY <1>1, <2>1 DEF ShellSound, WalkIs, ShownPlaces, AsShown, Shows
    <2>5. QED
      BY <1>1, <2>1, <2>3, <2>4 DEF ShellSound
  <1>4. ~clashed => RecordsThere'
    BY <1>1, RecordsStay DEF SetInv
  <1>5. ASSUME ~clashed PROVE (FilesAgree /\ OneWriter)'
    BY <1>1, <1>5 DEF SetInv, FilesAgree, OneWriter
  <1>6. QED
    BY <1>1, <1>2, <1>3, <1>4, <1>5 DEF SetInv

LEMMA SetNext == SetInv /\ [Settings!Next]_(Settings!lvars) => SetInv'
  <1> SUFFICES ASSUME SetInv, [Settings!Next]_(Settings!lvars)
               PROVE  SetInv'
    OBVIOUS
  <1>1. CASE UNCHANGED Settings!lvars
    BY <1>1, SetStutters
  <1>2. CASE Settings!Emptied
    BY <1>2, EmptiedKeeps
  <1>3. ASSUME NEW p \in Shells, Settings!Begin(p) \/ Settings!FirstRun(p) \/ Settings!WriteTemp(p)
               \/ Settings!Replace(p) \/ Settings!Walk(p) \/ Settings!Enter(p)
               \/ Settings!End(p) \/ Settings!Killed(p)
        PROVE  SetInv'
    BY <1>3, BeginKeeps, FirstRunKeeps, WriteTempKeeps, ReplaceKeeps, WalkKeeps, EnterKeeps,
       EndKeeps, KilledKeeps
  <1>4. ASSUME NEW p \in Shells, NEW k \in DOMAIN Settable, NEW place \in Settable[k],
               Settings!Set(p, k, place) \/ (Head(shell[p].ask) = k /\ Settings!Answer(p, place))
        PROVE  SetInv'
    BY <1>4, SetKeeps, AnswerKeeps
  <1>5. ASSUME NEW p \in Shells, NEW root \in Settable["lab"], Settings!InitUnder(p, root)
        PROVE  SetInv'
    BY <1>5, UnderKeeps
  <1>6. ASSUME NEW p \in Shells, NEW place, NEW text, Settings!Record(p, place, text)
        PROVE  SetInv'
    BY <1>6, RecordKeeps
  <1>7. QED
    BY <1>1, <1>2, <1>3, <1>4, <1>5, <1>6, Zenon DEF Settings!Next, shell

LEMMA SetHolds ==
  SetInv => Settings!SettingsKept /\ Settings!RecordsOpen /\ Settings!NothingStrays
  <1> SUFFICES ASSUME SetInv
               PROVE  Settings!SettingsKept /\ Settings!RecordsOpen /\ Settings!NothingStrays
    OBVIOUS
  <1>1. Settings!SettingsKept
    BY DEF SetInv, FilesAgree, Settings!SettingsKept, config, clashed, settled
  <1>2. Settings!RecordsOpen
    BY DEF SetInv, RecordsThere, There, Settings!RecordsOpen, clashed, recs
  <1>3. Settings!NothingStrays
    BY DEF SetInv, Settings!NothingStrays, astray
  <1>4. QED
    BY <1>1, <1>2, <1>3

==============================================================================
