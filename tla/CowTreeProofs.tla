----------------------------- MODULE CowTreeProofs -----------------------------
(***************************************************************************)
(* Proofs about CowTree: however the handlers of the tickets in flight     *)
(* interleave, in every mode and with any number of pipes and workers, no  *)
(* writer meets a node that a committed ticket has retired, a ticket       *)
(* retires what its tree no longer reaches, and the ticket to be committed *)
(* next can go on.  The invariant is CowInv: the bookkeeping of the copies *)
(* (Good, in BTreeProofs), the order of the tickets in the pipeline        *)
(* (Timed), the paths of the slots that workers have still to write        *)
(* (Appends), what each ticket has replaced (ExactAll) and how many        *)
(* children a node has (Sized); and SourceInv: what a materialisation      *)
(* waits for, somebody still writes.                                       *)
(***************************************************************************)
EXTENDS CowTree, BTreeProofs

-----------------------------------------------------------------------------
(***************************************************************************)
(* Steps that leave the graph alone.                                       *)
(***************************************************************************)
\* Only what is inside the leaves changes.
Alike(h, g) ==
  /\ DOMAIN g = DOMAIN h
  /\ \A n \in DOMAIN h : /\ IsNode(g[n]) /\ g[n].ver = h[n].ver /\ g[n].leaf = h[n].leaf /\ g[n].keys = h[n].keys
                         /\ g[n].chs = h[n].chs /\ DOMAIN h[n].slots \subseteq DOMAIN g[n].slots
                         /\ ~ h[n].leaf => g[n].ready = h[n].ready
\* The context of a ticket that goes on with no more than its place, or has done its task.
Stays(c, d, np) ==
  /\ IsContext(d) /\ d.sno = c.sno /\ d.root = c.root /\ d.cur = c.cur /\ d.past = c.past /\ d.idx = c.idx
  /\ d.pair = c.pair /\ d.retired = c.retired /\ d.made = c.made
  /\ d.op = c.op \/ (d.op = "done" /\ ~ Moving(c))
  /\ Moving(c) => Place(d, np) = Place(c, np)
\* A new ticket that keeps the root.
Arrives(h, cx, d, t, fr) ==
  /\ t \in Nat \ {0} /\ DOMAIN cx = 1 .. t - 1
  /\ IsContext(d) /\ d.sno = t /\ d.root = RootOf(cx, fr, t - 1) /\ d.retired = <<>> /\ d.made = 0
  /\ d.op \in {"append", "done"}
  /\ d.op = "append" => ShapeAppend(h, d)

LEMMA AlikeOpened ==
  ASSUME NEW h, NEW g, Alike(h, g), NEW t, NEW c, Shape(h, t, c)
  PROVE  Opened(g, c) = Opened(h, c)
<1>1. CASE c.op = "split"
  <2>1. c.cur \in DOMAIN h
    BY <1>1 DEF Shape, Moving, ShapeMoving
  <2>2. g[c.cur].chs = h[c.cur].chs
    BY <2>1 DEF Alike
  <2>3. QED
    BY <1>1, <2>2 DEF Opened
<1>2. CASE c.op # "split"
  BY <1>2 DEF Opened
<1>3. QED
  BY <1>1, <1>2

LEMMA AlikeShape ==
  ASSUME NEW h, NEW g, Alike(h, g), NEW t, NEW c, Shape(h, t, c)
  PROVE  Shape(g, t, c)
<1>1. \A n \in DOMAIN h : /\ n \in DOMAIN g /\ g[n].leaf = h[n].leaf /\ g[n].keys = h[n].keys
                          /\ g[n].chs = h[n].chs /\ DOMAIN h[n].slots \subseteq DOMAIN g[n].slots
  BY DEF Alike
<1>2. Opened(g, c) = Opened(h, c)
  BY AlikeOpened
<1>3. /\ IsContext(c) /\ c.sno = t /\ t \in Nat \ {0} /\ c.made \in Nat /\ IsSeq(c.retired)
      /\ c.op \in {"down", "split", "append", "materialize", "done"}
  BY DEF Shape
<1>4. ASSUME Moving(c) PROVE /\ ShapeMoving(g, t, c) /\ g[c.past].keys = h[c.past].keys
                             /\ g[c.cur].keys = h[c.cur].keys /\ g[c.cur].chs = h[c.cur].chs
  <2>1. ShapeMoving(h, t, c)
    BY <1>4 DEF Shape
  <2>2. QED
    BY <1>1, <2>1 DEF ShapeMoving
<1>5. c.op = "down" => Len(g[c.cur].keys) = Len(g[c.past].keys)
  BY <1>4 DEF Shape, Moving
<1>6. ASSUME c.op = "split" PROVE ShapeSplit(g, t, c)
  <2>1. ShapeSplit(h, t, c) /\ g[c.past].keys = h[c.past].keys /\ g[c.cur].chs = h[c.cur].chs
    BY <1>4, <1>6 DEF Shape, Moving
  <2>2. \A n \in Opened(g, c) : n \in DOMAIN g /\ n[1] = t /\ ~ g[n].leaf /\ Len(g[n].keys) = Half - 1
    BY <1>1, <1>2, <2>1 DEF ShapeSplit
  <2>3. QED
    BY <2>1, <2>2 DEF ShapeSplit
<1>7. ASSUME c.op = "materialize" PROVE ShapeMaterialize(g, t, c)
  <2>1. ShapeMaterialize(h, t, c)
    BY <1>7 DEF Shape
  <2>2. c.past \in Gone(c) /\ c.past \in DOMAIN g /\ g[c.past].leaf
    BY <1>1, <2>1 DEF ShapeMaterialize
  <2>3. c.cur = None => c.root \in DOMAIN g /\ c.root[1] = t /\ g[c.root].leaf /\ ~ c.pair
    BY <1>1, <2>1 DEF ShapeMaterialize
  <2>4. ASSUME c.cur # None
        PROVE  /\ c.cur \in DOMAIN g /\ c.cur[1] = t
               /\ \A i \in Targets(c) : /\ i \in DOMAIN g[c.cur].chs /\ g[c.cur].chs[i] \in DOMAIN g
                                        /\ g[c.cur].chs[i][1] = t /\ g[g[c.cur].chs[i]].leaf
    <3>1. c.cur \in DOMAIN h /\ c.cur[1] = t /\ g[c.cur].chs = h[c.cur].chs
      BY <1>1, <2>1, <2>4 DEF ShapeMaterialize
    <3>2. ASSUME NEW i \in Targets(c)
          PROVE  /\ i \in DOMAIN h[c.cur].chs /\ h[c.cur].chs[i] \in DOMAIN h
                 /\ h[c.cur].chs[i][1] = t /\ h[h[c.cur].chs[i]].leaf
      BY <2>1, <2>4 DEF ShapeMaterialize
    <3>3. QED
      BY <1>1, <3>1, <3>2
  <2>5. QED
    BY <2>2, <2>3, <2>4 DEF ShapeMaterialize
<1>8. c.op = "append" => ShapeAppend(g, c)
  BY <1>1 DEF Shape, ShapeAppend
<1>9. QED
  BY <1>3, <1>4, <1>5, <1>6, <1>7, <1>8 DEF Shape

\* So does a ticket that stays.
LEMMA StaysShape ==
  ASSUME NEW h, NEW t, NEW c, NEW d, NEW np, Shape(h, t, c), Stays(c, d, np)
  PROVE  /\ Shape(h, t, d) /\ Opened(h, d) = Opened(h, c) /\ Gone(d) = Gone(c) /\ Quit(d) = Quit(c)
         /\ (Moving(d) <=> Moving(c))
<1>1. /\ IsContext(d) /\ d.sno = c.sno /\ d.root = c.root /\ d.cur = c.cur /\ d.past = c.past /\ d.idx = c.idx
      /\ d.pair = c.pair /\ d.retired = c.retired /\ d.made = c.made
      /\ d.op = c.op \/ (d.op = "done" /\ ~ Moving(c))
  BY DEF Stays
<1>2. Moving(d) <=> Moving(c)
  BY <1>1 DEF Moving
<1>3. Gone(d) = Gone(c) /\ Quit(d) = Quit(c)
  BY <1>1, <1>2 DEF Gone, Quit
<1>4. Opened(h, d) = Opened(h, c)
  BY <1>1 DEF Opened, Moving
<1>5. CASE d.op = c.op
  <2>1. Targets(d) = Targets(c)
    BY <1>1 DEF Targets
  <2>2. Moving(c) => ShapeMoving(h, t, d)
    BY <1>1, <1>3 DEF Shape, ShapeMoving
  <2>3. c.op = "split" => ShapeSplit(h, t, d)
    BY <1>1, <1>4 DEF Shape, ShapeSplit
  <2>4. c.op = "materialize" => ShapeMaterialize(h, t, d)
    BY <1>1, <1>3, <2>1 DEF Shape, ShapeMaterialize
  <2>5. c.op = "append" => ShapeAppend(h, d)
    BY <1>1 DEF Shape, ShapeAppend
  <2>6. c.op = "down" => Len(h[d.cur].keys) = Len(h[d.past].keys)
    BY <1>1 DEF Shape
  <2>7. /\ d.sno = t /\ t \in Nat \ {0} /\ d.made \in Nat /\ IsSeq(d.retired)
        /\ d.op \in {"down", "split", "append", "materialize", "done"}
    BY <1>1, <1>5 DEF Shape
  <2>8. QED
    BY <1>1, <1>2, <1>3, <1>4, <1>5, <2>2, <2>3, <2>4, <2>5, <2>6, <2>7 DEF Shape
<1>6. CASE d.op = "done" /\ ~ Moving(c)
  <2>1. d.sno = t /\ t \in Nat \ {0} /\ d.made \in Nat /\ IsSeq(d.retired)
    BY <1>1 DEF Shape
  <2>2. QED
    BY <1>1, <1>2, <1>3, <1>4, <1>6, <2>1 DEF Shape, Moving
<1>7. QED
  BY <1>1, <1>5, <1>6

LEMMA AlikeGood ==
  ASSUME NEW h, NEW g, NEW cx, NEW fr, NEW np, Good(h, cx, fr, np), Alike(h, g)
  PROVE  Good(g, cx, fr, np)
<1>1. /\ IsSeq(cx) /\ Shapes(h, cx) /\ Settled(h, cx) /\ Built(h) /\ Owned(h, cx) /\ Unready(h, cx)
      /\ Forest(Kids(h), Retired(cx), Copied(cx), Open(h, cx))
      /\ Rooted(h, cx, fr) /\ Labels(h, cx, fr, np)
  BY DEF Good
<1>2. \A t \in DOMAIN cx : Shape(g, t, cx[t]) /\ Opened(g, cx[t]) = Opened(h, cx[t])
  BY <1>1, AlikeShape, AlikeOpened DEF Shapes
<1>3. Open(g, cx) = Open(h, cx)
  BY ONLY <1>2, Zenon DEF Open
<1>4. Kids(g) = Kids(h)
  <2>1. \A n \in DOMAIN h : g[n].chs = h[n].chs
    BY DEF Alike
  <2>2. DOMAIN g = DOMAIN h
    BY DEF Alike
  <2>3. QED
    BY ONLY <2>1, <2>2 DEF Kids
<1>5. Built(g)
  <2>1. /\ DOMAIN g = DOMAIN h
        /\ \A n \in DOMAIN h : IsNode(g[n]) /\ g[n].ver = h[n].ver /\ g[n].chs = h[n].chs
    BY DEF Alike
  <2>2. \A n \in DOMAIN h : h[n].chs \in Seq(DOMAIN h) /\ h[n].ver = n[1]
    BY <1>1 DEF Built
  <2>3. QED
    BY ONLY <2>1, <2>2 DEF Built
<1>6. Owned(g, cx)
  <2>1. DOMAIN g = DOMAIN h
    BY DEF Alike
  <2>2. QED
    BY ONLY <1>1, <2>1 DEF Owned
<1>7. Unready(g, cx)
  <2>1. ASSUME NEW n \in Open(h, cx) PROVE ~ g[n].ready
    <3>1. PICK t \in DOMAIN cx : n \in Opened(h, cx[t])
      BY ONLY <2>1 DEF Open
    <3>2. n \in DOMAIN h /\ ~ h[n].leaf
      BY <1>1, <3>1, OpenedIs DEF Shapes
    <3>3. g[n].ready = h[n].ready
      BY <3>2 DEF Alike
    <3>4. QED
      BY ONLY <1>1, <2>1, <3>3 DEF Unready
  <2>2. QED
    BY ONLY <1>3, <2>1 DEF Unready
<1>8. Labels(g, cx, fr, np)
  <2>1. PICK mk, rk : /\ Ranked(Kids(h), rk) /\ Marked(Kids(h), mk) /\ mk[fr] = 0
                      /\ \A t \in DOMAIN cx : Labelled(h, cx[t], np, mk, rk)
    BY ONLY <1>1 DEF Labels
  <2>2. ASSUME NEW t \in DOMAIN cx PROVE Labelled(g, cx[t], np, mk, rk)
    <3>1. Labelled(h, cx[t], np, mk, rk) /\ Opened(g, cx[t]) = Opened(h, cx[t])
      BY ONLY <1>2, <2>1
    <3>2. QED
      BY ONLY <3>1 DEF Labelled
  <2>3. QED
    BY ONLY <1>4, <2>1, <2>2 DEF Labels
<1>9. Settled(g, cx) /\ Rooted(g, cx, fr)
  BY ONLY <1>1, <1>3, <1>4 DEF Settled, Rooted
<1>10. Shapes(g, cx)
  BY ONLY <1>2 DEF Shapes
<1>11. Forest(Kids(g), Retired(cx), Copied(cx), Open(g, cx))
  BY ONLY <1>1, <1>3, <1>4
<1>12. QED
  BY ONLY <1>1, <1>5, <1>6, <1>7, <1>8, <1>9, <1>10, <1>11 DEF Good

\* The contexts say the same about the graph.
Agree(h, cx, cx1) ==
  /\ Retired(cx1) = Retired(cx) /\ Copied(cx1) = Copied(cx) /\ Open(h, cx1) = Open(h, cx)

LEMMA StaysAgrees ==
  ASSUME NEW h, NEW cx, NEW cx1, NEW t \in DOMAIN cx, NEW d, NEW np, Shapes(h, cx), Stays(cx[t], d, np),
         Becomes(cx, cx1, t, d)
  PROVE  Agree(h, cx, cx1)
<1>1. /\ Opened(h, d) = Opened(h, cx[t]) /\ Gone(d) = Gone(cx[t]) /\ Quit(d) = Quit(cx[t])
  BY StaysShape DEF Shapes
<1>2. DOMAIN cx1 = DOMAIN cx /\ cx1[t] = d /\ \A u \in DOMAIN cx \ {t} : cx1[u] = cx[u]
  BY DEF Becomes
<1>3. \A u \in DOMAIN cx : Opened(h, cx1[u]) = Opened(h, cx[u]) /\ Gone(cx1[u]) = Gone(cx[u]) /\ Quit(cx1[u]) = Quit(cx[u])
  BY ONLY <1>1, <1>2
<1>4. Open(h, cx1) = Open(h, cx)
  BY ONLY <1>2, <1>3, Zenon DEF Open
<1>5. Retired(cx1) = Retired(cx)
  BY ONLY <1>2, <1>3, Zenon DEF Retired
<1>6. Copied(cx1) = Copied(cx)
  BY ONLY <1>2, <1>3, Zenon DEF Copied
<1>7. QED
  BY ONLY <1>4, <1>5, <1>6 DEF Agree

LEMMA StaysGood ==
  ASSUME NEW h, NEW cx, NEW cx1, NEW t \in DOMAIN cx, NEW d, NEW fr, NEW np, Good(h, cx, fr, np),
         Stays(cx[t], d, np), Becomes(cx, cx1, t, d), IsSeq(cx1)
  PROVE  Good(h, cx1, fr, np)
<1>1. /\ IsSeq(cx) /\ Shapes(h, cx) /\ Settled(h, cx) /\ Built(h) /\ Owned(h, cx) /\ Unready(h, cx)
      /\ Forest(Kids(h), Retired(cx), Copied(cx), Open(h, cx))
      /\ Rooted(h, cx, fr) /\ Labels(h, cx, fr, np)
  BY DEF Good
<1>2. Retired(cx1) = Retired(cx) /\ Copied(cx1) = Copied(cx) /\ Open(h, cx1) = Open(h, cx)
  BY <1>1, StaysAgrees DEF Agree
<1>3. /\ Shape(h, t, d) /\ Opened(h, d) = Opened(h, cx[t]) /\ (Moving(d) <=> Moving(cx[t]))
  BY <1>1, StaysShape DEF Shapes
<1>4. DOMAIN cx1 = DOMAIN cx /\ cx1[t] = d /\ \A u \in DOMAIN cx \ {t} : cx1[u] = cx[u]
  BY DEF Becomes
<1>5. d.root = cx[t].root /\ d.past = cx[t].past /\ d.made = cx[t].made
      /\ (Moving(cx[t]) => Place(d, np) = Place(cx[t], np))
  BY DEF Stays
<1>6. \A u \in DOMAIN cx : /\ cx1[u].root = cx[u].root /\ cx1[u].past = cx[u].past /\ cx1[u].made = cx[u].made
                           /\ (Moving(cx1[u]) <=> Moving(cx[u])) /\ Opened(h, cx1[u]) = Opened(h, cx[u])
                           /\ (Moving(cx[u]) => Place(cx1[u], np) = Place(cx[u], np))
  BY ONLY <1>3, <1>4, <1>5
<1>7. Shapes(h, cx1)
  BY ONLY <1>1, <1>3, <1>4 DEF Shapes
<1>8. Settled(h, cx1)
  BY ONLY <1>1, <1>2, <1>4, <1>6 DEF Settled
<1>9. Owned(h, cx1)
  BY ONLY <1>1, <1>4, <1>6 DEF Owned
<1>10. Unready(h, cx1)
  BY ONLY <1>1, <1>2 DEF Unready
<1>11. Rooted(h, cx1, fr)
  <2>1. \A u \in {0} \cup DOMAIN cx : RootOf(cx1, fr, u) = RootOf(cx, fr, u)
    BY ONLY <1>6 DEF RootOf
  <2>2. QED
    BY ONLY <1>1, <1>2, <1>4, <2>1 DEF Rooted
<1>12. Labels(h, cx1, fr, np)
  <2>1. PICK mk, rk : /\ Ranked(Kids(h), rk) /\ Marked(Kids(h), mk) /\ mk[fr] = 0
                      /\ \A u \in DOMAIN cx : Labelled(h, cx[u], np, mk, rk)
    BY ONLY <1>1 DEF Labels
  <2>2. \A u \in DOMAIN cx : Labelled(h, cx1[u], np, mk, rk)
    BY ONLY <1>6, <2>1 DEF Labelled
  <2>3. QED
    BY ONLY <1>4, <2>1, <2>2 DEF Labels
<1>13. QED
  BY <1>1, <1>2, <1>7, <1>8, <1>9, <1>10, <1>11, <1>12 DEF Good

LEMMA ArrivesGood ==
  ASSUME NEW h, NEW cx, NEW cx1, NEW t, NEW d, NEW fr, NEW np, Good(h, cx, fr, np),
         Arrives(h, cx, d, t, fr), Becomes(cx, cx1, t, d), IsSeq(cx1)
  PROVE  Good(h, cx1, fr, np)
<1>1. /\ IsSeq(cx) /\ Shapes(h, cx) /\ Settled(h, cx) /\ Built(h) /\ Owned(h, cx) /\ Unready(h, cx)
      /\ Forest(Kids(h), Retired(cx), Copied(cx), Open(h, cx))
      /\ Rooted(h, cx, fr) /\ Labels(h, cx, fr, np)
  BY DEF Good
<1>2. /\ t \in Nat \ {0} /\ DOMAIN cx = 1 .. t - 1
      /\ IsContext(d) /\ d.sno = t /\ d.root = RootOf(cx, fr, t - 1) /\ d.retired = <<>> /\ d.made = 0
      /\ d.op \in {"append", "done"} /\ (d.op = "append" => ShapeAppend(h, d))
  BY DEF Arrives
<1>3. t \notin DOMAIN cx /\ t - 1 \in {0} \cup DOMAIN cx /\ t # 0
  BY <1>2
<1>4. DOMAIN cx1 = DOMAIN cx \cup {t} /\ cx1[t] = d /\ \A u \in DOMAIN cx : cx1[u] = cx[u]
  <2>1. DOMAIN cx1 = DOMAIN cx \cup {t} /\ cx1[t] = d /\ \A u \in DOMAIN cx \ {t} : cx1[u] = cx[u]
    BY DEF Becomes
  <2>2. QED
    BY ONLY <1>3, <2>1
<1>5. ~ Moving(d) /\ Opened(h, d) = {} /\ Gone(d) = {} /\ Quit(d) = {}
  <2>1. ~ Moving(d)
    BY ONLY <1>2 DEF Moving
  <2>2. Gone(d) = {}
    BY ONLY <1>2 DEF Gone, Range
  <2>3. QED
    BY ONLY <2>1, <2>2 DEF Opened, Moving, Quit
<1>6. Open(h, cx1) = Open(h, cx)
  BY ONLY <1>4, <1>5, Zenon DEF Open
<1>7. Retired(cx1) = Retired(cx) /\ Copied(cx1) = Copied(cx)
  <2>1. \A x \in Nat : (IF x \in DOMAIN cx1 THEN Gone(cx1[x]) ELSE {}) = (IF x \in DOMAIN cx THEN Gone(cx[x]) ELSE {})
    BY ONLY <1>4, <1>5
  <2>2. \A x \in Nat : (IF x \in DOMAIN cx1 THEN Quit(cx1[x]) ELSE {}) = (IF x \in DOMAIN cx THEN Quit(cx[x]) ELSE {})
    BY ONLY <1>4, <1>5
  <2>3. Retired(cx1) = Retired(cx)
    BY ONLY <2>1, Zenon DEF Retired
  <2>4. Copied(cx1) = Copied(cx)
    BY ONLY <2>2, Zenon DEF Copied
  <2>5. QED
    BY <2>3, <2>4
<1>8. Shape(h, t, d)
  <2>1. IsSeq(d.retired)
    <3>1. <<>> \in Seq({})
      OBVIOUS
    <3>2. QED
      BY <1>2, <3>1 DEF IsSeq
  <2>2. QED
    BY ONLY <1>2, <1>5, <2>1 DEF Shape
<1>9. Shapes(h, cx1)
  BY ONLY <1>1, <1>4, <1>8 DEF Shapes
<1>10. Settled(h, cx1)
  BY ONLY <1>1, <1>4, <1>5, <1>6 DEF Settled
<1>11. Owned(h, cx1)
  BY ONLY <1>1, <1>4 DEF Owned
<1>12. Unready(h, cx1)
  BY ONLY <1>1, <1>6 DEF Unready
<1>13. Rooted(h, cx1, fr)
  <2>1. \A u \in {0} \cup DOMAIN cx : RootOf(cx1, fr, u) = RootOf(cx, fr, u)
    BY ONLY <1>4 DEF RootOf
  <2>2. RootOf(cx1, fr, t) = RootOf(cx, fr, t - 1)
    BY ONLY <1>2, <1>3, <1>4 DEF RootOf
  <2>3. PICK r : r = RootOf(cx, fr, t - 1)
    OBVIOUS
  <2>4. Top(Kids(h), Retired(cx), Open(h, cx), r, t - 1)
    BY ONLY <1>1, <1>3, <2>3 DEF Rooted
  <2>5. Retired(cx)[t] = {}
    BY ONLY <1>2, <1>3 DEF Retired
  <2>6. Top(Kids(h), Retired(cx), Open(h, cx), r, t)
    <3>1. /\ r \in DOMAIN Kids(h) /\ r # None /\ r \notin Open(h, cx) /\ r[1] <= t - 1
          /\ \A p, i : Edge(Kids(h), p, i) => Kids(h)[p][i] # r
          /\ \A x \in Nat : x <= t - 1 => r \notin Retired(cx)[x]
      BY ONLY <2>4 DEF Top
    <3>2. r[1] <= t
      <4>1. \A p \in DOMAIN Kids(h) : p[1] \in Nat
        BY ONLY <1>1 DEF Forest, Nodes
      <4>2. r[1] \in Nat /\ r[1] <= t - 1
        BY ONLY <3>1, <4>1
      <4>3. QED
        BY ONLY <1>2, <4>2
    <3>3. \A x \in Nat : x <= t => r \notin Retired(cx)[x]
      <4>1. \A x \in Nat : x <= t => x <= t - 1 \/ x = t
        BY ONLY <1>2
      <4>2. QED
        BY ONLY <2>5, <3>1, <4>1
    <3>4. QED
      BY ONLY <3>1, <3>2, <3>3 DEF Top
  <2>7. ASSUME NEW u \in {0} \cup DOMAIN cx1 PROVE Top(Kids(h), Retired(cx), Open(h, cx), RootOf(cx1, fr, u), u)
    <3>1. CASE u = t
      BY ONLY <2>2, <2>3, <2>6, <3>1
    <3>2. CASE u # t
      <4>1. u \in {0} \cup DOMAIN cx
        BY ONLY <1>4, <2>7, <3>2
      <4>2. QED
        BY ONLY <1>1, <2>1, <4>1 DEF Rooted
    <3>3. QED
      BY ONLY <3>1, <3>2
  <2>8. QED
    BY ONLY <1>6, <1>7, <2>7 DEF Rooted
<1>14. Labels(h, cx1, fr, np)
  <2>1. PICK mk, rk : /\ Ranked(Kids(h), rk) /\ Marked(Kids(h), mk) /\ mk[fr] = 0
                      /\ \A u \in DOMAIN cx : Labelled(h, cx[u], np, mk, rk)
    BY ONLY <1>1 DEF Labels
  <2>2. mk[d.root] = 0
    <3>1. CASE t - 1 = 0
      BY ONLY <1>2, <2>1, <3>1 DEF RootOf
    <3>2. CASE t - 1 # 0
      <4>1. t - 1 \in DOMAIN cx /\ d.root = cx[t - 1].root
        BY ONLY <1>2, <1>3, <3>2 DEF RootOf
      <4>2. QED
        BY ONLY <2>1, <4>1 DEF Labelled
    <3>3. QED
      BY ONLY <3>1, <3>2
  <2>3. Labelled(h, d, np, mk, rk)
    BY ONLY <1>5, <2>2 DEF Labelled
  <2>4. \A u \in DOMAIN cx1 : Labelled(h, cx1[u], np, mk, rk)
    BY ONLY <1>4, <2>1, <2>3
  <2>5. QED
    BY ONLY <2>1, <2>4 DEF Labels
<1>15. QED
  BY <1>1, <1>6, <1>7, <1>9, <1>10, <1>11, <1>12, <1>13, <1>14 DEF Good

-----------------------------------------------------------------------------
(***************************************************************************)
(* How far each ticket is.                                                 *)
(***************************************************************************)
Stage(c, np) ==
  /\ c.pos \in Nat \ {0} /\ c.at \in {"pipe", "pop", "work", "finished"}
  /\ c.at = "pipe" => c.pos < np
  /\ c.at = "pop" => c.pos + 1 = np
  /\ c.at \in {"work", "finished"} => c.pos >= np
  /\ c.at = "finished" => c.op = "done"
Timed(cx, np, com) ==
  /\ np \in Nat /\ np >= 2 /\ com \in Nat
  /\ \E l \in Nat : DOMAIN cx = 1 .. l /\ com <= l
  /\ \A t \in DOMAIN cx : Stage(cx[t], np) /\ (t <= com => cx[t].at = "finished")
  /\ \A u, t \in DOMAIN cx : u < t => cx[u].pos >= np \/ cx[u].pos > cx[t].pos

\* Ticket v has no child of a node of its own to copy for another two places.
Ahead(cx, np, v, k) == v \in DOMAIN cx /\ Moving(cx[v]) => cx[v].pos >= k

LEMMA PlaceIs ==
  ASSUME NEW c, NEW np \in Nat, Stage(c, np)
  PROVE  /\ Place(c, np) \in Nat \ {0} /\ Place(c, np) >= c.pos
         /\ (c.at # "pop" => Place(c, np) = c.pos)
<1>1. /\ c.pos \in Nat \ {0} /\ c.at = "pop" => c.pos + 1 = np
  BY DEF Stage
<1>2. CASE c.at = "pop"
  <2>1. Place(c, np) = np /\ c.pos + 1 = np
    BY <1>2 DEF Place, Stage
  <2>2. c.pos \in Nat \ {0}
    BY DEF Stage
  <2>3. PICK m \in Nat : m = c.pos
    BY <2>2
  <2>4. QED
    BY <1>2, <2>1, <2>2, <2>3
<1>3. CASE c.at # "pop"
  <2>1. Place(c, np) = c.pos
    BY <1>3 DEF Place
  <2>2. c.pos \in Nat \ {0}
    BY DEF Stage
  <2>3. QED
    BY <1>3, <2>1, <2>2
<1>4. QED
  BY <1>2, <1>3

\* What is open below a node belongs to the ticket of the node, which is near.
LEMMA OpenBelow ==
  ASSUME NEW h, NEW cx, NEW fr, NEW np, NEW com, Good(h, cx, fr, np), Timed(cx, np, com),
         NEW mk, NEW rk, Marked(Kids(h), mk), \A t \in DOMAIN cx : Labelled(h, cx[t], np, mk, rk),
         NEW p, NEW i, Edge(Kids(h), p, i), Kids(h)[p][i] \in Open(h, cx), NEW k \in Nat, mk[p] <= k
  PROVE  p[1] \in DOMAIN cx /\ Moving(cx[p[1]]) /\ cx[p[1]].pos <= k + 1
<1>1. PICK q : q = Kids(h)[p][i]
  OBVIOUS
<1>2. /\ Shapes(h, cx) /\ Nodes(Kids(h), Open(h, cx))
  BY DEF Good, Forest
<1>3. q[1] = p[1]
  BY <1>1, <1>2 DEF Nodes
<1>4. PICK v \in DOMAIN cx : q \in Opened(h, cx[v])
  BY <1>1 DEF Open
<1>5. Moving(cx[v]) /\ q[1] = v /\ q \in DOMAIN h
  BY <1>2, <1>4, OpenedIs DEF Shapes
<1>6. mk[q] = Place(cx[v], np)
  BY <1>4, <1>5 DEF Labelled
<1>7. mk[q] <= mk[p] + 1 /\ mk[p] \in Nat /\ mk[q] \in Nat
  <2>1. mk \in [DOMAIN Kids(h) -> Nat] /\ mk[q] <= mk[p] + 1 /\ p \in DOMAIN Kids(h)
    BY <1>1 DEF Marked, Edge
  <2>2. q \in DOMAIN Kids(h)
    BY ONLY <1>5 DEF Kids
  <2>3. QED
    BY ONLY <2>1, <2>2
<1>8. np \in Nat /\ Stage(cx[v], np)
  BY DEF Timed
<1>9. Place(cx[v], np) >= cx[v].pos /\ cx[v].pos \in Nat
  BY ONLY <1>8, PlaceIs DEF Stage
<1>10. cx[v].pos <= k + 1
  <2>1. PICK a, b, c : a = mk[q] /\ b = mk[p] /\ c = cx[v].pos
    OBVIOUS
  <2>2. a \in Nat /\ b \in Nat /\ c \in Nat /\ c <= a /\ a <= b + 1 /\ b <= k
    BY <1>6, <1>7, <1>9, <2>1
  <2>3. c <= k + 1
    BY ONLY <2>2, k \in Nat
  <2>4. QED
    BY ONLY <2>1, <2>3
<1>11. QED
  BY ONLY <1>3, <1>5, <1>10

\* The node that a ticket has to copy has no child that another is still copying.
LEMMA FreeIs ==
  ASSUME NEW h, NEW cx, NEW fr, NEW np, NEW com, Good(h, cx, fr, np), Timed(cx, np, com),
         NEW t \in DOMAIN cx, Moving(cx[t]),
         Ahead(cx, np, cx[t].past[1], Place(cx[t], np) + 2)
  PROVE  Ready(h, cx, t, fr, np)
<1>1. np \in Nat /\ Stage(cx[t], np)
  BY DEF Timed
<1>2. PICK k \in Nat : k = Place(cx[t], np)
  BY ONLY <1>1, PlaceIs
<1>3. PICK p : p = cx[t].past
  OBVIOUS
<1>4. PICK mk, rk : Marked(Kids(h), mk) /\ \A u \in DOMAIN cx : Labelled(h, cx[u], np, mk, rk)
  BY DEF Good, Labels
<1>5. mk[p] <= k
  BY <1>2, <1>3, <1>4 DEF Labelled
<1>6. ASSUME NEW i, Edge(Kids(h), p, i), Kids(h)[p][i] \in Open(h, cx) PROVE FALSE
  <2>1. p[1] \in DOMAIN cx /\ Moving(cx[p[1]]) /\ cx[p[1]].pos <= k + 1
    BY <1>4, <1>5, <1>6, OpenBelow
  <2>2. cx[p[1]].pos >= k + 2
    BY <1>2, <1>3, <2>1 DEF Ahead
  <2>3. PICK m \in Nat : m = cx[p[1]].pos
    BY <2>1 DEF Timed, Stage
  <2>4. QED
    BY ONLY <2>1, <2>2, <2>3
<1>7. Free(h, cx, t)
  BY ONLY <1>3, <1>6 DEF Free
<1>8. QED
  BY <1>2, <1>7 DEF Ready

\* Nor has the root that a new ticket copies.
LEMMA RootFree ==
  ASSUME NEW h, NEW cx, NEW fr, NEW np, NEW com, Good(h, cx, fr, np), Timed(cx, np, com),
         NEW t \in {0} \cup DOMAIN cx, NEW P, P = RootOf(cx, fr, t), Ahead(cx, np, P[1], 2),
         NEW i, Edge(Kids(h), P, i)
  PROVE  Kids(h)[P][i] \notin Open(h, cx)
<1>1. PICK mk, rk : /\ Marked(Kids(h), mk) /\ mk[fr] = 0
                    /\ \A u \in DOMAIN cx : Labelled(h, cx[u], np, mk, rk)
  BY DEF Good, Labels
<1>2. mk[P] = 0
  <2>1. CASE t = 0
    BY <1>1, <2>1 DEF RootOf
  <2>2. CASE t # 0
    <3>1. t \in DOMAIN cx /\ P = cx[t].root
      BY <2>2 DEF RootOf
    <3>2. Labelled(h, cx[t], np, mk, rk)
      BY <1>1, <3>1
    <3>3. QED
      BY ONLY <3>1, <3>2 DEF Labelled
  <2>3. QED
    BY <2>1, <2>2
<1>3. SUFFICES ASSUME Kids(h)[P][i] \in Open(h, cx) PROVE FALSE
  OBVIOUS
<1>4. mk[P] <= 0 /\ 0 \in Nat
  BY ONLY <1>2
<1>5. P[1] \in DOMAIN cx /\ Moving(cx[P[1]]) /\ cx[P[1]].pos <= 0 + 1
  BY <1>1, <1>3, <1>4, OpenBelow
<1>6. cx[P[1]].pos >= 2
  BY <1>5 DEF Ahead
<1>7. PICK m \in Nat : m = cx[P[1]].pos
  BY <1>5 DEF Timed, Stage
<1>8. QED
  BY ONLY <1>5, <1>6, <1>7

\* What the guards of the stages say.
LEMMA PassedAhead ==
  ASSUME Timed(ctx, nPipes, committed), NEW t \in Nat \ {0}, NEW j \in Nat, j <= nPipes, Passed(t - 1, j),
         t - 1 \in {0} \cup DOMAIN ctx, NEW v \in DOMAIN ctx, v < t
  PROVE  ctx[v].pos >= nPipes \/ ctx[v].pos >= j
<1>1. /\ nPipes \in Nat /\ \A u \in DOMAIN ctx : Stage(ctx[u], nPipes)
      /\ \A u, w \in DOMAIN ctx : u < w => ctx[u].pos >= nPipes \/ ctx[u].pos > ctx[w].pos
      /\ \E l \in Nat : DOMAIN ctx = 1 .. l
  BY DEF Timed
<1>2. v \in Nat \ {0}
  BY <1>1
<1>3. t - 1 \in DOMAIN ctx /\ (v = t - 1 \/ v < t - 1) /\ t - 1 > 0
  BY <1>2
<1>4. PICK a \in Nat, b \in Nat : a = ctx[v].pos /\ b = ctx[t - 1].pos
  BY <1>1, <1>3 DEF Stage
<1>5. b >= nPipes \/ b >= j
  <2>1. ctx[t - 1].at = "finished" \/ ctx[t - 1].pos >= j
    BY <1>3 DEF Passed
  <2>2. ctx[t - 1].at = "finished" => ctx[t - 1].pos >= nPipes
    BY <1>1, <1>3 DEF Stage
  <2>3. QED
    BY <1>4, <2>1, <2>2
<1>6. v = t - 1 \/ a >= nPipes \/ a > b
  BY <1>1, <1>3, <1>4
<1>7. a >= nPipes \/ a >= j
  BY ONLY <1>1, <1>4, <1>5, <1>6, j \in Nat, j <= nPipes
<1>8. QED
  BY ONLY <1>4, <1>7

LEMMA WaitAhead ==
  ASSUME Timed(ctx, nPipes, committed), NEW c, NEW v, v = heap[c.past].ver, NEW k \in Int, WaitStage(c, k)
  PROVE  Ahead(ctx, nPipes, v, nPipes + k)
<1>1. SUFFICES ASSUME v \in DOMAIN ctx, Moving(ctx[v]) PROVE ctx[v].pos >= nPipes + k
  BY DEF Ahead
<1>2. nPipes \in Nat /\ committed \in Nat /\ Stage(ctx[v], nPipes) /\ v \in Nat
  BY <1>1 DEF Timed
<1>3. ctx[v].at # "finished" /\ ctx[v].pos \in Nat
  BY <1>1, <1>2 DEF Stage, Moving
<1>4. v > committed
  <2>1. v <= committed => ctx[v].at = "finished"
    BY <1>1 DEF Timed
  <2>2. QED
    BY <1>2, <1>3, <2>1
<1>5. ctx[v].pos - nPipes >= k
  BY <1>3, <1>4 DEF WaitStage, Reached
<1>6. PICK m \in Nat : m = ctx[v].pos
  BY <1>3
<1>7. QED
  BY ONLY <1>2, <1>5, <1>6, k \in Int

\* A step of one ticket.
LEMMA TimedStep ==
  ASSUME NEW cx, NEW np, NEW com, Timed(cx, np, com), NEW t \in DOMAIN cx, NEW d, NEW cx1, Becomes(cx, cx1, t, d),
         Stage(d, np), d.pos >= cx[t].pos, cx[t].at = "finished" => d.at = "finished",
         \A u \in DOMAIN cx : u < t => cx[u].pos >= np \/ cx[u].pos > d.pos
  PROVE  Timed(cx1, np, com)
<1>1. /\ np \in Nat /\ np >= 2 /\ com \in Nat
      /\ \E l \in Nat : DOMAIN cx = 1 .. l /\ com <= l
      /\ \A u \in DOMAIN cx : Stage(cx[u], np) /\ (u <= com => cx[u].at = "finished")
      /\ \A u, v \in DOMAIN cx : u < v => cx[u].pos >= np \/ cx[u].pos > cx[v].pos
  BY DEF Timed
<1>2. DOMAIN cx1 = DOMAIN cx /\ cx1[t] = d /\ \A u \in DOMAIN cx : u # t => cx1[u] = cx[u]
  BY DEF Becomes
<1>3. ASSUME NEW u \in DOMAIN cx PROVE Stage(cx1[u], np) /\ (u <= com => cx1[u].at = "finished")
  BY <1>1, <1>2
<1>4. ASSUME NEW u \in DOMAIN cx, NEW v \in DOMAIN cx, u < v PROVE cx1[u].pos >= np \/ cx1[u].pos > cx1[v].pos
  <2>1. u \in Nat /\ v \in Nat /\ u # v
    BY <1>1, <1>4
  <2>2. CASE v = t
    BY <1>2, <1>4, <2>1, <2>2
  <2>3. CASE u = t
    <3>1. cx1[u] = d /\ cx1[v] = cx[v] /\ (cx[t].pos >= np \/ cx[t].pos > cx[v].pos)
      BY <1>1, <1>2, <1>4, <2>1, <2>3
    <3>2. PICK a \in Nat, b \in Nat, e \in Nat : a = d.pos /\ b = cx[t].pos /\ e = cx[v].pos
      BY <1>1 DEF Stage
    <3>3. a >= b /\ (b >= np \/ b > e)
      BY <3>1, <3>2
    <3>4. a >= np \/ a > e
      BY ONLY <1>1, <3>2, <3>3
    <3>5. QED
      BY <3>1, <3>2, <3>4
  <2>4. CASE u # t /\ v # t
    BY <1>1, <1>2, <1>4, <2>4
  <2>5. QED
    BY <2>2, <2>3, <2>4
<1>5. QED
  BY ONLY <1>1, <1>2, <1>3, <1>4 DEF Timed

\* A new ticket.
LEMMA TimedEntry ==
  ASSUME NEW cx, NEW np, NEW com, Timed(cx, np, com), NEW t \in Nat \ {0}, DOMAIN cx = 1 .. t - 1, NEW d, NEW cx1,
         Becomes(cx, cx1, t, d), d.pos = 1, d.at = "pipe",
         \A u \in DOMAIN cx : cx[u].pos >= np \/ cx[u].pos >= 2
  PROVE  Timed(cx1, np, com)
<1>1. /\ np \in Nat /\ np >= 2 /\ com \in Nat
      /\ \E l \in Nat : DOMAIN cx = 1 .. l /\ com <= l
      /\ \A u \in DOMAIN cx : Stage(cx[u], np) /\ (u <= com => cx[u].at = "finished")
      /\ \A u, v \in DOMAIN cx : u < v => cx[u].pos >= np \/ cx[u].pos > cx[v].pos
  BY DEF Timed
<1>2. DOMAIN cx1 = 1 .. t /\ cx1[t] = d /\ \A u \in DOMAIN cx : u # t /\ cx1[u] = cx[u]
  BY DEF Becomes
<1>3. com <= t - 1
  <2>1. PICK l \in Nat : DOMAIN cx = 1 .. l /\ com <= l
    BY <1>1
  <2>2. 1 .. l = 1 .. t - 1
    BY <2>1
  <2>3. l = t - 1
    <3>1. l > 0 => l <= t - 1
      BY ONLY <2>1, <2>2, t \in Nat \ {0}
    <3>2. t - 1 > 0 => t - 1 <= l
      BY ONLY <2>1, <2>2, t \in Nat \ {0}
    <3>3. QED
      BY ONLY <2>1, <3>1, <3>2, t \in Nat \ {0}
  <2>4. QED
    BY <2>1, <2>3
<1>4. Stage(d, np)
  BY <1>1 DEF Stage
<1>5. ASSUME NEW u \in 1 .. t PROVE Stage(cx1[u], np) /\ (u <= com => cx1[u].at = "finished")
  <2>1. CASE u = t
    BY <1>1, <1>2, <1>3, <1>4, <2>1
  <2>2. CASE u # t
    BY <1>1, <1>2, <2>2
  <2>3. QED
    BY <2>1, <2>2
<1>6. ASSUME NEW u \in 1 .. t, NEW v \in 1 .. t, u < v PROVE cx1[u].pos >= np \/ cx1[u].pos > cx1[v].pos
  <2>1. u \in DOMAIN cx /\ cx1[u] = cx[u]
    BY <1>2, <1>6
  <2>2. CASE v = t
    <3>1. PICK a \in Nat : a = cx[u].pos
      BY <1>1, <2>1 DEF Stage
    <3>2. a >= np \/ a >= 2
      BY <2>1, <3>1
    <3>3. QED
      BY <1>1, <1>2, <2>1, <2>2, <3>1, <3>2
  <2>3. CASE v # t
    <3>1. v \in DOMAIN cx /\ cx1[v] = cx[v]
      BY <1>2, <2>3
    <3>2. QED
      BY <1>1, <1>6, <2>1, <3>1
  <2>4. QED
    BY <2>2, <2>3
<1>7. com <= t
  BY <1>1, <1>3
<1>8. QED
  BY ONLY <1>1, <1>2, <1>5, <1>6, <1>7, t \in Nat \ {0} DEF Timed

-----------------------------------------------------------------------------
(***************************************************************************)
(* Functions that go down a tree: D the nodes, E the ends, nx the next     *)
(* node.  The equation of such a function has a solution whatever the      *)
(* graph is; where a rank falls, the solution is what one expects.         *)
(***************************************************************************)
\* The nodes on the way down from n.
Stairs(D, E, nx, n) ==
  {m \in D : \A S \in SUBSET D : n \in S /\ (\A p \in S \ E : nx[p] \in S) => m \in S}

LEMMA StairsIs ==
  ASSUME NEW D, NEW E, NEW nx \in [D -> D], NEW n \in D
  PROVE  Stairs(D, E, nx, n) = {n} \cup (IF n \in E THEN {} ELSE Stairs(D, E, nx, nx[n]))
<1> DEFINE W(m) == Stairs(D, E, nx, m)
           X == {n} \cup (IF n \in E THEN {} ELSE W(nx[n]))
<1>1. ASSUME NEW m \in W(n) PROVE m \in X
  <2>1. X \in SUBSET D /\ n \in X
    BY DEF Stairs
  <2>2. ASSUME NEW p \in X \ E PROVE nx[p] \in X
    <3>1. CASE p = n
      <4>1. nx[n] \in W(nx[n])
        BY DEF Stairs
      <4>2. QED
        BY <2>2, <3>1, <4>1
    <3>2. CASE p # n
      <4>1. n \notin E /\ p \in W(nx[n]) /\ p \in D
        BY <2>1, <2>2, <3>2
      <4>2. nx[p] \in W(nx[n])
        <5>1. nx[p] \in D
          BY <4>1
        <5>2. ASSUME NEW S \in SUBSET D, nx[n] \in S, \A o \in S \ E : nx[o] \in S PROVE nx[p] \in S
          <6>1. p \in S
            BY <4>1, <5>2 DEF Stairs
          <6>2. QED
            BY <2>2, <5>2, <6>1
        <5>3. QED
          BY <5>1, <5>2 DEF Stairs
      <4>3. QED
        BY <4>1, <4>2
    <3>3. QED
      BY <3>1, <3>2
  <2>3. QED
    BY <1>1, <2>1, <2>2 DEF Stairs
<1>2. n \in W(n)
  BY DEF Stairs
<1>3. ASSUME n \notin E, NEW m \in W(nx[n]) PROVE m \in W(n)
  <2>1. ASSUME NEW S \in SUBSET D, n \in S, \A o \in S \ E : nx[o] \in S PROVE m \in S
    <3>1. nx[n] \in S
      BY <1>3, <2>1
    <3>2. QED
      BY <1>3, <2>1, <3>1 DEF Stairs
  <2>2. m \in D
    BY <1>3 DEF Stairs
  <2>3. QED
    BY <2>1, <2>2 DEF Stairs
<1>4. \A m : m \in W(n) <=> m \in X
  BY <1>1, <1>2, <1>3
<1> HIDE DEF W
<1>5. W(n) = X
  BY ONLY <1>4
<1>6. QED
  BY ONLY <1>5 DEF W

\* The function that finds the end of each stair.
Finds(D, E, nx, f) == f = [n \in D |-> IF n \in E THEN n ELSE f[nx[n]]]

\* The end that is found from a node.
LEMMA FoundExists ==
  ASSUME NEW D, NEW E, NEW nx \in [D -> D]
  PROVE  \E f : Finds(D, E, nx, f)
<1> DEFINE W(n) == Stairs(D, E, nx, n) \cap E
           X(n) == IF n \in E THEN n ELSE CHOOSE m \in W(n) : TRUE
           f == [n \in D |-> X(n)]
<1>1. ASSUME NEW n \in D, n \notin E, nx[n] \notin E PROVE W(n) = W(nx[n])
  BY <1>1, StairsIs
<1>2. ASSUME NEW n \in D, n \notin E, nx[n] \in E PROVE W(n) = {nx[n]}
  <2>1. nx[n] \in D
    OBVIOUS
  <2>2. Stairs(D, E, nx, nx[n]) = {nx[n]}
    BY <1>2, <2>1, StairsIs
  <2>3. Stairs(D, E, nx, n) = {n} \cup {nx[n]}
    BY <1>2, <2>2, StairsIs
  <2>4. QED
    BY <1>2, <2>3
<1> HIDE DEF W
<1>3. ASSUME NEW n \in D PROVE X(n) = IF n \in E THEN n ELSE f[nx[n]]
  <2>1. CASE n \in E
    BY ONLY <2>1 DEF X
  <2>2. CASE n \notin E /\ nx[n] \in E
    <3>1. W(n) = {nx[n]}
      BY <1>2, <2>2
    <3>2. (CHOOSE m \in W(n) : TRUE) = nx[n]
      BY ONLY <3>1
    <3>3. f[nx[n]] = nx[n]
      BY <2>2
    <3>4. QED
      BY ONLY <2>2, <3>2, <3>3 DEF X
  <2>3. CASE n \notin E /\ nx[n] \notin E
    <3>1. W(n) = W(nx[n])
      BY <1>1, <2>3
    <3>2. f[nx[n]] = (CHOOSE m \in W(nx[n]) : TRUE)
      BY <2>3
    <3>3. QED
      BY ONLY <2>3, <3>1, <3>2 DEF X
  <2>4. QED
    BY ONLY <2>1, <2>2, <2>3
<1>4. f = [n \in D |-> IF n \in E THEN n ELSE f[nx[n]]]
  <2>1. f = [n \in D |-> X(n)]
    OBVIOUS
  <2> HIDE DEF f, X
  <2>2. QED
    BY ONLY <1>3, <2>1, Zenon
<1> HIDE DEF f
<1>5. QED
  BY <1>4 DEF Finds

Falls(D, E, nx, rk, f, S, r) ==
  /\ nx \in [D -> D] /\ rk \in [D -> Nat] /\ \A n \in D \ E : rk[nx[n]] < rk[n]
  /\ f = [n \in D |-> IF n \in E THEN n ELSE f[nx[n]]]
  /\ S \in SUBSET D /\ r \in S /\ \A n \in S \ E : nx[n] \in S
LEMMA FoundIs ==
  ASSUME NEW D, NEW E, NEW nx, NEW rk, NEW f, NEW S, NEW r, Falls(D, E, nx, rk, f, S, r)
  PROVE  f[r] \in S \cap E
<1> /\ nx \in [D -> D] /\ rk \in [D -> Nat] /\ \A n \in D \ E : rk[nx[n]] < rk[n]
    /\ f = [n \in D |-> IF n \in E THEN n ELSE f[nx[n]]]
    /\ S \in SUBSET D /\ r \in S /\ \A n \in S \ E : nx[n] \in S
  BY DEF Falls
<1> DEFINE B == {m \in Nat : \E n \in S : rk[n] = m /\ f[n] \notin S \cap E}
<1>1. SUFFICES ASSUME f[r] \notin S \cap E PROVE FALSE
  OBVIOUS
<1>2. rk[r] \in B
  BY <1>1
<1>3. PICK m \in B : \A k \in B : m <= k
  <2>1. B \in SUBSET Nat /\ rk[r] \in B
    BY <1>2
  <2> HIDE DEF B
  <2>2. QED
    BY <2>1, LeastNumber
<1>4. PICK n \in S : rk[n] = m /\ f[n] \notin S \cap E
  BY <1>3
<1>5. n \notin E
  BY <1>4
<1>6. f[n] = f[nx[n]] /\ nx[n] \in S /\ rk[nx[n]] < rk[n] /\ rk[nx[n]] \in Nat
  BY <1>4, <1>5
<1>7. rk[nx[n]] \in B
  BY <1>4, <1>6
<1>8. m \in Nat /\ m <= rk[nx[n]]
  BY <1>3, <1>7
<1>9. QED
  BY ONLY <1>4, <1>6, <1>8

\* Whether all nodes on the way down are in K.
AllOf(D, E, nx, K, f) == f = [n \in D |-> n \in E \/ (n \in K /\ f[nx[n]])]
LEMMA AllExists ==
  ASSUME NEW D, NEW E, NEW nx \in [D -> D], NEW K
  PROVE  \E f : AllOf(D, E, nx, K, f)
<1> DEFINE W(n) == \A m \in Stairs(D, E, nx, n) : m \in E \/ m \in K
           f == [n \in D |-> W(n)]
<1>1. ASSUME NEW n \in D PROVE W(n) = (n \in E \/ (n \in K /\ f[nx[n]]))
  <2>1. CASE n \in E
    <3>1. Stairs(D, E, nx, n) = {n}
      BY <2>1, StairsIs
    <3>2. QED
      BY ONLY <2>1, <3>1
  <2>2. CASE n \notin E
    <3>1. Stairs(D, E, nx, n) = {n} \cup Stairs(D, E, nx, nx[n])
      BY <2>2, StairsIs
    <3>2. f[nx[n]] = W(nx[n])
      BY DEF W
    <3>3. QED
      BY ONLY <2>2, <3>1, <3>2
  <2>3. QED
    BY ONLY <2>1, <2>2
<1>2. f = [n \in D |-> n \in E \/ (n \in K /\ f[nx[n]])]
  <2>1. f = [n \in D |-> W(n)]
    OBVIOUS
  <2> HIDE DEF f, W
  <2>2. QED
    BY ONLY <1>1, <2>1, Zenon
<1>3. QED
  BY <1>2 DEF AllOf

\* The way of a key down the tree.
Child(n, key)  == n.chs[Findch(n, key)]
Way(h, key)    == [n \in DOMAIN h |-> IF h[n].leaf THEN n ELSE Child(h[n], key)]
Leaves(h)      == {n \in DOMAIN h : h[n].leaf}

LEMMA WayIs ==
  ASSUME NEW h, NEW key, Built(h)
  PROVE  /\ Way(h, key) \in [DOMAIN h -> DOMAIN h]
         /\ \A n \in DOMAIN h \ Leaves(h) : /\ ~ h[n].leaf /\ Findch(h[n], key) \in DOMAIN h[n].chs
                                            /\ Way(h, key)[n] = Child(h[n], key)
<1>1. ASSUME NEW n \in DOMAIN h, ~ h[n].leaf
      PROVE  Findch(h[n], key) \in DOMAIN h[n].chs /\ Child(h[n], key) \in DOMAIN h
  <2>1. IsNode(h[n]) /\ h[n].chs \in Seq(DOMAIN h)
    BY DEF Built
  <2>2. Findch(h[n], key) \in DOMAIN h[n].chs
    BY <1>1, <2>1, FindchIs
  <2>3. PICK s : s = h[n].chs
    OBVIOUS
  <2>4. PICK i : i = Findch(h[n], key)
    OBVIOUS
  <2>5. s \in Seq(DOMAIN h) /\ i \in DOMAIN s
    BY ONLY <2>1, <2>2, <2>3, <2>4
  <2>6. s[i] \in DOMAIN h
    BY ONLY <2>5
  <2>7. QED
    BY ONLY <2>2, <2>3, <2>4, <2>6 DEF Child
<1>2. QED
  BY ONLY <1>1 DEF Way, Leaves

LEMMA LeafFound ==
  ASSUME NEW h, NEW key, Built(h), NEW rk, Ranked(Kids(h), rk), NEW S \in SUBSET DOMAIN h, NEW r \in S,
         \A n \in S : ~ h[n].leaf => Child(h[n], key) \in S
  PROVE  LeafOf(h, r, key) \in S /\ h[LeafOf(h, r, key)].leaf
<1>1. PICK D, E, nx : D = DOMAIN h /\ E = Leaves(h) /\ nx = Way(h, key)
  OBVIOUS
<1>2. /\ nx \in [D -> D]
      /\ \A n \in D \ E : ~ h[n].leaf /\ Findch(h[n], key) \in DOMAIN h[n].chs /\ nx[n] = Child(h[n], key)
  BY <1>1, WayIs
<1>3. \A n \in D : (n \in E <=> h[n].leaf)
  BY <1>1 DEF Leaves
<1>4. rk \in [D -> Nat] /\ \A n \in D \ E : rk[nx[n]] < rk[n]
  <2>1. DOMAIN Kids(h) = D /\ \A n \in D : Kids(h)[n] = h[n].chs
    BY <1>1 DEF Kids
  <2>2. rk \in [D -> Nat] /\ \A p, i : Edge(Kids(h), p, i) => rk[Kids(h)[p][i]] < rk[p]
    BY <2>1 DEF Ranked
  <2>3. ASSUME NEW n \in D \ E PROVE rk[nx[n]] < rk[n]
    <3>1. PICK i : i = Findch(h[n], key)
      OBVIOUS
    <3>2. Edge(Kids(h), n, i) /\ Kids(h)[n][i] = nx[n]
      BY <1>2, <2>1, <3>1 DEF Edge, Child
    <3>3. QED
      BY <2>2, <3>2
  <2>4. QED
    BY ONLY <2>2, <2>3
<1> DEFINE G(f) == [n \in DOMAIN h |-> IF h[n].leaf THEN n ELSE f[h[n].chs[Findch(h[n], key)]]]
           H(f) == [n \in D |-> IF n \in E THEN n ELSE f[nx[n]]]
<1>5. ASSUME NEW f PROVE G(f) = H(f)
  <2>1. \A n \in D : (IF h[n].leaf THEN n ELSE f[h[n].chs[Findch(h[n], key)]]) = (IF n \in E THEN n ELSE f[nx[n]])
    BY ONLY <1>2, <1>3 DEF Child
  <2>2. QED
    BY ONLY <1>1, <2>1, Zenon
<1>6. \E f : f = G(f)
  <2>0. nx \in [D -> D]
    BY ONLY <1>2
  <2>3. PICK f : Finds(D, E, nx, f)
    BY ONLY <2>0, FoundExists
  <2>1. f = H(f)
    BY ONLY <2>3 DEF Finds
  <2> HIDE DEF G, H
  <2>2. QED
    BY <1>5, <2>1
<1>7. PICK f : f = (CHOOSE g : g = G(g))
  OBVIOUS
<1>8. f = G(f)
  <2> HIDE DEF G
  <2>1. QED
    BY ONLY <1>6, <1>7, Zenon
<1>9. LeafOf(h, r, key) = f[r]
  BY ONLY <1>7 DEF LeafOf
<1>10. f = H(f)
  BY <1>5, <1>8
<1>11. f[r] \in S \cap E
  <2>1. \A n \in S \ E : nx[n] \in S
    BY <1>1, <1>2, <1>3
  <2>2. S \in SUBSET D
    BY <1>1
  <2>3. f = [n \in D |-> IF n \in E THEN n ELSE f[nx[n]]]
    BY ONLY <1>10
  <2>4. nx \in [D -> D] /\ r \in S
    BY <1>2
  <2> HIDE DEF G, H
  <2>5. Falls(D, E, nx, rk, f, S, r)
    BY ONLY <1>4, <2>1, <2>2, <2>3, <2>4 DEF Falls
  <2>6. QED
    BY ONLY <2>5, FoundIs
<1>12. QED
  BY <1>1, <1>9, <1>11 DEF Leaves

LEMMA PathReadyIs ==
  ASSUME NEW h, NEW key, NEW com, Built(h), NEW r \in DOMAIN h, PathReady(h, r, key, com)
  PROVE  \E S \in SUBSET DOMAIN h :
           /\ r \in S
           /\ \A n \in S : ~ h[n].leaf => (h[n].ver <= com \/ h[n].ready) /\ Child(h[n], key) \in S
<1>1. PICK D, E, nx : D = DOMAIN h /\ E = Leaves(h) /\ nx = Way(h, key)
  OBVIOUS
<1>2. PICK K : K = {n \in D : h[n].ver <= com \/ h[n].ready}
  OBVIOUS
<1>3. /\ nx \in [D -> D]
      /\ \A n \in D \ E : ~ h[n].leaf /\ nx[n] = Child(h[n], key)
  BY <1>1, WayIs
<1>4. \A n \in D : (n \in E <=> h[n].leaf) /\ (n \in K <=> (h[n].ver <= com \/ h[n].ready))
  BY <1>1, <1>2 DEF Leaves
<1> DEFINE G(f) == [n \in DOMAIN h |-> \/ h[n].leaf
                                       \/ /\ h[n].ver <= com \/ h[n].ready
                                          /\ f[h[n].chs[Findch(h[n], key)]]]
           H(f) == [n \in D |-> n \in E \/ (n \in K /\ f[nx[n]])]
<1>5. ASSUME NEW f PROVE G(f) = H(f)
  <2>1. \A n \in D : (\/ h[n].leaf
                      \/ /\ h[n].ver <= com \/ h[n].ready
                         /\ f[h[n].chs[Findch(h[n], key)]]) = (n \in E \/ (n \in K /\ f[nx[n]]))
    <3>1. ASSUME NEW n \in D
          PROVE (\/ h[n].leaf
                 \/ /\ h[n].ver <= com \/ h[n].ready
                    /\ f[h[n].chs[Findch(h[n], key)]]) = (n \in E \/ (n \in K /\ f[nx[n]]))
      <4>1. CASE n \in E
        BY ONLY <1>4, <4>1
      <4>2. CASE n \notin E
        <5>1. ~ h[n].leaf /\ (n \in K <=> (h[n].ver <= com \/ h[n].ready))
          BY ONLY <1>4, <4>2
        <5>2. f[nx[n]] = f[h[n].chs[Findch(h[n], key)]]
          BY ONLY <1>3, <4>2 DEF Child
        <5>3. QED
          BY ONLY <4>2, <5>1, <5>2, Zenon
      <4>3. QED
        BY ONLY <4>1, <4>2, Zenon
    <3>2. QED
      BY ONLY <3>1, Zenon
  <2>2. QED
    BY ONLY <1>1, <2>1, Zenon
<1>6. \E f : f = G(f)
  <2>1. \E f : f = H(f)
    <3>1. nx \in [D -> D]
      BY ONLY <1>3
    <3>2. PICK f : AllOf(D, E, nx, K, f)
      BY ONLY <3>1, AllExists
    <3>3. f = H(f)
      BY ONLY <3>2, Zenon DEF AllOf
    <3>4. QED
      BY ONLY <3>3, Zenon
  <2> HIDE DEF G, H
  <2>2. QED
    BY <1>5, <2>1
<1>7. PICK f : f = (CHOOSE g : g = G(g))
  OBVIOUS
<1>8. f = G(f)
  <2> HIDE DEF G
  <2>1. QED
    BY ONLY <1>6, <1>7, Zenon
<1>9. PathReady(h, r, key, com) = f[r]
  BY ONLY <1>7, Zenon DEF PathReady
<1>10. f[r]
  BY ONLY <1>9, PathReady(h, r, key, com)
<1>11. f = H(f)
  BY <1>5, <1>8
<1>12. \A n \in D : f[n] = (n \in E \/ (n \in K /\ f[nx[n]]))
  <2> DEFINE h0 == H(f)
  <2>1. \A n \in D : h0[n] = (n \in E \/ (n \in K /\ f[nx[n]]))
    OBVIOUS
  <2>2. f = h0
    BY ONLY <1>11
  <2> HIDE DEF h0
  <2>3. QED
    BY ONLY <2>1, <2>2, Zenon
<1>13. PICK S \in SUBSET D : \A n \in D : n \in S <=> f[n]
  <2>1. {n \in D : f[n]} \in SUBSET D /\ \A n \in D : n \in {m \in D : f[m]} <=> f[n]
    OBVIOUS
  <2>2. QED
    BY ONLY <2>1
<1>14. r \in S
  BY <1>1, <1>10, <1>13
<1>15. ASSUME NEW n \in S, ~ h[n].leaf
       PROVE  (h[n].ver <= com \/ h[n].ready) /\ Child(h[n], key) \in S
  <2>1. n \in D /\ n \notin E /\ f[n]
    BY <1>4, <1>13, <1>15
  <2>2. n \in K /\ f[nx[n]]
    BY ONLY <1>12, <2>1, Zenon
  <2>3. nx[n] \in D /\ nx[n] = Child(h[n], key)
    BY ONLY <1>3, <2>1
  <2>4. QED
    BY ONLY <1>4, <1>13, <2>1, <2>2, <2>3
<1>16. QED
  BY <1>1, <1>14, <1>15

-----------------------------------------------------------------------------
(***************************************************************************)
(* What is below a node, found without going through the nodes of U.       *)
(***************************************************************************)
Shut(C, U, S) == \A p, i : p \in S /\ p \notin U /\ Edge(C, p, i) => C[p][i] \in S
Below(C, U, r) == {m \in DOMAIN C : \A S \in SUBSET DOMAIN C : r \in S /\ Shut(C, U, S) => m \in S}

\* Nothing below the root of a ticket was replaced by it or an earlier one.
LEMMA BelowKept ==
  ASSUME NEW C, NEW R, NEW L, NEW U, NEW V, NEW r, NEW t \in Nat, Forest(C, R, L, U), Top(C, R, U, r, t),
         NEW m \in Below(C, V, r), NEW x \in Nat, x <= t
  PROVE  m \notin R[x]
<1> DEFINE S == {n \in DOMAIN C : \A y \in Nat : y <= t => n \notin R[y]}
<1>1. r \in S
  BY DEF Top
<1>2. ASSUME NEW p, NEW i, p \in S, Edge(C, p, i) PROVE C[p][i] \in S
  <2>1. C[p][i] \in DOMAIN C
    <3>1. C[p] \in Seq(DOMAIN C) /\ i \in DOMAIN C[p]
      BY <1>2 DEF Forest, Nodes, Edge
    <3>2. QED
      BY ONLY <3>1
  <2>2. ASSUME NEW y \in Nat, y <= t, C[p][i] \in R[y] PROVE FALSE
    <3>1. PICK z \in Nat : z <= y /\ p \in L[z]
      BY <1>2, <2>2 DEF Forest, GoneAbove
    <3>2. p \in R[z] /\ z <= t
      BY <2>2, <3>1 DEF Forest, Retirements
    <3>3. QED
      BY <1>2, <3>1, <3>2
  <2>3. QED
    BY <2>1, <2>2
<1>3. Shut(C, V, S)
  <2> HIDE DEF S
  <2>1. QED
    BY <1>2 DEF Shut
<1>4. S \in SUBSET DOMAIN C
  OBVIOUS
<1>5. m \in S
  <2> HIDE DEF S
  <2>1. QED
    BY <1>1, <1>3, <1>4 DEF Below
<1>6. QED
  BY <1>5

LEMMA BelowIs ==
  ASSUME NEW C, \A p \in DOMAIN C : C[p] \in Seq(DOMAIN C), NEW n \in DOMAIN C
  PROVE  Below(C, {}, n) = {n} \cup UNION {Below(C, {}, c) : c \in Range(C[n])}
<1> DEFINE W(m) == Below(C, {}, m)
           X == {n} \cup UNION {W(c) : c \in Range(C[n])}
<1>1. \A p, i : Edge(C, p, i) => C[p][i] \in DOMAIN C /\ C[p][i] \in Range(C[p])
  <2>1. ASSUME NEW p, NEW i, Edge(C, p, i) PROVE C[p][i] \in DOMAIN C /\ C[p][i] \in Range(C[p])
    <3>1. C[p] \in Seq(DOMAIN C) /\ i \in DOMAIN C[p]
      BY <2>1 DEF Edge
    <3>2. QED
      BY ONLY <3>1 DEF Range
  <2>2. QED
    BY <2>1
<1>2. \A c : c \in Range(C[n]) => c \in DOMAIN C /\ \E i : Edge(C, n, i) /\ c = C[n][i]
  <2>1. ASSUME NEW c \in Range(C[n]) PROVE c \in DOMAIN C /\ \E i : Edge(C, n, i) /\ c = C[n][i]
    <3>1. PICK i \in DOMAIN C[n] : c = C[n][i]
      BY DEF Range
    <3>2. Edge(C, n, i)
      BY DEF Edge
    <3>3. QED
      BY <1>1, <3>1, <3>2
  <2>2. QED
    BY <2>1
<1>3. X \in SUBSET DOMAIN C /\ n \in X
  BY DEF Below
<1>4. \A c \in DOMAIN C : c \in W(c)
  BY DEF Below
<1>5. ASSUME NEW p, NEW i, p \in X, Edge(C, p, i) PROVE C[p][i] \in X
  <2>1. CASE p = n
    <3>1. C[p][i] \in Range(C[n]) /\ C[p][i] \in DOMAIN C
      BY <1>1, <1>5, <2>1
    <3>2. C[p][i] \in W(C[p][i])
      BY <1>4, <3>1
    <3> HIDE DEF W
    <3>3. QED
      BY <3>1, <3>2
  <2>2. CASE p # n
    <3>1. PICK c \in Range(C[n]) : p \in W(c)
      BY <1>5, <2>2
    <3>2. C[p][i] \in W(c)
      <4>1. C[p][i] \in DOMAIN C
        BY <1>1, <1>5
      <4>2. ASSUME NEW S \in SUBSET DOMAIN C, c \in S, Shut(C, {}, S) PROVE C[p][i] \in S
        <5>1. p \in S
          BY <3>1, <4>2 DEF Below
        <5>2. QED
          BY ONLY <1>5, <4>2, <5>1 DEF Shut
      <4>3. QED
        BY <4>1, <4>2 DEF Below
    <3> HIDE DEF W
    <3>3. QED
      BY <3>1, <3>2
  <2>3. QED
    BY <2>1, <2>2
<1>6. ASSUME NEW m \in W(n) PROVE m \in X
  <2>1. Shut(C, {}, X)
    <3> HIDE DEF X
    <3>1. QED
      BY <1>5 DEF Shut
  <2>2. \A S \in SUBSET DOMAIN C : n \in S /\ Shut(C, {}, S) => m \in S
    BY <1>6 DEF Below
  <2> HIDE DEF X
  <2>3. QED
    BY ONLY <1>3, <2>1, <2>2
<1>7. ASSUME NEW c \in Range(C[n]), NEW m \in W(c) PROVE m \in W(n)
  <2>1. ASSUME NEW S \in SUBSET DOMAIN C, n \in S, Shut(C, {}, S) PROVE m \in S
    <3>1. PICK i : Edge(C, n, i) /\ c = C[n][i]
      BY <1>2
    <3>2. c \in S
      BY ONLY <2>1, <3>1 DEF Shut
    <3>3. QED
      BY <1>7, <2>1, <3>2 DEF Below
  <2>2. m \in DOMAIN C
    BY <1>7 DEF Below
  <2>3. QED
    BY <2>1, <2>2 DEF Below
<1>8. n \in W(n)
  BY <1>4
<1>9. W(n) = X
  <2> HIDE DEF W
  <2>1. \A m : m \in X <=> m = n \/ \E c \in Range(C[n]) : m \in W(c)
    OBVIOUS
  <2> HIDE DEF X
  <2>2. QED
    BY <1>6, <1>7, <1>8, <2>1
<1>10. QED
  BY ONLY <1>9

\* Reach is that, without exception.
LEMMA ReachIs ==
  ASSUME NEW h, Built(h), NEW rk, Ranked(Kids(h), rk), NEW r \in DOMAIN h
  PROVE  Reach(h, r) = Below(Kids(h), {}, r)
<1>1. PICK C, D : C = Kids(h) /\ D = DOMAIN h
  OBVIOUS
<1>2. DOMAIN C = D /\ \A n \in D : C[n] = h[n].chs /\ C[n] \in Seq(D)
  BY <1>1 DEF Built, Kids
<1> DEFINE G(f) == [n \in DOMAIN h |-> {n} \cup UNION {f[c] : c \in Range(h[n].chs)}]
           H(f) == [n \in D |-> {n} \cup UNION {f[c] : c \in Range(C[n])}]
           b == [n \in D |-> Below(C, {}, n)]
<1>3. ASSUME NEW f PROVE G(f) = H(f)
  BY <1>1, <1>2
<1>4. ASSUME NEW n \in D PROVE Below(C, {}, n) = {n} \cup UNION {b[c] : c \in Range(C[n])}
  <2>1. Below(C, {}, n) = {n} \cup UNION {Below(C, {}, c) : c \in Range(C[n])}
    BY <1>2, BelowIs
  <2>2. \A c \in Range(C[n]) : c \in D
    <3>1. C[n] \in Seq(D)
      BY <1>2
    <3>2. QED
      BY ONLY <3>1 DEF Range
  <2>3. \A c \in Range(C[n]) : b[c] = Below(C, {}, c)
    BY <2>2
  <2>4. {Below(C, {}, c) : c \in Range(C[n])} = {b[c] : c \in Range(C[n])}
    BY ONLY <2>3
  <2>5. QED
    BY ONLY <2>1, <2>4
<1>5. b = H(b)
  <2>1. b = [n \in D |-> Below(C, {}, n)]
    OBVIOUS
  <2> HIDE DEF b
  <2>2. QED
    BY ONLY <1>4, <2>1, Zenon
<1>6. \E f : f = G(f)
  <2>1. \E f : f = H(f)
    BY <1>5
  <2> HIDE DEF G, H
  <2>2. QED
    BY <1>3, <2>1
<1>7. PICK f : f = (CHOOSE g : g = G(g))
  OBVIOUS
<1>8. f = H(f)
  <2>1. f = G(f)
    <3> HIDE DEF G
    <3>1. QED
      BY ONLY <1>6, <1>7, Zenon
  <2> HIDE DEF G, H
  <2>2. QED
    BY <1>3, <2>1
<1>9. Reach(h, r) = f[r]
  BY ONLY <1>7 DEF Reach
<1>10. \A n \in D : f[n] = {n} \cup UNION {f[c] : c \in Range(C[n])}
  <2> DEFINE h0 == H(f)
  <2>1. \A n \in D : h0[n] = {n} \cup UNION {f[c] : c \in Range(C[n])}
    OBVIOUS
  <2>2. f = h0
    BY <1>8
  <2> HIDE DEF h0
  <2>3. QED
    BY ONLY <2>1, <2>2, Zenon
<1>11. rk \in [D -> Nat] /\ \A n \in D : \A c \in Range(C[n]) : c \in D /\ rk[c] < rk[n]
  <2>1. rk \in [D -> Nat] /\ \A p, i : Edge(C, p, i) => rk[C[p][i]] < rk[p]
    BY <1>1, <1>2 DEF Ranked
  <2>2. ASSUME NEW n \in D, NEW c \in Range(C[n]) PROVE c \in D /\ rk[c] < rk[n]
    <3>1. C[n] \in Seq(D)
      BY <1>2
    <3>2. PICK i \in DOMAIN C[n] : c = C[n][i]
      BY DEF Range
    <3>3. Edge(C, n, i)
      BY <1>2 DEF Edge
    <3>4. rk[c] < rk[n]
      BY <2>1, <3>2, <3>3
    <3>5. c \in D
      BY ONLY <3>1, <3>2
    <3>6. QED
      BY <3>4, <3>5
  <2>3. QED
    BY ONLY <2>1, <2>2
<1>12. ASSUME NEW n \in D, f[n] # Below(C, {}, n) PROVE FALSE
  <2> DEFINE B == {m \in Nat : \E o \in D : rk[o] = m /\ f[o] # Below(C, {}, o)}
  <2>1. rk[n] \in B
    BY <1>11, <1>12
  <2>2. PICK m \in B : \A k \in B : m <= k
    <3>1. B \in SUBSET Nat
      OBVIOUS
    <3> HIDE DEF B
    <3>2. QED
      BY <2>1, <3>1, LeastNumber
  <2>3. PICK o \in D : rk[o] = m /\ f[o] # Below(C, {}, o)
    BY <2>2
  <2>4. ASSUME NEW c \in Range(C[o]) PROVE f[c] = Below(C, {}, c)
    <3>1. c \in D /\ rk[c] < rk[o] /\ rk[c] \in Nat /\ rk[o] \in Nat
      BY <1>11
    <3>2. rk[c] \notin B
      BY <2>2, <2>3, <3>1
    <3>3. QED
      BY <3>1, <3>2
  <2>5. Below(C, {}, o) = {o} \cup UNION {Below(C, {}, c) : c \in Range(C[o])}
    BY <1>2, BelowIs
  <2>6. {Below(C, {}, c) : c \in Range(C[o])} = {f[c] : c \in Range(C[o])}
    BY ONLY <2>4
  <2>7. f[o] = {o} \cup UNION {f[c] : c \in Range(C[o])}
    BY <1>10
  <2>8. QED
    BY ONLY <2>3, <2>5, <2>6, <2>7
<1>13. QED
  BY <1>1, <1>9, <1>12

-----------------------------------------------------------------------------
(***************************************************************************)
(* The initial tree.                                                       *)
(***************************************************************************)
Planted(h, r, rk) ==
  /\ Built(h) /\ None \in DOMAIN h /\ h[None].chs = <<>> /\ \A n \in DOMAIN h : n[1] = 0
  /\ Ranked(Kids(h), rk)
  /\ \A p, i : Edge(Kids(h), p, i) => Kids(h)[p][i] # None /\ Kids(h)[p][i] # r
  /\ \A p, i, q, j : Edge(Kids(h), p, i) /\ Edge(Kids(h), q, j) /\ Kids(h)[p][i] = Kids(h)[q][j] => p = q /\ i = j
  /\ r \in DOMAIN h /\ r # None

LEMMA PlantedGood ==
  ASSUME NEW h, NEW r, NEW rk, Planted(h, r, rk), NEW np
  PROVE  Good(h, <<>>, r, np)
<1>1. /\ Built(h) /\ None \in DOMAIN h /\ h[None].chs = <<>> /\ \A n \in DOMAIN h : n[1] = 0
      /\ Ranked(Kids(h), rk)
      /\ \A p, i : Edge(Kids(h), p, i) => Kids(h)[p][i] # None /\ Kids(h)[p][i] # r
      /\ \A p, i, q, j : Edge(Kids(h), p, i) /\ Edge(Kids(h), q, j) /\ Kids(h)[p][i] = Kids(h)[q][j] => p = q /\ i = j
      /\ r \in DOMAIN h /\ r # None
  BY DEF Planted
<1>2. PICK cx : cx = <<>> /\ DOMAIN cx = {} /\ IsSeq(cx)
  <2>1. <<>> \in Seq({}) /\ DOMAIN <<>> = {}
    OBVIOUS
  <2>2. QED
    BY <2>1 DEF IsSeq
<1>3. PICK C : C = Kids(h)
  OBVIOUS
<1>4. DOMAIN C = DOMAIN h /\ \A n \in DOMAIN h : C[n] = h[n].chs /\ C[n] \in Seq(DOMAIN C)
  BY <1>1, <1>3 DEF Kids, Built
<1>5. Open(h, cx) = {}
  BY ONLY <1>2 DEF Open
<1>6. \A x \in Nat : Retired(cx)[x] = {} /\ Copied(cx)[x] = {}
  BY ONLY <1>2 DEF Retired, Copied
<1>7. Nodes(C, {})
  <2>1. ASSUME NEW p, NEW i, Edge(C, p, i) PROVE C[p][i][1] <= p[1] /\ C[p][i] # None
    <3>1. C[p] \in Seq(DOMAIN C) /\ i \in DOMAIN C[p] /\ p \in DOMAIN h
      BY <1>4, <2>1 DEF Edge
    <3>2. C[p][i] \in DOMAIN h
      BY ONLY <1>4, <3>1
    <3>3. C[p][i][1] = 0 /\ p[1] = 0
      BY ONLY <1>1, <3>1, <3>2
    <3>4. C[p][i] # None
      BY ONLY <1>1, <1>3, <2>1
    <3>5. QED
      BY ONLY <3>3, <3>4
  <2>2. \A p \in DOMAIN C : C[p] \in Seq(DOMAIN C) /\ p[1] \in Nat
    BY ONLY <1>1, <1>4
  <2>3. None \in DOMAIN C /\ C[None] = <<>>
    BY ONLY <1>1, <1>4
  <2>4. QED
    BY ONLY <2>1, <2>2, <2>3 DEF Nodes
<1>8. Forest(C, Retired(cx), Copied(cx), {})
  <2>1. Retirements(C, Retired(cx), Copied(cx), {})
    BY ONLY <1>6 DEF Retirements
  <2>2. GoneAbove(C, Retired(cx), Copied(cx))
    BY ONLY <1>6 DEF GoneAbove
  <2>3. OneParent(C, Copied(cx))
    BY ONLY <1>1, <1>3 DEF OneParent
  <2>4. QED
    BY ONLY <1>7, <2>1, <2>2, <2>3 DEF Forest
<1>9. Rooted(h, cx, r)
  <2>1. Top(C, Retired(cx), {}, r, 0)
    BY ONLY <1>1, <1>3, <1>4, <1>6 DEF Top
  <2>2. RootOf(cx, r, 0) = r
    BY ONLY DEF RootOf
  <2>3. QED
    BY ONLY <1>2, <1>3, <1>5, <2>1, <2>2 DEF Rooted
<1>10. Labels(h, cx, r, np)
  <2>1. PICK mk : mk = [n \in DOMAIN C |-> 0]
    OBVIOUS
  <2>2. mk \in [DOMAIN C -> Nat] /\ mk[None] = 0 /\ mk[r] = 0
    BY ONLY <1>1, <1>4, <2>1
  <2>3. ASSUME NEW p, NEW i, Edge(C, p, i) PROVE mk[C[p][i]] <= mk[p] + 1
    <3>1. C[p] \in Seq(DOMAIN C) /\ i \in DOMAIN C[p] /\ p \in DOMAIN C
      BY <1>4, <2>3 DEF Edge
    <3>2. C[p][i] \in DOMAIN C
      BY ONLY <3>1
    <3>3. mk[C[p][i]] = 0 /\ mk[p] = 0
      BY ONLY <2>1, <3>1, <3>2
    <3>4. QED
      BY ONLY <3>3
  <2>4. Marked(C, mk)
    BY ONLY <2>2, <2>3 DEF Marked
  <2>5. QED
    BY ONLY <1>1, <1>2, <1>3, <2>2, <2>4 DEF Labels
<1>11. Shapes(h, cx) /\ Settled(h, cx) /\ Owned(h, cx) /\ Unready(h, cx)
  BY ONLY <1>1, <1>2, <1>5 DEF Shapes, Settled, Owned, Unready
<1>12. QED
  BY ONLY <1>1, <1>2, <1>3, <1>5, <1>8, <1>9, <1>10, <1>11 DEF Good

-----------------------------------------------------------------------------
\* The sizes of the levels.
SizesOf(n, m, f) == f = [level \in 0 .. m |-> IF level = 0 THEN n ELSE Groups(f[level - 1])]

LEMMA SizesExist ==
  ASSUME NEW n, NEW m \in Nat
  PROVE  \E f : SizesOf(n, m, f)
<1> DEFINE B == {k \in Nat : ~ \E f : SizesOf(n, k, f)}
<1>1. SUFFICES ASSUME ~ \E f : SizesOf(n, m, f) PROVE FALSE
  OBVIOUS
<1>2. PICK k \in B : \A j \in B : k <= j
  <2>1. B \in SUBSET Nat /\ m \in B
    BY <1>1
  <2> HIDE DEF B
  <2>2. QED
    BY <2>1, LeastNumber
<1>3. k \in Nat /\ ~ \E f : SizesOf(n, k, f)
  OBVIOUS
<1>4. CASE k = 0
  <2>1. PICK f : f = [level \in 0 .. 0 |-> n]
    OBVIOUS
  <2>2. f = [level \in 0 .. 0 |-> IF level = 0 THEN n ELSE Groups(f[level - 1])]
    BY ONLY <2>1
  <2>3. SizesOf(n, 0, f)
    BY ONLY <2>2 DEF SizesOf
  <2>4. QED
    BY <1>3, <1>4, <2>3
<1>5. CASE k # 0
  <2>1. k - 1 \in Nat /\ k - 1 \notin B
    BY <1>2, <1>3, <1>5
  <2>2. PICK f : SizesOf(n, k - 1, f)
    BY <2>1
  <2>3. PICK g : g = [level \in 0 .. k |-> IF level = k THEN Groups(f[k - 1]) ELSE f[level]]
    OBVIOUS
  <2>4. f = [level \in 0 .. k - 1 |-> IF level = 0 THEN n ELSE Groups(f[level - 1])]
    BY ONLY <2>2 DEF SizesOf
  <2>5. ASSUME NEW level \in 0 .. k
        PROVE  (IF level = k THEN Groups(f[k - 1]) ELSE f[level]) = (IF level = 0 THEN n ELSE Groups(g[level - 1]))
    <3>1. CASE level = k
      <4>1. g[k - 1] = f[k - 1] /\ level # 0
        BY ONLY <1>3, <1>5, <2>3, <3>1
      <4>2. QED
        BY ONLY <3>1, <4>1
    <3>2. CASE level = 0
      BY ONLY <1>3, <1>5, <2>4, <3>2
    <3>3. CASE level # k /\ level # 0
      <4>1. level - 1 \in 0 .. k /\ level - 1 # k /\ level \in 0 .. k - 1
        BY ONLY <1>3, <3>3
      <4>2. g[level - 1] = f[level - 1] /\ f[level] = Groups(f[level - 1])
        BY ONLY <2>3, <2>4, <3>3, <4>1
      <4>3. QED
        BY ONLY <3>3, <4>2
    <3>4. QED
      BY ONLY <3>1, <3>2, <3>3
  <2>6. g = [level \in 0 .. k |-> IF level = 0 THEN n ELSE Groups(g[level - 1])]
    BY ONLY <2>3, <2>5, Zenon
  <2>7. SizesOf(n, k, g)
    BY ONLY <2>6 DEF SizesOf
  <2>8. QED
    BY <1>3, <2>7
<1>6. QED
  BY <1>4, <1>5

LEMMA GroupsIs ==
  ASSUME NEW n \in Nat
  PROVE  Groups(n) \in Nat \ {0} /\ (n < 2 * Half => Groups(n) = 1) /\ (n >= 2 * Half => Groups(n) < n)
<1>1. Half \in Nat /\ Half >= 2
  BY NodeAssumption
<1>2. CASE n < 2 * Half
  BY <1>1, <1>2 DEF Groups
<1>3. CASE n >= 2 * Half
  <2>1. Groups(n) \in Nat \ {0, 1} /\ Groups(n) = n \div Half
    BY <1>1, <1>3, BuildSizes DEF Groups
  <2>2. PICK q \in Nat, r \in 0 .. Half - 1 : q = n \div Half /\ n = (Half * q) + r
    <3>1. (n \div Half) \in Nat /\ (n % Half) \in 0 .. Half - 1 /\ n = (Half * (n \div Half)) + (n % Half)
      BY <1>1, <2>1
    <3>2. QED
      BY <3>1
  <2>3. Half * q >= 2 * q
    BY ONLY <1>1, <2>2
  <2>4. q < n
    BY ONLY <1>1, <1>3, <2>2, <2>3
  <2>5. QED
    BY <1>1, <1>3, <2>1, <2>2, <2>4
<1>4. QED
  BY <1>1, <1>2, <1>3

\* Where the nodes of a level over n items begin.
Cuts(n, m, s) ==
  /\ m \in Nat \ {0} /\ s \in [0 .. m -> Int] /\ s[0] = 0 /\ s[m] = n
  /\ \A i \in 0 .. m - 1 : s[i] <= s[i + 1] /\ (n > 0 => s[i] < s[i + 1])
  /\ \A i, j \in 0 .. m : i <= j => s[i] <= s[j]

LEMMA Rising ==
  ASSUME NEW m \in Nat, NEW s \in [0 .. m -> Int], \A i \in 0 .. m - 1 : s[i] <= s[i + 1],
         NEW i \in 0 .. m, NEW j \in 0 .. m, i <= j
  PROVE  s[i] <= s[j]
<1> DEFINE B == {k \in Nat : k \in 0 .. m /\ i <= k /\ ~ s[i] <= s[k]}
<1>1. SUFFICES ASSUME ~ s[i] <= s[j] PROVE FALSE
  OBVIOUS
<1>2. PICK k \in B : \A l \in B : k <= l
  <2>1. B \in SUBSET Nat /\ j \in B
    BY <1>1
  <2> HIDE DEF B
  <2>2. QED
    BY <2>1, LeastNumber
<1>3. k # i
  BY <1>2
<1>4. k - 1 \in 0 .. m - 1 /\ i <= k - 1 /\ k - 1 \in Nat /\ k - 1 \notin B
  BY <1>2, <1>3
<1>5. s[i] <= s[k - 1]
  BY <1>4
<1>6. s[k - 1] <= s[(k - 1) + 1]
  BY <1>4
<1>7. s[k - 1] \in Int /\ s[k] \in Int /\ s[i] \in Int /\ (k - 1) + 1 = k
  BY <1>4
<1>8. QED
  BY <1>2, <1>5, <1>6, <1>7

LEMMA CutsAre ==
  ASSUME NEW n \in Nat
  PROVE  Cuts(n, Groups(n), [i \in 0 .. Groups(n) |-> GroupStart(n, i)])
<1>1. PICK m, s : m = Groups(n) /\ s = [i \in 0 .. m |-> GroupStart(n, i)]
  OBVIOUS
<1>2. m \in Nat \ {0} /\ Half \in Nat /\ Half >= 2
  BY <1>1, GroupsIs, NodeAssumption
<1>3. \A i \in 0 .. m : GroupStart(n, i) \in Int
  <2>1. ASSUME NEW i \in 0 .. m PROVE GroupStart(n, i) \in Int
    <3>1. (n % Half) \in Int /\ i \in Int /\ i * Half \in Int
      BY <1>2
    <3>2. (i * (n % Half)) \in Int
      BY <3>1
    <3>3. ((i * (n % Half)) \div m) \in Int
      BY <1>2, <3>2
    <3>4. QED
      BY <1>1, <3>1, <3>3 DEF GroupStart
  <2>2. QED
    BY <2>1
<1>4. s \in [0 .. m -> Int]
  BY <1>1, <1>3
<1>5. s[0] = 0 /\ s[m] = n /\ \A i \in 0 .. m - 1 : s[i] <= s[i + 1] /\ (n > 0 => s[i] < s[i + 1])
  <2>1. CASE n >= 2 * Half
    <3>1. \A i \in 0 .. m - 1 : s[i + 1] = GroupStart(n, i + 1) /\ s[i] = GroupStart(n, i)
      BY <1>1, <1>2
    <3>2. /\ GroupStart(n, 0) = 0 /\ GroupStart(n, m) = n
          /\ \A i \in 0 .. m - 1 : GroupStart(n, i + 1) - GroupStart(n, i) \in Half .. MaxKeys
      BY <1>1, <2>1, BuildSizes
    <3>3. \A i \in 0 .. m - 1 : s[i] \in Int /\ s[i + 1] \in Int
      BY <1>2, <1>4
    <3>4. \A i \in 0 .. m - 1 : s[i + 1] - s[i] >= Half
      BY <3>1, <3>2 DEF MaxKeys
    <3>5. s[0] = GroupStart(n, 0) /\ s[m] = GroupStart(n, m)
      BY <1>1, <1>2
    <3>6. QED
      BY <1>2, <3>2, <3>3, <3>4, <3>5
  <2>2. CASE n < 2 * Half
    <3>1. m = 1
      BY <1>1, <2>2, GroupsIs
    <3>2. s[1] = n
      BY <1>1, <3>1 DEF GroupStart
    <3>3. s[0] = 0
      <4>1. GroupStart(n, 0) = (0 * Half) + ((0 * (n % Half)) \div 1)
        BY <1>1, <3>1 DEF GroupStart
      <4>2. (n % Half) \in Int
        BY <1>2
      <4>3. 0 * (n % Half) = 0 /\ 0 * Half = 0
        BY <1>2, <4>2
      <4>4. 0 \div 1 = 0
        OBVIOUS
      <4>5. QED
        BY <1>1, <1>2, <4>1, <4>3, <4>4
    <3>4. QED
      BY <3>1, <3>2, <3>3
  <2>3. QED
    BY <1>2, <2>1, <2>2
<1>6. \A i, j \in 0 .. m : i <= j => s[i] <= s[j]
  BY <1>2, <1>4, <1>5, Rising
<1>7. Cuts(n, m, s)
  BY ONLY <1>2, <1>4, <1>5, <1>6 DEF Cuts
<1>8. QED
  BY <1>1, <1>7

-----------------------------------------------------------------------------
\* Levels have nodes, fewer than the level below or one.
Levels(n, f) ==
  /\ f[0] = n
  /\ \A l \in 1 .. n + 1 : f[l] = Groups(f[l - 1]) /\ f[l] \in Nat /\ f[l] >= 1 /\ (f[l] = 1 \/ f[l] + l <= n)

LEMMA LevelsAre ==
  ASSUME NEW n \in Nat, NEW f, SizesOf(n, n + 1, f)
  PROVE  Levels(n, f)
<1>1. f = [level \in 0 .. n + 1 |-> IF level = 0 THEN n ELSE Groups(f[level - 1])]
  BY DEF SizesOf
<1>2. f[0] = n /\ \A l \in 1 .. n + 1 : f[l] = Groups(f[l - 1])
  BY ONLY <1>1, n \in Nat
<1> DEFINE P(l) == f[l] \in Nat /\ f[l] >= 1 /\ (f[l] = 1 \/ f[l] + l <= n)
           B == {l \in Nat : l \in 1 .. n + 1 /\ ~ P(l)}
<1>3. SUFFICES ASSUME B # {} PROVE FALSE
  <2>1. B = {} => \A l \in 1 .. n + 1 : P(l)
    OBVIOUS
  <2>2. QED
    BY <1>2, <2>1 DEF Levels
<1>4. PICK l \in B : \A k \in B : l <= k
  <2>1. B \in SUBSET Nat
    OBVIOUS
  <2> HIDE DEF B
  <2>2. QED
    BY <1>3, <2>1, LeastNumber
<1>5. l \in 1 .. n + 1 /\ ~ P(l)
  OBVIOUS
<1>6. f[l] = Groups(f[l - 1])
  BY <1>2, <1>5
<1>7. CASE l = 1
  <2>1. f[1] = Groups(n)
    BY <1>2, <1>6, <1>7
  <2>2. QED
    BY <1>5, <1>7, <2>1, GroupsIs, NodeAssumption
<1>8. CASE l # 1
  <2>1. l - 1 \in 1 .. n + 1 /\ l - 1 \notin B /\ l - 1 \in Nat
    BY <1>4, <1>5, <1>8
  <2>2. P(l - 1)
    BY <2>1
  <2>3. PICK m \in Nat : m = f[l - 1]
    BY <2>2
  <2>4. m >= 1 /\ (m = 1 \/ m + (l - 1) <= n)
    BY <2>2, <2>3
  <2>5. Groups(m) \in Nat \ {0} /\ (m < 2 * Half => Groups(m) = 1) /\ (m >= 2 * Half => Groups(m) < m)
    BY GroupsIs
  <2>6. f[l] = Groups(m)
    BY <1>6, <2>3
  <2>7. Half \in Nat /\ Half >= 2
    BY NodeAssumption
  <2>8. PICK g \in Nat \ {0} : g = Groups(m)
    BY <2>5
  <2>9. g = 1 \/ g < m
    BY <2>5, <2>7, <2>8
  <2>10. g = 1 \/ g + l <= n
    <3>1. m = 1 => g = 1
      BY <2>5, <2>7, <2>8
    <3>2. l \in Nat
      BY <1>5
    <3>3. QED
      BY ONLY <2>4, <2>8, <2>9, <3>1, <3>2, m \in Nat, n \in Nat, g \in Nat \ {0}
  <2>11. QED
    BY <1>5, <2>6, <2>8, <2>10
<1>9. QED
  BY <1>7, <1>8

\* The level of the root.
IsTop(n, f, top) == top \in 1 .. n + 1 /\ f[top] = 1 /\ \A l \in 1 .. top - 1 : f[l] > 1

LEMMA TopExists ==
  ASSUME NEW n \in Nat, NEW f, Levels(n, f)
  PROVE  \E top : IsTop(n, f, top)
<1>1. \A l \in 1 .. n + 1 : f[l] \in Nat /\ f[l] >= 1 /\ (f[l] = 1 \/ f[l] + l <= n)
  BY DEF Levels
<1> DEFINE B == {l \in Nat : l \in 1 .. n + 1 /\ f[l] = 1}
<1>2. n + 1 \in B
  <2>1. n + 1 \in 1 .. n + 1
    OBVIOUS
  <2>2. PICK g \in Nat : g = f[n + 1]
    BY <1>1, <2>1
  <2>3. g >= 1 /\ (g = 1 \/ g + (n + 1) <= n)
    BY <1>1, <2>1, <2>2
  <2>4. g = 1
    BY <2>3
  <2>5. n + 1 \in Nat
    OBVIOUS
  <2>6. QED
    BY ONLY <2>1, <2>2, <2>4, <2>5
<1>3. PICK l \in B : \A k \in B : l <= k
  <2>1. B \in SUBSET Nat
    OBVIOUS
  <2> HIDE DEF B
  <2>2. QED
    BY <1>2, <2>1, LeastNumber
<1>4. \A k \in 1 .. l - 1 : f[k] > 1
  <2>1. ASSUME NEW k \in 1 .. l - 1 PROVE f[k] > 1
    <3>1. k \in 1 .. n + 1 /\ k \in Nat /\ k \notin B
      BY <1>3
    <3>2. f[k] \in Nat /\ f[k] >= 1 /\ f[k] # 1
      BY <1>1, <3>1
    <3>3. QED
      BY <3>2
  <2>2. QED
    BY <2>1
<1>5. QED
  BY <1>3, <1>4 DEF IsTop

Ids(f, top) == UNION {{<<0, l, i>> : i \in 0 .. f[l] - 1} : l \in 1 .. top}

\* The node at place i of level l.
PlantAt(keys, f, low, l, i) ==
  LET from == GroupStart(f[l - 1], i)
      next == GroupStart(f[l - 1], i + 1)
  IN  IF l = 1 THEN Leaf(0, SubSeq(keys, from + 1, next), [j \in 1 .. next - from |-> 0])
      ELSE Internal(0, [j \in 1 .. next - from - 1 |-> low[l - 1, from + j]],
                       [j \in 1 .. next - from |-> <<0, l - 1, from + j - 1>>])

Plant(keys, f, low, top, h) ==
  h = [n \in {None} \cup Ids(f, top) |-> IF n = None THEN Leaf(0, <<>>, <<>>) ELSE PlantAt(keys, f, low, n[2], n[3])]

BuiltAs(keys, f, low, top, b) ==
  SizesOf(Len(keys), Len(keys) + 1, f) /\ IsTop(Len(keys), f, top) /\ b.root = <<0, top, 0>> /\ Plant(keys, f, low, top, b.heap)

LEMMA BuildIs ==
  ASSUME NEW keys, Len(keys) \in Nat
  PROVE  \E f, low, top : BuiltAs(keys, f, low, top, Build(keys))
<1> DEFINE
      last == Len(keys) + 1
      size[level \in 0 .. last] == IF level = 0 THEN Len(keys) ELSE Groups(size[level - 1])
      low[level \in 0 .. last, i \in 0 .. last] ==
        IF level = 0 THEN keys[i + 1] ELSE low[level - 1, GroupStart(size[level - 1], i)]
      top == CHOOSE level \in 1 .. last : size[level] = 1 /\ \A l \in 1 .. level - 1 : size[l] > 1
      Id(level, i) == <<0, level, i>>
      Node(level, i) ==
        LET from == GroupStart(size[level - 1], i)
            next == GroupStart(size[level - 1], i + 1)
        IN  IF level = 1 THEN Leaf(0, SubSeq(keys, from + 1, next), [j \in 1 .. next - from |-> 0])
            ELSE Internal(0, [j \in 1 .. next - from - 1 |-> low[level - 1, from + j]],
                             [j \in 1 .. next - from |-> Id(level - 1, from + j - 1)])
      hp == [n \in {None} \cup UNION {{Id(l, i) : i \in 0 .. size[l] - 1} : l \in 1 .. top} |->
                   IF n = None THEN Leaf(0, <<>>, <<>>) ELSE Node(n[2], n[3])]
<1>1. Build(keys) = [root |-> Id(top, 0), keys |-> Range(keys), heap |-> hp]
  BY DEF Build
<1>2. SizesOf(Len(keys), Len(keys) + 1, size)
  <2>1. \E f : SizesOf(Len(keys), last, f)
    BY SizesExist
  <2>2. \E f : f = [level \in 0 .. last |-> IF level = 0 THEN Len(keys) ELSE Groups(f[level - 1])]
    BY ONLY <2>1 DEF SizesOf
  <2>3. size = [level \in 0 .. last |-> IF level = 0 THEN Len(keys) ELSE Groups(size[level - 1])]
    BY ONLY <2>2, Zenon
  <2> HIDE DEF size
  <2>4. QED
    BY ONLY <2>3 DEF SizesOf
<1>3. hp = [n \in {None} \cup UNION {{<<0, l, i>> : i \in 0 .. size[l] - 1} : l \in 1 .. top} |->
                   IF n = None THEN Leaf(0, <<>>, <<>>) ELSE Node(n[2], n[3])]
  OBVIOUS
<1> HIDE DEF size, low
<1>4. IsTop(Len(keys), size, top)
  <2>1. \E l : IsTop(Len(keys), size, l)
    BY <1>2, LevelsAre, TopExists
  <2>2. \E l \in 1 .. last : size[l] = 1 /\ \A k \in 1 .. l - 1 : size[k] > 1
    BY ONLY <2>1 DEF IsTop
  <2>3. top \in 1 .. last /\ size[top] = 1 /\ \A k \in 1 .. top - 1 : size[k] > 1
    BY ONLY <2>2, Zenon
  <2> HIDE DEF top
  <2>4. QED
    BY ONLY <2>3 DEF IsTop
<1>5. Plant(keys, size, low, top, hp)
  <2> HIDE DEF top
  <2>1. QED
    BY ONLY <1>3, Zenon DEF Plant, Ids, PlantAt
<1> HIDE DEF top, hp
<1>6. Build(keys).root = <<0, top, 0>> /\ Build(keys).heap = hp
  BY <1>1
<1>7. BuiltAs(keys, size, low, top, Build(keys))
  BY ONLY <1>2, <1>4, <1>5, <1>6 DEF BuiltAs
<1>8. QED
  BY ONLY <1>7

\* Node n of level l has w children from place a on.
Spans(f, l, i, n, a, w) ==
  /\ IsNode(n) /\ n.ver = 0
  /\ l = 1 => n.chs = <<>>
  /\ l # 1 => /\ n.chs = [j \in 1 .. w |-> <<0, l - 1, a + j - 1>>] /\ a \in Nat /\ w \in Nat
              /\ a + w <= f[l - 1]
              /\ a = GroupStart(f[l - 1], i) /\ a + w = GroupStart(f[l - 1], i + 1)

LEMMA SpansAre ==
  ASSUME NEW N \in Nat, NEW f, Levels(N, f), NEW top, IsTop(N, f, top), NEW keys, NEW low,
         NEW l \in 1 .. top, NEW i \in 0 .. f[l] - 1
  PROVE  \E a, w : Spans(f, l, i, PlantAt(keys, f, low, l, i), a, w)
<1>1. PICK n : n = PlantAt(keys, f, low, l, i)
  OBVIOUS
<1>2. CASE l = 1
  <2>1. \E k, v : n = Leaf(0, k, v)
    BY <1>1, <1>2 DEF PlantAt
  <2>2. IsNode(n) /\ n.ver = 0 /\ n.chs = <<>>
    BY ONLY <2>1, LeafIs
  <2>3. Spans(f, l, i, n, 0, 0)
    BY ONLY <1>2, <2>2 DEF Spans
  <2>4. QED
    BY <1>1, <2>3
<1>3. CASE l # 1
  <2>1. l \in 1 .. N + 1 /\ l - 1 \in 1 .. N + 1 /\ l - 1 \in 1 .. top - 1
    BY <1>3 DEF IsTop
  <2>2. PICK M \in Nat : M = f[l - 1] /\ M > 1
    BY <2>1 DEF IsTop, Levels
  <2>3. f[l] = Groups(M) /\ Groups(M) \in Nat
    BY <2>1, <2>2, GroupsIs DEF Levels
  <2>4. PICK m, s : m = Groups(M) /\ s = [k \in 0 .. Groups(M) |-> GroupStart(M, k)]
    OBVIOUS
  <2>5. Cuts(M, m, s)
    BY ONLY <2>4, CutsAre, M \in Nat
  <2>6. m \in Nat /\ i \in 0 .. m - 1
    BY <2>3, <2>4
  <2>7. /\ s[i] \in Int /\ s[i + 1] \in Int /\ s[i] < s[i + 1] /\ s[0] <= s[i] /\ s[i + 1] <= s[m]
        /\ s[0] = 0 /\ s[m] = M
    <3>1. i \in 0 .. m /\ i + 1 \in 0 .. m /\ 0 \in 0 .. m /\ m \in 0 .. m /\ 0 <= i /\ i + 1 <= m
      BY ONLY <2>6
    <3>2. s \in [0 .. m -> Int]
      BY ONLY <2>5 DEF Cuts
    <3>3. s[i] < s[i + 1] /\ s[0] = 0 /\ s[m] = M
      BY ONLY <2>2, <2>5, <2>6 DEF Cuts
    <3>4. s[0] <= s[i] /\ s[i + 1] <= s[m]
      BY ONLY <2>5, <3>1 DEF Cuts
    <3>5. QED
      BY ONLY <3>1, <3>2, <3>3, <3>4
  <2>8. s[i] = GroupStart(M, i) /\ s[i + 1] = GroupStart(M, i + 1)
    BY ONLY <2>4, <2>6
  <2>9. PICK a \in Nat, w \in Nat \ {0} : a = s[i] /\ w = s[i + 1] - s[i] /\ a + w = s[i + 1]
    <3>1. PICK x \in Int, y \in Int : x = s[i] /\ y = s[i + 1]
      BY <2>7
    <3>2. x \in Nat /\ y - x \in Nat \ {0} /\ x + (y - x) = y
      BY <2>7, <3>1
    <3>3. QED
      BY <3>1, <3>2
  <2>10. a + w <= M
    BY <2>7, <2>9
  <2> DEFINE ks == [j \in 1 .. w - 1 |-> low[l - 1, a + j]]
             cs == [j \in 1 .. w |-> <<0, l - 1, a + j - 1>>]
  <2>11. n = Internal(0, ks, cs)
    <3>1. GroupStart(f[l - 1], i + 1) - GroupStart(f[l - 1], i) = w /\ GroupStart(f[l - 1], i) = a
      BY <2>2, <2>8, <2>9
    <3>2. n = LET from == GroupStart(f[l - 1], i)
                  next == GroupStart(f[l - 1], i + 1)
              IN  Internal(0, [j \in 1 .. next - from - 1 |-> low[l - 1, from + j]],
                       [j \in 1 .. next - from |-> <<0, l - 1, from + j - 1>>])
      BY <1>1, <1>3 DEF PlantAt
    <3>3. QED
      BY ONLY <3>1, <3>2
  <2>12. ks = [j \in 1 .. w - 1 |-> ks[j]] /\ cs = [j \in 1 .. w |-> cs[j]]
    OBVIOUS
  <2>13. cs = [j \in 1 .. w |-> <<0, l - 1, a + j - 1>>]
    OBVIOUS
  <2> HIDE DEF ks, cs
  <2>14. IsSeq(ks) /\ Len(ks) = w - 1 /\ IsSeq(cs) /\ Len(cs) = w
    BY <2>9, <2>12, SequenceIs
  <2>15. IsNode(n) /\ n.ver = 0 /\ n.chs = cs
    BY <2>9, <2>11, <2>14, InternalIs
  <2>16. Spans(f, l, i, n, a, w)
    BY <1>3, <2>2, <2>8, <2>9, <2>10, <2>13, <2>15 DEF Spans
  <2>17. QED
    BY <1>1, <2>16
<1>4. QED
  BY <1>2, <1>3

Grows(N, f, top, h) ==
  /\ N \in Nat /\ Levels(N, f) /\ IsTop(N, f, top) /\ DOMAIN h = {None} \cup Ids(f, top)
  /\ IsNode(h[None]) /\ h[None].chs = <<>> /\ h[None].ver = 0
  /\ \A l \in 1 .. top : \A i \in 0 .. f[l] - 1 : \E a, w : Spans(f, l, i, h[<<0, l, i>>], a, w)

LEMMA PlantGrows ==
  ASSUME NEW keys, NEW f, NEW low, NEW top, NEW b, BuiltAs(keys, f, low, top, b), Len(keys) \in Nat
  PROVE  Grows(Len(keys), f, top, b.heap)
<1>1. PICK h : h = b.heap
  OBVIOUS
<1>2. Levels(Len(keys), f) /\ IsTop(Len(keys), f, top)
  BY LevelsAre DEF BuiltAs
<1>3. Plant(keys, f, low, top, h)
  BY <1>1 DEF BuiltAs
<1>4. /\ DOMAIN h = {None} \cup Ids(f, top) /\ h[None] = Leaf(0, <<>>, <<>>)
      /\ \A n \in Ids(f, top) : n # None => h[n] = PlantAt(keys, f, low, n[2], n[3])
  BY ONLY <1>3 DEF Plant
<1>5. IsNode(h[None]) /\ h[None].chs = <<>> /\ h[None].ver = 0
  BY <1>4, LeafIs
<1>6. ASSUME NEW l \in 1 .. top, NEW i \in 0 .. f[l] - 1
      PROVE  \E a, w : Spans(f, l, i, h[<<0, l, i>>], a, w)
  <2>1. <<0, l, i>> \in Ids(f, top)
    BY DEF Ids
  <2>2. <<0, l, i>>[2] = l /\ <<0, l, i>>[3] = i /\ None[2] = 0 /\ l # 0
    BY DEF None
  <2>3. h[<<0, l, i>>] = PlantAt(keys, f, low, l, i)
    BY <1>4, <2>1, <2>2
  <2>4. QED
    BY <1>2, <2>3, SpansAre
<1>7. Grows(Len(keys), f, top, h)
  BY <1>2, <1>4, <1>5, <1>6 DEF Grows
<1>8. QED
  BY <1>1, <1>7

\* Child j of place i of level l is at place k of the level below.
Sprout(f, top, p, j, m, l, i, k) ==
  /\ l \in 2 .. top /\ i \in 0 .. f[l] - 1 /\ p = <<0, l, i>> /\ m = <<0, l - 1, k>> /\ j \in Nat \ {0}
  /\ k = GroupStart(f[l - 1], i) + j - 1 /\ k < GroupStart(f[l - 1], i + 1)
  /\ k \in 0 .. f[l - 1] - 1 /\ GroupStart(f[l - 1], i) \in Nat

LEMMA Sprouts ==
  ASSUME NEW N, NEW f, NEW top, NEW h, Grows(N, f, top, h), NEW p, NEW j, Edge(Kids(h), p, j)
  PROVE  \E l, i, k : Sprout(f, top, p, j, Kids(h)[p][j], l, i, k)
<1>1. /\ N \in Nat /\ Levels(N, f) /\ IsTop(N, f, top) /\ DOMAIN h = {None} \cup Ids(f, top)
      /\ h[None].chs = <<>>
      /\ \A l \in 1 .. top : \A i \in 0 .. f[l] - 1 : \E a, w : Spans(f, l, i, h[<<0, l, i>>], a, w)
  BY DEF Grows
<1>2. p \in DOMAIN h /\ j \in DOMAIN h[p].chs /\ Kids(h)[p][j] = h[p].chs[j]
  BY DEF Edge, Kids
<1>3. p # None
  <2>1. DOMAIN <<>> = {}
    OBVIOUS
  <2>2. QED
    BY <1>1, <1>2, <2>1
<1>4. PICK l, i : l \in 1 .. top /\ i \in 0 .. f[l] - 1 /\ p = <<0, l, i>>
  BY <1>1, <1>2, <1>3 DEF Ids
<1>5. PICK a, w : Spans(f, l, i, h[p], a, w)
  BY <1>1, <1>4
<1>6. l # 1
  <2>1. DOMAIN <<>> = {}
    OBVIOUS
  <2>2. QED
    BY <1>2, <1>5, <2>1 DEF Spans
<1>7. /\ h[p].chs = [x \in 1 .. w |-> <<0, l - 1, a + x - 1>>] /\ a \in Nat /\ w \in Nat
      /\ a + w <= f[l - 1]
      /\ a = GroupStart(f[l - 1], i) /\ a + w = GroupStart(f[l - 1], i + 1)
  BY ONLY <1>5, <1>6 DEF Spans
<1>8. j \in 1 .. w /\ h[p].chs[j] = <<0, l - 1, a + j - 1>>
  BY ONLY <1>2, <1>7
<1>9. f[l - 1] \in Nat /\ l \in 2 .. top
  <2>1. l - 1 \in 1 .. N + 1
    BY <1>1, <1>4, <1>6 DEF IsTop
  <2>2. QED
    BY <1>1, <1>4, <1>6, <2>1 DEF Levels, IsTop
<1>10. PICK k \in Nat : k = a + j - 1 /\ k < a + w
  BY ONLY <1>7, <1>8
<1>11. k \in 0 .. f[l - 1] - 1
  BY ONLY <1>7, <1>9, <1>10
<1>12. Kids(h)[p][j] = <<0, l - 1, k>>
  BY <1>2, <1>8, <1>10
<1>13. j \in Nat \ {0}
  BY <1>7, <1>8
<1>14. k = GroupStart(f[l - 1], i) + j - 1 /\ k < GroupStart(f[l - 1], i + 1) /\ GroupStart(f[l - 1], i) \in Nat
  BY ONLY <1>7, <1>10
<1>15. Sprout(f, top, p, j, Kids(h)[p][j], l, i, k)
  BY ONLY <1>4, <1>9, <1>11, <1>12, <1>13, <1>14 DEF Sprout
<1>16. QED
  BY <1>15

LEMMA SproutOnce ==
  ASSUME NEW N, NEW f, NEW top, NEW h, Grows(N, f, top, h), NEW p, NEW j, NEW q, NEW g, NEW m,
         NEW l, NEW i, NEW k, NEW y, NEW x, NEW z,
         Sprout(f, top, p, j, m, l, i, k), Sprout(f, top, q, g, m, y, x, z)
  PROVE  p = q /\ j = g
<1>1. /\ l \in 2 .. top /\ i \in 0 .. f[l] - 1 /\ p = <<0, l, i>> /\ m = <<0, l - 1, k>> /\ j \in Nat \ {0}
      /\ k = GroupStart(f[l - 1], i) + j - 1 /\ k < GroupStart(f[l - 1], i + 1)
      /\ k \in 0 .. f[l - 1] - 1 /\ GroupStart(f[l - 1], i) \in Nat
  BY DEF Sprout
<1>2. /\ y \in 2 .. top /\ x \in 0 .. f[y] - 1 /\ q = <<0, y, x>> /\ m = <<0, y - 1, z>> /\ g \in Nat \ {0}
      /\ z = GroupStart(f[y - 1], x) + g - 1 /\ z < GroupStart(f[y - 1], x + 1)
      /\ GroupStart(f[y - 1], x) \in Nat
  BY DEF Sprout
<1>3. y = l /\ z = k
  <2>1. top \in Nat
    BY DEF Grows, IsTop
  <2>2. m[2] = l - 1 /\ m[2] = y - 1 /\ m[3] = k /\ m[3] = z
    BY <1>1, <1>2
  <2>3. l \in Int /\ y \in Int
    BY <1>1, <1>2, <2>1
  <2>4. QED
    BY ONLY <2>2, <2>3
<1>4. PICK M \in Nat : M = f[l - 1] /\ f[l] = Groups(M)
  <2>1. l \in 1 .. N + 1 /\ l - 1 \in 1 .. N + 1 /\ N \in Nat /\ Levels(N, f)
    BY <1>1 DEF Grows, IsTop
  <2>2. QED
    BY <2>1 DEF Levels
<1>5. PICK r, s : r = Groups(M) /\ s = [c \in 0 .. Groups(M) |-> GroupStart(M, c)]
  OBVIOUS
<1>6. Cuts(M, r, s)
  BY ONLY <1>5, CutsAre, M \in Nat
<1>7. i \in 0 .. r - 1 /\ x \in 0 .. r - 1 /\ r \in Nat
  BY <1>1, <1>2, <1>3, <1>4, <1>5, <1>6 DEF Cuts
<1>8. /\ i \in 0 .. r /\ x \in 0 .. r /\ i + 1 \in 0 .. r /\ x + 1 \in 0 .. r
  BY ONLY <1>7
<1>9. /\ s[i] = GroupStart(M, i) /\ s[i + 1] = GroupStart(M, i + 1)
      /\ s[x] = GroupStart(M, x) /\ s[x + 1] = GroupStart(M, x + 1)
  BY ONLY <1>5, <1>8
<1>10. s \in [0 .. r -> Int] /\ (i + 1 <= x => s[i + 1] <= s[x]) /\ (x + 1 <= i => s[x + 1] <= s[i])
  BY ONLY <1>6, <1>8 DEF Cuts
<1>11. /\ k = s[i] + j - 1 /\ k < s[i + 1] /\ k = s[x] + g - 1 /\ k < s[x + 1]
  BY ONLY <1>1, <1>2, <1>3, <1>4, <1>9
<1>12. PICK a \in Int, b \in Int, c \in Int, d \in Int : a = s[i] /\ b = s[i + 1] /\ c = s[x] /\ d = s[x + 1]
  BY ONLY <1>8, <1>10
<1>13. i = x
  <2>1. k \in Int /\ j \in Nat \ {0} /\ g \in Nat \ {0}
    BY <1>1, <1>2, <1>11, <1>12
  <2>2. k < b /\ k >= c /\ k < d /\ k >= a
    BY ONLY <2>1, <1>11, <1>12
  <2>3. ~ (i + 1 <= x) /\ ~ (x + 1 <= i)
    BY ONLY <2>1, <2>2, <1>10, <1>12
  <2>4. QED
    BY ONLY <1>7, <2>3
<1>14. p = q
  BY ONLY <1>1, <1>2, <1>3, <1>13
<1>15. j = g
  BY ONLY <1>1, <1>2, <1>11, <1>12, <1>13
<1>16. QED
  BY <1>14, <1>15

LEMMA GrowsPlanted ==
  ASSUME NEW N, NEW f, NEW top, NEW h, Grows(N, f, top, h)
  PROVE  \E rk : Planted(h, <<0, top, 0>>, rk)
<1>1. /\ N \in Nat /\ Levels(N, f) /\ IsTop(N, f, top) /\ DOMAIN h = {None} \cup Ids(f, top)
      /\ IsNode(h[None]) /\ h[None].chs = <<>> /\ h[None].ver = 0
      /\ \A l \in 1 .. top : \A i \in 0 .. f[l] - 1 : \E a, w : Spans(f, l, i, h[<<0, l, i>>], a, w)
  BY DEF Grows
<1>2. top \in Nat /\ top >= 1 /\ f[top] = 1
  BY <1>1 DEF IsTop
<1>3. PICK r : r = <<0, top, 0>>
  OBVIOUS
<1>4. r \in DOMAIN h /\ r # None
  <2>1. r \in Ids(f, top)
    <3>1. top \in 1 .. top /\ 0 \in 0 .. f[top] - 1
      BY <1>2
    <3>2. QED
      BY <1>3, <3>1 DEF Ids
  <2>2. r[2] = top /\ None[2] = 0
    BY <1>3 DEF None
  <2>3. QED
    BY <1>1, <1>2, <2>1, <2>2
<1>5. \A n \in Ids(f, top) : \E l \in 1 .. top : \E i \in 0 .. f[l] - 1 : n = <<0, l, i>>
  BY DEF Ids
<1>6. \A n \in DOMAIN h : n[1] = 0 /\ n[2] \in Nat
  <2>1. ASSUME NEW n \in DOMAIN h PROVE n[1] = 0 /\ n[2] \in Nat
    <3>1. CASE n = None
      BY <3>1 DEF None
    <3>2. CASE n # None
      <4>1. PICK l, i : l \in 1 .. top /\ i \in 0 .. f[l] - 1 /\ n = <<0, l, i>>
        BY <1>1, <1>5, <3>2
      <4>2. n[1] = 0 /\ n[2] = l /\ l \in Nat
        BY <1>2, <4>1
      <4>3. QED
        BY <4>2
    <3>3. QED
      BY <3>1, <3>2
  <2>2. QED
    BY <2>1
<1>7. PICK C : C = Kids(h)
  OBVIOUS
<1>8. DOMAIN C = DOMAIN h /\ \A n \in DOMAIN h : C[n] = h[n].chs
  BY <1>7 DEF Kids
<1>9. \A p, j : Edge(C, p, j) => \E l, i, k : Sprout(f, top, p, j, C[p][j], l, i, k)
  BY <1>7, Sprouts
<1>10. ASSUME NEW p, NEW j, Edge(C, p, j)
       PROVE  C[p][j] \in DOMAIN h /\ C[p][j][2] < p[2] /\ C[p][j] # None /\ C[p][j] # r
  <2>1. PICK l, i, k : Sprout(f, top, p, j, C[p][j], l, i, k)
    BY <1>9, <1>10
  <2>2. /\ l \in 2 .. top /\ p = <<0, l, i>> /\ C[p][j] = <<0, l - 1, k>> /\ k \in 0 .. f[l - 1] - 1
    BY ONLY <2>1 DEF Sprout
  <2>3. l - 1 \in 1 .. top /\ l - 1 < l /\ l - 1 # top
    BY ONLY <1>2, <2>2
  <2>4. C[p][j] \in Ids(f, top)
    BY ONLY <2>2, <2>3 DEF Ids
  <2>5. C[p][j][2] = l - 1 /\ p[2] = l /\ None[2] = 0 /\ r[2] = top
    BY <1>3, <2>2 DEF None
  <2>6. l - 1 # 0
    BY ONLY <1>2, <2>3
  <2>7. QED
    BY ONLY <1>1, <2>3, <2>4, <2>5, <2>6
<1>11. Built(h)
  <2>1. ASSUME NEW n \in DOMAIN h PROVE IsNode(h[n]) /\ h[n].chs \in Seq(DOMAIN h) /\ h[n].ver = n[1]
    <3>1. IsNode(h[n]) /\ h[n].ver = 0
      <4>1. CASE n = None
        BY <1>1, <4>1
      <4>2. CASE n # None
        <5>1. PICK l, i : l \in 1 .. top /\ i \in 0 .. f[l] - 1 /\ n = <<0, l, i>>
          BY <1>1, <1>5, <4>2
        <5>2. QED
          BY <1>1, <5>1 DEF Spans
      <4>3. QED
        BY <4>1, <4>2
    <3>2. IsSeq(h[n].chs)
      BY <3>1 DEF IsNode
    <3>3. \A j \in DOMAIN h[n].chs : h[n].chs[j] \in DOMAIN h
      BY <1>8, <1>10 DEF Edge
    <3>4. h[n].chs \in Seq(DOMAIN h)
      <4>1. PICK S, s : s = h[n].chs /\ s \in Seq(S)
        BY <3>2 DEF IsSeq
      <4>2. \A j \in 1 .. Len(s) : s[j] \in DOMAIN h
        BY <3>3, <4>1
      <4>3. s \in Seq(DOMAIN h)
        BY ONLY <4>1, <4>2
      <4>4. QED
        BY <4>1, <4>3
    <3>5. QED
      BY <1>6, <3>1, <3>4
  <2>2. QED
    BY <2>1 DEF Built
<1>12. PICK rk : rk = [n \in DOMAIN C |-> n[2]]
  OBVIOUS
<1>13. Ranked(C, rk)
  <2>1. rk \in [DOMAIN C -> Nat]
    BY <1>6, <1>8, <1>12
  <2>2. \A p, j : Edge(C, p, j) => rk[C[p][j]] < rk[p]
    <3>1. ASSUME NEW p, NEW j, Edge(C, p, j) PROVE rk[C[p][j]] < rk[p]
      <4>1. rk[p] = p[2] /\ rk[C[p][j]] = C[p][j][2]
        BY <1>8, <1>10, <1>12, <3>1 DEF Edge
      <4>2. QED
        BY <1>10, <3>1, <4>1
    <3>2. QED
      BY <3>1
  <2>3. rk[None] = 0
    BY <1>1, <1>8, <1>12 DEF None
  <2>4. QED
    BY <2>1, <2>2, <2>3 DEF Ranked
<1>14. \A p, i, q, j : Edge(C, p, i) /\ Edge(C, q, j) /\ C[p][i] = C[q][j] => p = q /\ i = j
  <2>1. ASSUME NEW p, NEW i, NEW q, NEW j, Edge(C, p, i), Edge(C, q, j), C[p][i] = C[q][j]
        PROVE  p = q /\ i = j
    <3>1. PICK l, a, k : Sprout(f, top, p, i, C[p][i], l, a, k)
      BY <1>9, <2>1
    <3>2. PICK y, x, z : Sprout(f, top, q, j, C[p][i], y, x, z)
      BY <1>9, <2>1
    <3>3. QED
      BY ONLY <3>1, <3>2, SproutOnce, Grows(N, f, top, h)
  <2>2. QED
    BY <2>1
<1>15. Planted(h, r, rk)
  BY <1>1, <1>4, <1>6, <1>7, <1>10, <1>11, <1>13, <1>14 DEF Planted
<1>16. QED
  BY <1>3, <1>15

\* The initial tree satisfies the invariant.
LEMMA BuildGood ==
  ASSUME NEW keys \in Seq(Int), NEW np
  PROVE  Good(Build(keys).heap, <<>>, Build(keys).root, np)
<1>1. Len(keys) \in Nat
  OBVIOUS
<1>2. PICK f, low, top : BuiltAs(keys, f, low, top, Build(keys))
  BY <1>1, BuildIs
<1>3. Grows(Len(keys), f, top, Build(keys).heap)
  BY <1>1, <1>2, PlantGrows
<1>4. PICK rk : Planted(Build(keys).heap, <<0, top, 0>>, rk)
  BY <1>3, GrowsPlanted
<1>5. Build(keys).root = <<0, top, 0>>
  BY <1>2 DEF BuiltAs
<1>6. QED
  BY <1>4, <1>5, PlantedGood

-----------------------------------------------------------------------------
(***************************************************************************)
(* What the handlers leave in the context.                                 *)
(***************************************************************************)
Continues(c, d) ==
  /\ SameTicket(c, d) /\ d.op \in {"down", "split", "materialize", "done"}

LEMMA UpdateContinues ==
  ASSUME NEW f, NEW e, CanUpdate(f, e), NEW r, r = UpdateCow(f, e)
  PROVE  Continues(e, r.c) /\ r.c.root = e.root
<1>1. PICK i, N : Updated(f, e, r, i, N)
  BY UpdateCowIs
<1>2. SameTicket(e, r.c) /\ r.c.root = e.root
  BY ONLY <1>1 DEF Updated
<1>3. r.c.op \in {"down", "split", "materialize", "done"}
  BY ONLY <1>1 DEF Updated
<1>4. QED
  BY ONLY <1>2, <1>3 DEF Continues

LEMMA HandlerContinues ==
  ASSUME NEW h, NEW cx, NEW t, NEW fr, NEW np, Ready(h, cx, t, fr, np), NEW c, c = cx[t], NEW r, r = Handle(h, c)
  PROVE  Continues(c, r.c) /\ r.c.root = c.root
<1>1. Moving(c) /\ IsContext(c)
  BY DEF Ready, Good, Shapes, Shape
<1>2. CASE c.op = "down"
  <2>1. PICK f : f = [h EXCEPT ![c.cur].chs = h[c.past].chs]
    OBVIOUS
  <2>2. r = UpdateCow(f, c)
    BY <1>2, <2>1 DEF Handle, HandleDown
  <2>3. Starts(h, cx, f, t, c, {c.cur}, {}, fr, np, Place(c, np) + 1)
    BY <1>2, <2>1, DownStarts
  <2>4. CanUpdate(f, c)
    BY ONLY <2>3 DEF Starts, Begins, Copies
  <2>5. QED
    BY ONLY <2>2, <2>4, UpdateContinues
<1>3. CASE c.op = "split"
  <2>1. PICK n, m, a, b, x, y, f, e :
           Divided(h, c, n, m, a, b, x, y, f, e) /\ HandleSplit(h, c) = UpdateCow(f, e)
    BY SplitIs
  <2>2. r = UpdateCow(f, e)
    BY ONLY r = Handle(h, c), <1>3, <2>1 DEF Handle
  <2>3. Starts(h, cx, f, t, e, {n, m}, {}, fr, np, Place(c, np) + 1)
    BY <1>3, <2>1, SplitStarts
  <2>4. CanUpdate(f, e)
    BY ONLY <2>3 DEF Starts, Begins, Copies
  <2>5. Continues(e, r.c) /\ r.c.root = e.root
    BY ONLY <2>2, <2>4, UpdateContinues
  <2>6. SameTicket(c, e) /\ e.root = c.root
    <3>1. e = [c EXCEPT !.cur = y]
      BY ONLY <2>1 DEF Divided
    <3>2. QED
      BY ONLY <1>1, <3>1 DEF SameTicket, IsContext, Fields
  <2>7. QED
    BY ONLY <2>5, <2>6 DEF Continues, SameTicket
<1>4. QED
  BY <1>1, <1>2, <1>3 DEF Moving

\* handle_init_cow when the root is a leaf.
LEMMA LeafContinues ==
  ASSUME NEW h, NEW c, IsContext(c), h[c.past].leaf, NEW r, r = HandleInit(h, c)
  PROVE  Continues(c, r.c)
<1>1. PICK e : e = [c EXCEPT !.retired = Append(c.retired, c.past)]
  OBVIOUS
<1>2. IsContext(e) /\ SameTicket(c, e)
  BY ONLY <1>1, IsContext(c) DEF SameTicket, IsContext, Fields
<1>3. \E a, b, u, v, w : r.c = [e EXCEPT !.made = 3, !.root = a, !.idx = 1, !.pair = b, !.cur = u,
                                          !.op = IF c.later THEN "materialize" ELSE "done"]
  BY <1>1 DEF HandleInit, Retire
<1>4. PICK d, a, b, u : d = r.c /\ d = [e EXCEPT !.made = 3, !.root = a, !.idx = 1, !.pair = b, !.cur = u,
                                          !.op = IF c.later THEN "materialize" ELSE "done"]
  BY ONLY <1>3
<1>5. SameTicket(e, d) /\ d.op = IF c.later THEN "materialize" ELSE "done"
  BY ONLY <1>2, <1>4 DEF SameTicket, IsContext, Fields
<1>6. d.op \in {"down", "split", "materialize", "done"}
  BY ONLY <1>5
<1>7. QED
  BY ONLY <1>2, <1>4, <1>5, <1>6 DEF Continues, SameTicket

LEMMA EntryContinues ==
  ASSUME NEW h, NEW cx, NEW c, NEW t, NEW P, NEW fr, NEW np, Enter(h, cx, c, t, P, fr, np),
         NEW r, r = HandleInit(h, c)
  PROVE  Continues(c, r.c)
<1>1. IsContext(c) /\ c.past = P
  BY DEF Enter
<1>2. CASE h[P].leaf
  BY <1>1, <1>2, LeafContinues
<1>3. CASE ~ h[P].leaf
  <2>1. Goes(h, cx, c, t, fr, np)
    <3>1. CASE Len(h[P].keys) < MaxKeys
      BY <1>3, <3>1, InnerRoot
    <3>2. CASE ~ (Len(h[P].keys) < MaxKeys)
      BY <1>3, <3>2, FullRoot
    <3>3. QED
      BY <3>1, <3>2
  <2>2. PICK f, e, F : /\ Starts(h, cx, f, t, e, {}, F, fr, np, 1) /\ HandleInit(h, c) = UpdateCow(f, e)
                       /\ SameTicket(c, e)
    BY <2>1 DEF Goes
  <2>3. CanUpdate(f, e)
    BY <2>2 DEF Starts, Begins, Copies
  <2>4. Continues(e, r.c)
    BY <2>2, <2>3, UpdateContinues
  <2>5. QED
    BY ONLY <2>2, <2>4 DEF Continues, SameTicket
<1>4. QED
  BY <1>2, <1>3

-----------------------------------------------------------------------------
\* A path without open nodes stays what it is.
LEMMA BelowMoves ==
  ASSUME NEW C, NEW C1, NEW U, NEW U1, NEW r, NEW m \in Below(C, U, r),
         \A p \in DOMAIN C : C[p] \in Seq(DOMAIN C), r \in DOMAIN C,
         DOMAIN C \subseteq DOMAIN C1, \A p \in DOMAIN C \ U : C1[p] = C[p], U1 \cap DOMAIN C \subseteq U
  PROVE  m \in Below(C1, U1, r)
<1>1. m \in DOMAIN C /\ \A S \in SUBSET DOMAIN C : r \in S /\ Shut(C, U, S) => m \in S
  BY DEF Below
<1>2. ASSUME NEW S1 \in SUBSET DOMAIN C1, r \in S1, Shut(C1, U1, S1) PROVE m \in S1
  <2>1. PICK S : S = S1 \cap DOMAIN C
    OBVIOUS
  <2>2. ASSUME NEW p, NEW i, p \in S, p \notin U, Edge(C, p, i) PROVE C[p][i] \in S
    <3>1. C1[p] = C[p] /\ p \notin U1 /\ p \in DOMAIN C1 /\ p \in DOMAIN C /\ p \in S1
      BY <2>1, <2>2
    <3>2. i \in DOMAIN C[p] /\ Edge(C1, p, i)
      BY <2>2, <3>1 DEF Edge
    <3>3. C1[p][i] \in S1
      BY ONLY <1>2, <3>1, <3>2 DEF Shut
    <3>4. C[p][i] \in DOMAIN C
      <4>1. C[p] \in Seq(DOMAIN C)
        BY <3>1
      <4>2. QED
        BY ONLY <4>1, <3>2
    <3>5. QED
      BY ONLY <2>1, <3>1, <3>3, <3>4
  <2>3. Shut(C, U, S)
    BY ONLY <2>2 DEF Shut
  <2>4. QED
    BY ONLY <1>1, <1>2, <2>1, <2>3, r \in DOMAIN C
<1>3. QED
  BY ONLY <1>1, <1>2, DOMAIN C \subseteq DOMAIN C1 DEF Below

\* A ticket whose slot a worker writes kept the root and has its leaf on a path that is ready.
OnPath(h, cx, fr, u, c) ==
  c.past = RootOf(cx, fr, u - 1) /\ c.cur \in Below(Kids(h), Open(h, cx), RootOf(cx, fr, u - 1))
Appends(h, cx, fr) == \A u \in DOMAIN cx : cx[u].op = "append" => OnPath(h, cx, fr, u, cx[u])

\* Every append of cx1 is one of cx or on a path of h.
NewPaths(h, cx, cx1, fr) ==
  /\ DOMAIN cx \subseteq DOMAIN cx1 /\ (\A u \in DOMAIN cx : cx1[u].root = cx[u].root)
  /\ \A u \in DOMAIN cx1 : u - 1 \in {0} \cup DOMAIN cx /\ u - 1 + 1 = u
  /\ \A u \in DOMAIN cx1 : cx1[u].op = "append" => OnPath(h, cx, fr, u, cx1[u])

LEMMA AppendsKept ==
  ASSUME NEW h, NEW cx, NEW g, NEW cx1, NEW fr, NEW np, Good(h, cx, fr, np), Quiet(h, cx, g, cx1),
         NewPaths(h, cx, cx1, fr)
  PROVE  Appends(g, cx1, fr)
<1>1. SUFFICES ASSUME NEW u \in DOMAIN cx1, cx1[u].op = "append" PROVE OnPath(g, cx1, fr, u, cx1[u])
  BY DEF Appends
<1>2. PICK r : r = RootOf(cx, fr, u - 1)
  OBVIOUS
<1>3. RootOf(cx1, fr, u - 1) = r
  BY ONLY <1>1, <1>2, NewPaths(h, cx, cx1, fr) DEF NewPaths, RootOf
<1>4. cx1[u].past = r /\ cx1[u].cur \in Below(Kids(h), Open(h, cx), r)
  BY ONLY <1>1, <1>2, NewPaths(h, cx, cx1, fr) DEF NewPaths, OnPath
<1>5. PICK C, C1 : C = Kids(h) /\ C1 = Kids(g)
  OBVIOUS
<1>6. /\ \A p \in DOMAIN C : C[p] \in Seq(DOMAIN C)
  BY ONLY <1>5, Good(h, cx, fr, np) DEF Good, Forest, Nodes
<1>7. r \in DOMAIN C
  <2>1. u - 1 \in {0} \cup DOMAIN cx
    BY ONLY <1>1, NewPaths(h, cx, cx1, fr) DEF NewPaths
  <2>2. QED
    BY ONLY <1>2, <1>5, <2>1, Good(h, cx, fr, np) DEF Good, Rooted, Top
<1>8. /\ DOMAIN C \subseteq DOMAIN C1 /\ \A p \in DOMAIN C \ Open(h, cx) : C1[p] = C[p]
      /\ Open(g, cx1) \cap DOMAIN C \subseteq Open(h, cx)
  <2>1. DOMAIN C = DOMAIN h /\ DOMAIN C1 = DOMAIN g
    BY ONLY <1>5 DEF Kids
  <2>2. \A p \in DOMAIN h : C[p] = h[p].chs
    BY ONLY <1>5 DEF Kids
  <2>3. \A p \in DOMAIN g : C1[p] = g[p].chs
    BY ONLY <1>5 DEF Kids
  <2>4. QED
    BY ONLY <2>1, <2>2, <2>3, Quiet(h, cx, g, cx1) DEF Quiet
<1>9. cx1[u].cur \in Below(C1, Open(g, cx1), r)
  BY ONLY <1>4, <1>5, <1>6, <1>7, <1>8, BelowMoves
<1>10. QED
  BY ONLY <1>3, <1>4, <1>5, <1>9 DEF OnPath

-----------------------------------------------------------------------------
(***************************************************************************)
(* What a ticket has replaced, as a graph: C, U as above, r is the root of *)
(* ticket t and P the root of the ticket before.                           *)
(***************************************************************************)
\* A finished node of ticket t below r refers to m.
Handed(C, U, r, t, m) ==
  \E z, j : z[1] = t /\ z \in Below(C, U, r) /\ z \notin U /\ Edge(C, z, j) /\ C[z][j] = m

\* The nodes G were below P; what was below those of Q is in G or below r.
Accounts(C, U, O, G, Q, r, t, P) ==
  /\ r = P \/ P \in G
  /\ G \subseteq Below(C, U, P)
  /\ O \subseteq Below(C, U, r)
  /\ \A p, i : p \in Q /\ Edge(C, p, i) => C[p][i] \in G \/ Handed(C, U, r, t, C[p][i])

\* Only open nodes change.
Spreads(C, U, C1, U1) ==
  /\ \A p \in DOMAIN C : C[p] \in Seq(DOMAIN C)
  /\ DOMAIN C \subseteq DOMAIN C1 /\ (\A p \in DOMAIN C \ U : C1[p] = C[p]) /\ U1 \cap DOMAIN C \subseteq U

LEMMA BelowEdge ==
  ASSUME NEW C, NEW U, NEW r, NEW m \in Below(C, U, r), m \notin U, NEW i, Edge(C, m, i), C[m][i] \in DOMAIN C
  PROVE  C[m][i] \in Below(C, U, r)
BY DEF Below, Shut

LEMMA BelowRoot == ASSUME NEW C, NEW U, NEW r \in DOMAIN C PROVE r \in Below(C, U, r)
BY DEF Below

LEMMA BelowSpreads ==
  ASSUME NEW C, NEW U, NEW C1, NEW U1, Spreads(C, U, C1, U1), NEW r \in DOMAIN C
  PROVE  Below(C, U, r) \subseteq Below(C1, U1, r)
<1>1. /\ \A p \in DOMAIN C : C[p] \in Seq(DOMAIN C)
      /\ DOMAIN C \subseteq DOMAIN C1 /\ (\A p \in DOMAIN C \ U : C1[p] = C[p]) /\ U1 \cap DOMAIN C \subseteq U
  BY DEF Spreads
<1>2. ASSUME NEW m \in Below(C, U, r) PROVE m \in Below(C1, U1, r)
  BY ONLY <1>1, <1>2, r \in DOMAIN C, BelowMoves
<1>3. QED
  BY ONLY <1>2

LEMMA HandedSpreads ==
  ASSUME NEW C, NEW U, NEW C1, NEW U1, Spreads(C, U, C1, U1), NEW r \in DOMAIN C,
         NEW t, NEW m, Handed(C, U, r, t, m)
  PROVE  Handed(C1, U1, r, t, m)
<1>1. PICK z, j : z[1] = t /\ z \in Below(C, U, r) /\ z \notin U /\ Edge(C, z, j) /\ C[z][j] = m
  BY DEF Handed
<1>2. z \in DOMAIN C /\ C1[z] = C[z] /\ z \notin U1 /\ z \in DOMAIN C1
  BY ONLY <1>1, Spreads(C, U, C1, U1) DEF Spreads, Edge
<1>3. z \in Below(C1, U1, r)
  BY ONLY <1>1, Spreads(C, U, C1, U1), r \in DOMAIN C, BelowSpreads
<1>4. Edge(C1, z, j) /\ C1[z][j] = m
  BY ONLY <1>1, <1>2 DEF Edge
<1>5. QED
  BY ONLY <1>1, <1>2, <1>3, <1>4 DEF Handed

\* A ticket that does nothing keeps its accounts.
LEMMA AccountsKept ==
  ASSUME NEW C, NEW U, NEW C1, NEW U1, Spreads(C, U, C1, U1), NEW O, NEW G, NEW Q, NEW r \in DOMAIN C, NEW t,
         NEW P \in DOMAIN C, Accounts(C, U, O, G, Q, r, t, P), Q \subseteq DOMAIN C \ U
  PROVE  Accounts(C1, U1, O, G, Q, r, t, P)
<1>1. Below(C, U, r) \subseteq Below(C1, U1, r) /\ Below(C, U, P) \subseteq Below(C1, U1, P)
  BY BelowSpreads
<1>2. ASSUME NEW p, NEW i, p \in Q, Edge(C1, p, i)
      PROVE  C1[p][i] \in G \/ Handed(C1, U1, r, t, C1[p][i])
  <2>1. p \in DOMAIN C /\ C1[p] = C[p] /\ Edge(C, p, i)
    BY ONLY <1>2, Spreads(C, U, C1, U1), Q \subseteq DOMAIN C \ U DEF Spreads, Edge
  <2>2. C[p][i] \in G \/ Handed(C, U, r, t, C[p][i])
    BY ONLY <1>2, <2>1, Accounts(C, U, O, G, Q, r, t, P) DEF Accounts
  <2>3. PICK m : m = C[p][i]
    OBVIOUS
  <2>4. Handed(C, U, r, t, m) => Handed(C1, U1, r, t, m)
    BY ONLY Spreads(C, U, C1, U1), r \in DOMAIN C, HandedSpreads
  <2>5. QED
    BY ONLY <2>1, <2>2, <2>3, <2>4
<1>3. QED
  BY ONLY <1>1, <1>2, Accounts(C, U, O, G, Q, r, t, P) DEF Accounts

\* The open nodes K of ticket t get what past has.
Fills(C, U, C1, V, K, Q, r, t, past) ==
  /\ Spreads(C, U, C1, V) /\ r \in DOMAIN C /\ past \in DOMAIN C \ U /\ Q \subseteq DOMAIN C \ U
  /\ \A n \in K : n[1] = t /\ n \notin V
  /\ \A i : Edge(C, past, i) => \E z, j : z \in K /\ Edge(C1, z, j) /\ C1[z][j] = C[past][i]

LEMMA FillAccounts ==
  ASSUME NEW C, NEW U, NEW C1, NEW V, NEW K, NEW G, NEW Q, NEW r, NEW t, NEW past, NEW P \in DOMAIN C,
         Fills(C, U, C1, V, K, Q, r, t, past), Accounts(C, U, K, G, Q, r, t, P)
  PROVE  Accounts(C1, V, K, G, Q \cup {past}, r, t, P)
<1>1. /\ Spreads(C, U, C1, V) /\ r \in DOMAIN C /\ past \in DOMAIN C \ U /\ Q \subseteq DOMAIN C \ U
      /\ \A n \in K : n[1] = t /\ n \notin V
      /\ \A i : Edge(C, past, i) => \E z, j : z \in K /\ Edge(C1, z, j) /\ C1[z][j] = C[past][i]
  BY DEF Fills
<1>2. Accounts(C1, V, K, G, Q, r, t, P)
  BY ONLY <1>1, Accounts(C, U, K, G, Q, r, t, P), P \in DOMAIN C, AccountsKept
<1>3. ASSUME NEW i, Edge(C1, past, i) PROVE Handed(C1, V, r, t, C1[past][i])
  <2>1. C1[past] = C[past] /\ Edge(C, past, i)
    BY ONLY <1>1, <1>3 DEF Spreads, Edge
  <2>2. PICK z, j : z \in K /\ Edge(C1, z, j) /\ C1[z][j] = C[past][i]
    BY ONLY <1>1, <2>1
  <2>3. z \in Below(C1, V, r) /\ z[1] = t /\ z \notin V
    BY ONLY <1>1, <1>2, <2>2 DEF Accounts
  <2>4. QED
    BY ONLY <2>1, <2>2, <2>3 DEF Handed
<1>4. QED
  BY ONLY <1>2, <1>3 DEF Accounts

\* Node cur of ticket t gets the new nodes N in the place of its child q.
Installs(C, V, C1, V1, cur, q, N, t) ==
  /\ t \in Nat /\ \A p \in DOMAIN C : C[p] \in Seq(DOMAIN C) /\ p[1] \in Nat
  /\ \A p, i : Edge(C, p, i) => C[p][i][1] <= p[1]
  /\ DOMAIN C1 = DOMAIN C \cup N /\ N \cap DOMAIN C = {} /\ V1 \subseteq V \cup N
  /\ \A p \in DOMAIN C : p # cur => C1[p] = C[p]
  /\ cur \in DOMAIN C \ V /\ cur[1] = t /\ q \in DOMAIN C /\ q[1] < t
  /\ \A i : Edge(C, cur, i) /\ C[cur][i] # q => \E j : Edge(C1, cur, j) /\ C1[cur][j] = C[cur][i]
  /\ \A n \in N : \E j : Edge(C1, cur, j) /\ C1[cur][j] = n

\* The trees of older tickets do not change.
LEMMA OlderBelow ==
  ASSUME NEW C, NEW V, NEW C1, NEW V1, NEW cur, NEW q, NEW N, NEW t, Installs(C, V, C1, V1, cur, q, N, t),
         NEW r \in DOMAIN C, r[1] < t, NEW m \in Below(C, V, r)
  PROVE  m \in Below(C1, V1, r) /\ m[1] < t
<1>1. /\ t \in Nat /\ \A p \in DOMAIN C : C[p] \in Seq(DOMAIN C) /\ p[1] \in Nat
      /\ \A p, i : Edge(C, p, i) => C[p][i][1] <= p[1]
      /\ DOMAIN C1 = DOMAIN C \cup N /\ N \cap DOMAIN C = {} /\ V1 \subseteq V \cup N
      /\ (\A p \in DOMAIN C : p # cur => C1[p] = C[p]) /\ cur[1] = t
  BY DEF Installs
<1>2. m \in DOMAIN C /\ \A S \in SUBSET DOMAIN C : r \in S /\ Shut(C, V, S) => m \in S
  BY DEF Below
<1>3. ASSUME NEW S1 \in SUBSET DOMAIN C1, r \in S1, Shut(C1, V1, S1) PROVE m \in S1 /\ m[1] < t
  <2>1. PICK S : S = {n \in DOMAIN C : n[1] < t /\ n \in S1}
    OBVIOUS
  <2>2. ASSUME NEW p, NEW i, p \in S, p \notin V, Edge(C, p, i) PROVE C[p][i] \in S
    <3>1. p \in DOMAIN C /\ p[1] < t /\ p \in S1 /\ p # cur /\ i \in DOMAIN C[p]
      BY ONLY <1>1, <2>1, <2>2 DEF Edge
    <3>2. C1[p] = C[p] /\ p \notin V1 /\ p \in DOMAIN C1
      BY ONLY <1>1, <2>2, <3>1
    <3>3. C[p][i] \in DOMAIN C
      <4>1. C[p] \in Seq(DOMAIN C)
        BY ONLY <1>1, <3>1
      <4>2. QED
        BY ONLY <3>1, <4>1
    <3>4. C[p][i][1] < t
      BY ONLY <1>1, <2>2, <3>1, <3>3
    <3>5. C1[p][i] \in S1
      BY ONLY <1>3, <3>1, <3>2 DEF Shut, Edge
    <3>6. QED
      BY ONLY <2>1, <3>2, <3>3, <3>4, <3>5
  <2>3. Shut(C, V, S)
    BY ONLY <2>2 DEF Shut
  <2>4. m \in S
    BY ONLY <1>2, <1>3, <2>1, <2>3, r \in DOMAIN C, r[1] < t
  <2>5. QED
    BY ONLY <2>1, <2>4
<1>4. m[1] < t
  <2>1. PICK S : S = {n \in DOMAIN C : n[1] < t}
    OBVIOUS
  <2>2. ASSUME NEW p, NEW i, p \in S, p \notin V, Edge(C, p, i) PROVE C[p][i] \in S
    <3>1. p \in DOMAIN C /\ p[1] < t /\ i \in DOMAIN C[p]
      BY ONLY <2>1, <2>2 DEF Edge
    <3>2. C[p][i] \in DOMAIN C
      <4>1. C[p] \in Seq(DOMAIN C)
        BY ONLY <1>1, <3>1
      <4>2. QED
        BY ONLY <3>1, <4>1
    <3>3. C[p][i][1] < t
      BY ONLY <1>1, <2>2, <3>1, <3>2
    <3>4. QED
      BY ONLY <2>1, <3>2, <3>3
  <2>3. Shut(C, V, S)
    BY ONLY <2>2 DEF Shut
  <2>4. m \in S
    BY ONLY <1>2, <2>1, <2>3, r \in DOMAIN C, r[1] < t
  <2>5. QED
    BY ONLY <2>1, <2>4
<1>5. QED
  BY ONLY <1>1, <1>2, <1>3, <1>4 DEF Below

\* Nor does a node of ticket t get out of its tree.
LEMMA OwnBelow ==
  ASSUME NEW C, NEW V, NEW C1, NEW V1, NEW cur, NEW q, NEW N, NEW t, Installs(C, V, C1, V1, cur, q, N, t),
         NEW r \in DOMAIN C, NEW m \in Below(C, V, r), m[1] = t
  PROVE  m \in Below(C1, V1, r)
<1>1. /\ t \in Nat /\ \A p \in DOMAIN C : C[p] \in Seq(DOMAIN C) /\ p[1] \in Nat
      /\ \A p, i : Edge(C, p, i) => C[p][i][1] <= p[1]
      /\ DOMAIN C1 = DOMAIN C \cup N /\ N \cap DOMAIN C = {} /\ V1 \subseteq V \cup N
      /\ (\A p \in DOMAIN C : p # cur => C1[p] = C[p]) /\ cur \in DOMAIN C \ V /\ q[1] < t
      /\ \A i : Edge(C, cur, i) /\ C[cur][i] # q => \E j : Edge(C1, cur, j) /\ C1[cur][j] = C[cur][i]
  BY DEF Installs
<1>2. m \in DOMAIN C /\ \A S \in SUBSET DOMAIN C : r \in S /\ Shut(C, V, S) => m \in S
  BY DEF Below
<1>3. ASSUME NEW S1 \in SUBSET DOMAIN C1, r \in S1, Shut(C1, V1, S1) PROVE m \in S1
  <2>1. PICK S : S = {n \in DOMAIN C : n[1] < t \/ n \in S1}
    OBVIOUS
  <2>2. ASSUME NEW p, NEW i, p \in S, p \notin V, Edge(C, p, i) PROVE C[p][i] \in S
    <3>1. p \in DOMAIN C /\ i \in DOMAIN C[p] /\ C[p] \in Seq(DOMAIN C)
      BY ONLY <1>1, <2>1, <2>2 DEF Edge
    <3>2. C[p][i] \in DOMAIN C
      BY ONLY <3>1
    <3>3. CASE C[p][i][1] < t
      BY ONLY <2>1, <3>2, <3>3
    <3>4. CASE ~ C[p][i][1] < t
      <4>1. ~ p[1] < t /\ p \in S1
        BY ONLY <1>1, <2>1, <2>2, <3>1, <3>2, <3>4
      <4>2. p \notin V1 /\ p \in DOMAIN C1
        BY ONLY <1>1, <2>2, <3>1
      <4>3. CASE p = cur
        <5>1. C[p][i] # q
          BY ONLY <1>1, <3>4
        <5>2. PICK j : Edge(C1, p, j) /\ C1[p][j] = C[p][i]
          BY ONLY <1>1, <2>2, <4>3, <5>1
        <5>3. C1[p][j] \in S1
          BY ONLY <1>3, <4>1, <4>2, <5>2 DEF Shut
        <5>4. QED
          BY ONLY <2>1, <3>2, <5>2, <5>3
      <4>4. CASE p # cur
        <5>1. C1[p] = C[p] /\ Edge(C1, p, i)
          BY ONLY <1>1, <3>1, <4>2, <4>4 DEF Edge
        <5>2. C1[p][i] \in S1
          BY ONLY <1>3, <4>1, <4>2, <5>1 DEF Shut
        <5>3. QED
          BY ONLY <2>1, <3>2, <5>1, <5>2
      <4>5. QED
        BY ONLY <4>3, <4>4
    <3>5. QED
      BY ONLY <3>3, <3>4
  <2>3. Shut(C, V, S)
    BY ONLY <2>2 DEF Shut
  <2>4. m \in S
    BY ONLY <1>2, <1>3, <2>1, <2>3, r \in DOMAIN C
  <2>5. m[1] \in Nat
    BY ONLY <1>1, <1>2
  <2>6. QED
    BY ONLY <1>1, <2>1, <2>4, <2>5, m[1] = t
<1>4. QED
  BY ONLY <1>1, <1>2, <1>3 DEF Below

\* Then q is replaced, and nothing else goes.
InstallsNext(C, V, G, Q1, cur, q, r, t, P) ==
  /\ Accounts(C, V, {}, G, G, r, t, P) /\ q \in Below(C, V, P) /\ P \in DOMAIN C /\ P[1] < t /\ r \in DOMAIN C
  /\ cur \in Below(C, V, r) /\ Q1 \subseteq G \cup {q} /\ (q \in Q1 => C[q] = <<>>)

LEMMA InstallAccounts ==
  ASSUME NEW C, NEW V, NEW C1, NEW V1, NEW cur, NEW q, NEW N, NEW t, Installs(C, V, C1, V1, cur, q, N, t),
         NEW G, NEW Q1, NEW r, NEW P, InstallsNext(C, V, G, Q1, cur, q, r, t, P), N \cap {cur} = {},
         cur \notin V1
  PROVE  Accounts(C1, V1, N, G \cup {q}, Q1, r, t, P)
<1>1. /\ t \in Nat /\ \A p \in DOMAIN C : C[p] \in Seq(DOMAIN C) /\ p[1] \in Nat
      /\ DOMAIN C1 = DOMAIN C \cup N /\ N \cap DOMAIN C = {} /\ V1 \subseteq V \cup N
      /\ (\A p \in DOMAIN C : p # cur => C1[p] = C[p]) /\ cur \in DOMAIN C \ V /\ cur[1] = t /\ q[1] < t
      /\ q \in DOMAIN C
      /\ \A i : Edge(C, cur, i) /\ C[cur][i] # q => \E j : Edge(C1, cur, j) /\ C1[cur][j] = C[cur][i]
      /\ \A n \in N : \E j : Edge(C1, cur, j) /\ C1[cur][j] = n
  BY DEF Installs
<1>2. /\ r = P \/ P \in G
      /\ G \subseteq Below(C, V, P)
      /\ \A p, i : p \in G /\ Edge(C, p, i) => C[p][i] \in G \/ Handed(C, V, r, t, C[p][i])
      /\ q \in Below(C, V, P) /\ P \in DOMAIN C /\ P[1] < t /\ r \in DOMAIN C
      /\ cur \in Below(C, V, r) /\ Q1 \subseteq G \cup {q} /\ (q \in Q1 => C[q] = <<>>)
  BY DEF InstallsNext, Accounts
<1>3. ASSUME NEW n \in G \cup {q} PROVE n \in Below(C1, V1, P) /\ n[1] < t
  <2>1. n \in Below(C, V, P)
    BY ONLY <1>2, <1>3
  <2>2. QED
    BY ONLY <1>2, <2>1, Installs(C, V, C1, V1, cur, q, N, t), OlderBelow
<1>4. cur \in Below(C1, V1, r) /\ cur \notin V1
  <2>1. cur \in Below(C1, V1, r)
    BY ONLY <1>1, <1>2, Installs(C, V, C1, V1, cur, q, N, t), OwnBelow
  <2>2. QED
    BY ONLY <2>1, cur \notin V1
<1>5. N \subseteq Below(C1, V1, r)
  <2>1. ASSUME NEW n \in N PROVE n \in Below(C1, V1, r)
    <3>1. PICK j : Edge(C1, cur, j) /\ C1[cur][j] = n
      BY ONLY <1>1, <2>1
    <3>2. C1[cur][j] \in DOMAIN C1
      BY ONLY <1>1, <2>1, <3>1
    <3>3. QED
      BY ONLY <1>4, <3>1, <3>2, BelowEdge
  <2>2. QED
    BY ONLY <2>1
<1>6. ASSUME NEW p, NEW i, p \in Q1, Edge(C1, p, i)
      PROVE  C1[p][i] \in G \cup {q} \/ Handed(C1, V1, r, t, C1[p][i])
  <2>1. p[1] < t /\ p \in DOMAIN C
    <3>1. p \in G \cup {q}
      BY ONLY <1>2, <1>6
    <3>2. p \in DOMAIN C
      BY ONLY <1>1, <1>2, <3>1 DEF Below
    <3>3. QED
      BY ONLY <1>3, <3>1, <3>2
  <2>2. p # cur
    BY ONLY <1>1, <2>1
  <2>3. C1[p] = C[p] /\ Edge(C, p, i)
    BY ONLY <1>1, <1>6, <2>1, <2>2 DEF Edge
  <2>4. p \in G
    <3>1. CASE p = q
      BY ONLY <1>2, <1>6, <2>3, <3>1 DEF Edge
    <3>2. CASE p # q
      BY ONLY <1>2, <1>6, <3>2
    <3>3. QED
      BY ONLY <3>1, <3>2
  <2>5. PICK m : m = C[p][i]
    OBVIOUS
  <2>6. m \in G \/ Handed(C, V, r, t, m)
    BY ONLY <1>2, <2>3, <2>4, <2>5
  <2>7. ASSUME Handed(C, V, r, t, m) PROVE m = q \/ Handed(C1, V1, r, t, m)
    <3>1. PICK z, j : z[1] = t /\ z \in Below(C, V, r) /\ z \notin V /\ Edge(C, z, j) /\ C[z][j] = m
      BY ONLY <2>7 DEF Handed
    <3>2. z \in Below(C1, V1, r)
      BY ONLY <1>2, <3>1, Installs(C, V, C1, V1, cur, q, N, t), OwnBelow
    <3>3. z \in DOMAIN C /\ z \notin V1 /\ z \in DOMAIN C1
      BY ONLY <1>1, <3>1 DEF Edge
    <3>4. CASE z = cur /\ m # q
      <4>1. PICK l : Edge(C1, cur, l) /\ C1[cur][l] = m
        BY ONLY <1>1, <3>1, <3>4
      <4>2. QED
        BY ONLY <3>1, <3>2, <3>3, <3>4, <4>1 DEF Handed
    <3>5. CASE z # cur
      <4>1. Edge(C1, z, j) /\ C1[z][j] = m
        BY ONLY <1>1, <3>1, <3>3, <3>5 DEF Edge
      <4>2. QED
        BY ONLY <3>1, <3>2, <3>3, <4>1 DEF Handed
    <3>6. QED
      BY ONLY <3>4, <3>5
  <2>8. QED
    BY ONLY <2>3, <2>5, <2>6, <2>7
<1>7. QED
  BY ONLY <1>2, <1>3, <1>5, <1>6 DEF Accounts

\* What ticket u has retired, each node once; P is the root before it.
Exact(h, cx, fr, u) ==
  /\ IsInjective(cx[u].retired)
  /\ Accounts(Kids(h), Open(h, cx), Opened(h, cx[u]), Gone(cx[u]), Quit(cx[u]), cx[u].root, u, RootOf(cx, fr, u - 1))
ExactAll(h, cx, fr) == \A u \in DOMAIN cx : Exact(h, cx, fr, u)

\* No node has too many children, and one that is not split has room for another.
Narrow(h)   == \A n \in DOMAIN h : Len(h[n].chs) <= MaxKeys + 1
Slim(h, cx) == \A u \in DOMAIN cx : cx[u].op = "down" => Len(h[cx[u].past].chs) <= MaxKeys
Sized(h, cx) == Narrow(h) /\ Slim(h, cx)

LEMMA QuietSpreads ==
  ASSUME NEW h, NEW cx, NEW g, NEW cx1, NEW fr, NEW np, Good(h, cx, fr, np), Quiet(h, cx, g, cx1)
  PROVE  Spreads(Kids(h), Open(h, cx), Kids(g), Open(g, cx1))
<1>1. PICK C, C1 : C = Kids(h) /\ C1 = Kids(g)
  OBVIOUS
<1>2. \A p \in DOMAIN C : C[p] \in Seq(DOMAIN C)
  BY ONLY <1>1, Good(h, cx, fr, np) DEF Good, Forest, Nodes
<1>3. DOMAIN C = DOMAIN h /\ DOMAIN C1 = DOMAIN g
  BY ONLY <1>1 DEF Kids
<1>4. \A p \in DOMAIN h : C[p] = h[p].chs
  BY ONLY <1>1 DEF Kids
<1>5. \A p \in DOMAIN g : C1[p] = g[p].chs
  BY ONLY <1>1 DEF Kids
<1>6. DOMAIN C \subseteq DOMAIN C1 /\ (\A p \in DOMAIN C \ Open(h, cx) : C1[p] = C[p])
  BY ONLY <1>3, <1>4, <1>5, Quiet(h, cx, g, cx1) DEF Quiet
<1>7. Open(g, cx1) \cap DOMAIN C \subseteq Open(h, cx)
  BY ONLY <1>3, Quiet(h, cx, g, cx1) DEF Quiet
<1>8. QED
  BY ONLY <1>1, <1>2, <1>6, <1>7 DEF Spreads

\* Ticket u has done nothing.
Idle(h, cx, g, cx1, fr, u) ==
  /\ u \in DOMAIN cx /\ u - 1 \in {0} \cup DOMAIN cx
  /\ cx1[u].root = cx[u].root /\ cx1[u].retired = cx[u].retired /\ Quit(cx1[u]) = Quit(cx[u])
  /\ Opened(g, cx1[u]) = Opened(h, cx[u]) /\ RootOf(cx1, fr, u - 1) = RootOf(cx, fr, u - 1)

LEMMA IdleExact ==
  ASSUME NEW h, NEW cx, NEW g, NEW cx1, NEW fr, NEW np, Good(h, cx, fr, np), Quiet(h, cx, g, cx1),
         NEW u, Idle(h, cx, g, cx1, fr, u), Exact(h, cx, fr, u)
  PROVE  Exact(g, cx1, fr, u)
<1>1. PICK C, U, O, G, Q, r, P : /\ C = Kids(h) /\ U = Open(h, cx) /\ O = Opened(h, cx[u]) /\ G = Gone(cx[u])
                                 /\ Q = Quit(cx[u]) /\ r = cx[u].root /\ P = RootOf(cx, fr, u - 1)
  OBVIOUS
<1>2. PICK C1, U1 : C1 = Kids(g) /\ U1 = Open(g, cx1)
  OBVIOUS
<1>3. Accounts(C, U, O, G, Q, r, u, P)
  BY ONLY <1>1, Exact(h, cx, fr, u) DEF Exact
<1>4. Spreads(C, U, C1, U1)
  BY ONLY <1>1, <1>2, Good(h, cx, fr, np), Quiet(h, cx, g, cx1), QuietSpreads
<1>5. r \in DOMAIN C /\ P \in DOMAIN C
  <2>1. u \in DOMAIN cx /\ u - 1 \in {0} \cup DOMAIN cx
    BY DEF Idle
  <2>2. P \in DOMAIN C
    BY ONLY <1>1, <2>1, Good(h, cx, fr, np) DEF Good, Rooted, Top
  <2>3. r = RootOf(cx, fr, u)
    <3>1. u # 0
      BY ONLY <2>1, Good(h, cx, fr, np) DEF Good, Shapes, Shape
    <3>2. QED
      BY ONLY <1>1, <3>1 DEF RootOf
  <2>4. RootOf(cx, fr, u) \in DOMAIN C
    BY ONLY <1>1, <2>1, Good(h, cx, fr, np) DEF Good, Rooted, Top
  <2>5. QED
    BY ONLY <2>2, <2>3, <2>4
<1>6. Q \subseteq DOMAIN C \ U
  <2>1. u \in DOMAIN cx /\ u \in Nat
    BY ONLY Idle(h, cx, g, cx1, fr, u), Good(h, cx, fr, np) DEF Idle, Good, Shapes, Shape
  <2>2. Copied(cx)[u] = Q
    BY ONLY <1>1, <2>1 DEF Copied
  <2>3. Retirements(C, Retired(cx), Copied(cx), U)
    BY ONLY <1>1, Good(h, cx, fr, np) DEF Good, Forest
  <2>4. QED
    BY ONLY <2>1, <2>2, <2>3 DEF Retirements
<1>7. Accounts(C1, U1, O, G, Q, r, u, P)
  BY ONLY <1>3, <1>4, <1>5, <1>6, AccountsKept
<1>8. /\ cx1[u].root = r /\ cx1[u].retired = cx[u].retired /\ Quit(cx1[u]) = Q
      /\ Opened(g, cx1[u]) = O /\ RootOf(cx1, fr, u - 1) = P
  BY ONLY <1>1, Idle(h, cx, g, cx1, fr, u) DEF Idle
<1>9. Gone(cx1[u]) = G
  BY ONLY <1>1, <1>8 DEF Gone
<1>10. IsInjective(cx1[u].retired)
  BY ONLY <1>8, Exact(h, cx, fr, u) DEF Exact
<1>11. QED
  BY ONLY <1>2, <1>7, <1>8, <1>9, <1>10 DEF Exact

\* A node to be replaced without a split keeps its children.
LEMMA SlimKept ==
  ASSUME NEW h, NEW cx, NEW g, NEW cx1, NEW fr, NEW np, Good(h, cx, fr, np), Quiet(h, cx, g, cx1), Slim(h, cx),
         NEW u \in DOMAIN cx, cx[u].op = "down", cx1[u].past = cx[u].past
  PROVE  Len(g[cx1[u].past].chs) <= MaxKeys
<1>1. Moving(cx[u])
  BY DEF Moving
<1>2. cx[u].past \in DOMAIN h
  BY ONLY <1>1, u \in DOMAIN cx, Good(h, cx, fr, np) DEF Good, Shapes, Shape, ShapeMoving
<1>3. cx[u].past \notin Open(h, cx)
  BY ONLY <1>1, u \in DOMAIN cx, Good(h, cx, fr, np) DEF Good, Settled
<1>4. g[cx[u].past].chs = h[cx[u].past].chs
  BY ONLY <1>2, <1>3, Quiet(h, cx, g, cx1) DEF Quiet
<1>5. QED
  BY <1>4 DEF Slim

\* Ticket t is about to call update_cow, which replaces a child of the current node: what
\* it has replaced so far has no children of its own left, and what is below the current
\* node was below root P of the ticket before.
Midway(h, cx, f, t, e, P) ==
  /\ IsInjective(e.retired)
  /\ Accounts(Kids(f), Others(h, cx, t), {}, Gone(e), Gone(e), e.root, t, P)
  /\ e.root \in DOMAIN f /\ P \in DOMAIN f /\ P[1] < t
  /\ e.cur \in Below(Kids(f), Others(h, cx, t), e.root)
  /\ \A i : Edge(Kids(f), e.cur, i) => Kids(f)[e.cur][i] \in Below(Kids(f), Others(h, cx, t), P)
  /\ Narrow(f) /\ Len(f[e.cur].chs) <= MaxKeys

\* The old children that stay, and the new ones, have a place.
LEMMA PlacesKeep ==
  ASSUME NEW S, NEW s \in Seq(S), NEW T, NEW z \in Seq(T), NEW i \in DOMAIN s, NEW N, Len(N) \in {1, 2}, Places(s, i, N, z)
  PROVE  /\ \A j \in DOMAIN s : j # i => \E k \in DOMAIN z : z[k] = s[j]
         /\ \A l \in 1 .. Len(N) : \E k \in DOMAIN z : z[k] = N[l]
         /\ Len(z) = Len(s) + Len(N) - 1
<1>1. PICK n, w : n = Len(s) /\ w = Len(N)
  OBVIOUS
<1>2. n \in Nat /\ w \in {1, 2} /\ DOMAIN s = 1 .. n /\ i \in 1 .. n
  BY <1>1
<1>3. Len(z) = n + w - 1 /\ DOMAIN z = 1 .. n + w - 1
  BY <1>1 DEF Places
<1>4. \A k \in 1 .. n + w - 1 : /\ k < i => z[k] = s[k]
                                /\ k >= i /\ k < i + w => z[k] = N[k - i + 1]
                                /\ k >= i + w => z[k] = s[k - w + 1]
  BY <1>1, <1>3 DEF Places
<1>5. ASSUME NEW j \in 1 .. n, j # i PROVE \E k \in 1 .. n + w - 1 : z[k] = s[j]
  <2>1. CASE j < i
    <3>1. j \in 1 .. n + w - 1
      BY ONLY <1>2, <1>5
    <3>2. z[j] = s[j]
      BY ONLY <1>4, <2>1, <3>1
    <3>3. QED
      BY ONLY <3>1, <3>2
  <2>2. CASE ~ j < i
    <3>1. PICK k : k = j + w - 1
      OBVIOUS
    <3>2. k \in 1 .. n + w - 1 /\ k >= i + w /\ k - w + 1 = j
      BY ONLY <1>2, <1>5, <2>2, <3>1
    <3>3. z[k] = s[k - w + 1]
      BY ONLY <1>4, <3>2
    <3>4. QED
      BY ONLY <3>2, <3>3
  <2>3. QED
    BY ONLY <2>1, <2>2
<1>6. ASSUME NEW l \in 1 .. w PROVE \E k \in 1 .. n + w - 1 : z[k] = N[l]
  <2>1. PICK k : k = i + l - 1
    OBVIOUS
  <2>2. k \in 1 .. n + w - 1 /\ k >= i /\ k < i + w /\ k - i + 1 = l
    BY ONLY <1>2, <1>6, <2>1
  <2>3. z[k] = N[k - i + 1]
    BY ONLY <1>4, <2>2
  <2>4. QED
    BY ONLY <2>2, <2>3
<1>7. QED
  BY ONLY <1>1, <1>2, <1>3, <1>5, <1>6

LEMMA MoveInstalls ==
  ASSUME NEW h, NEW cx, NEW f, NEW t, NEW c, NEW K, NEW F, NEW mk, NEW rk, NEW k,
         NEW r, NEW i, NEW N, NEW d, NEW cx1, NEW q, NEW g,
         Moves(h, cx, f, t, c, K, F, mk, rk, k, r, i, N, d, cx1, q, g)
  PROVE  /\ Installs(Kids(f), Others(h, cx, t), Kids(g), Open(g, cx1), c.cur, q, Range(N), t)
         /\ Edge(Kids(f), c.cur, i) /\ Kids(f)[c.cur][i] = q
         /\ Len(g[c.cur].chs) <= Len(f[c.cur].chs) + 1
<1>1. PICK C, C1, V, V1, R, L, M : /\ C = Kids(f) /\ C1 = Kids(g) /\ V = Others(h, cx, t) /\ V1 = Open(g, cx1)
                                   /\ R = GoneBut(cx, t, c) /\ L = QuitBut(cx, t, c) /\ M = Range(N)
  OBVIOUS
<1>2. /\ Copies(f, c, R, L, V, mk, rk, k) /\ Updated(f, c, r, i, N) /\ c.sno = t /\ g = r.heap
      /\ q = f[c.cur].chs[i] /\ t \in Nat
  BY ONLY <1>1, Moves(h, cx, f, t, c, K, F, mk, rk, k, r, i, N, d, cx1, q, g) DEF Moves, Begins, Returns
<1>3. q \in DOMAIN f /\ DOMAIN g = DOMAIN f \cup M /\ \A n \in M : n \notin DOMAIN f /\ n[1] = t
  BY ONLY <1>1, <1>2, CopySteps
<1>4. /\ Nodes(C, V) /\ CanUpdate(f, c) /\ c.cur \in DOMAIN f /\ c.cur \notin V /\ c.cur[1] = t
      /\ \A j \in DOMAIN f[c.cur].chs : f[c.cur].chs[j][1] < t
  BY ONLY <1>1, <1>2 DEF Copies, Forest, CanUpdate
<1>5. /\ DOMAIN C = DOMAIN f /\ DOMAIN C1 = DOMAIN g
      /\ (\A n \in DOMAIN f : C[n] = f[n].chs) /\ (\A n \in DOMAIN g : C1[n] = g[n].chs)
  BY ONLY <1>1 DEF Kids
<1>6. V1 \subseteq V \cup M
  <2>1. Result(h, cx, f, t, c, N, cx1, q, g)
    BY ONLY Moves(h, cx, f, t, c, K, F, mk, rk, k, r, i, N, d, cx1, q, g), MoveForest
  <2>2. V1 = V \cup Later(f, q, N)
    BY ONLY <1>1, <2>1 DEF Result
  <2>3. QED
    BY ONLY <1>1, <2>2 DEF Later
<1>7. PICK s, z : s = f[c.cur].chs /\ z = g[c.cur].chs
  OBVIOUS
<1>8. /\ i \in DOMAIN s /\ s \in Seq(DOMAIN f) /\ z \in Seq(DOMAIN g) /\ Places(s, i, N, z) /\ q = s[i]
      /\ \A n \in DOMAIN f : n # c.cur => g[n] = f[n]
  BY ONLY <1>2, <1>4, <1>7 DEF Updated, CanUpdate
<1>9. Len(N) \in {1, 2} /\ M = {N[l] : l \in 1 .. Len(N)}
  <2>1. N = <<New(c, 1)>> \/ N = <<New(c, 1), New(c, 2)>>
    BY ONLY <1>2 DEF Updated
  <2>2. c.made \in Nat
    BY ONLY <1>4 DEF CanUpdate
  <2>3. QED
    BY ONLY <1>1, <2>1, <2>2, NewNodes
<1>10. /\ \A j \in DOMAIN s : j # i => \E l \in DOMAIN z : z[l] = s[j]
       /\ \A l \in 1 .. Len(N) : \E j \in DOMAIN z : z[j] = N[l]
       /\ Len(z) = Len(s) + Len(N) - 1
  BY ONLY <1>8, <1>9, PlacesKeep
<1>11. c.cur \in DOMAIN C1 /\ c.cur \in DOMAIN C /\ C[c.cur] = s /\ C1[c.cur] = z
  BY ONLY <1>3, <1>4, <1>5, <1>7
<1>12. ASSUME NEW j, Edge(C, c.cur, j), C[c.cur][j] # q
       PROVE  \E l : Edge(C1, c.cur, l) /\ C1[c.cur][l] = C[c.cur][j]
  <2>1. j \in DOMAIN s /\ j # i
    BY ONLY <1>8, <1>11, <1>12 DEF Edge
  <2>2. PICK l \in DOMAIN z : z[l] = s[j]
    BY ONLY <1>10, <2>1
  <2>3. QED
    BY ONLY <1>11, <2>2 DEF Edge
<1>13. ASSUME NEW n \in M PROVE \E j : Edge(C1, c.cur, j) /\ C1[c.cur][j] = n
  <2>1. PICK l \in 1 .. Len(N) : n = N[l]
    BY ONLY <1>9, <1>13
  <2>2. PICK j \in DOMAIN z : z[j] = N[l]
    BY ONLY <1>10, <2>1
  <2>3. QED
    BY ONLY <1>11, <2>1, <2>2 DEF Edge
<1>14. q[1] < t
  BY ONLY <1>4, <1>7, <1>8
<1>15. \A p \in DOMAIN C : p # c.cur => C1[p] = C[p]
  BY ONLY <1>3, <1>5, <1>8
<1>16. /\ \A p \in DOMAIN C : C[p] \in Seq(DOMAIN C) /\ p[1] \in Nat
       /\ \A p, j : Edge(C, p, j) => C[p][j][1] <= p[1]
  BY ONLY <1>4 DEF Nodes
<1>17. Installs(C, V, C1, V1, c.cur, q, M, t)
  <2>1. DOMAIN C1 = DOMAIN C \cup M /\ M \cap DOMAIN C = {}
    BY ONLY <1>3, <1>5
  <2>2. c.cur \in DOMAIN C \ V /\ q \in DOMAIN C
    BY ONLY <1>3, <1>4, <1>5
  <2>3. QED
    BY ONLY <1>2, <1>4, <1>6, <1>12, <1>13, <1>14, <1>15, <1>16, <2>1, <2>2 DEF Installs
<1>18. Edge(C, c.cur, i) /\ C[c.cur][i] = q
  BY ONLY <1>8, <1>11 DEF Edge
<1>19. Len(z) <= Len(s) + 1
  <2>1. Len(s) \in Nat
    BY ONLY <1>8
  <2>2. QED
    BY ONLY <1>9, <1>10, <2>1
<1>20. QED
  BY ONLY <1>1, <1>7, <1>17, <1>18, <1>19

LEMMA AppendOnce ==
  ASSUME NEW s, IsSeq(s), IsInjective(s), NEW q, q \notin Range(s)
  PROVE  IsInjective(Append(s, q))
<1>1. PICK S : s \in Seq(S)
  BY DEF IsSeq
<1>2. PICK n \in Nat : n = Len(s) /\ DOMAIN s = 1 .. n
  BY <1>1
<1>3. PICK z : z = Append(s, q)
  OBVIOUS
<1>4. DOMAIN z = 1 .. n + 1 /\ z[n + 1] = q /\ \A i \in 1 .. n : z[i] = s[i]
  <2>1. s \in Seq(S \cup {q}) /\ q \in S \cup {q}
    BY <1>1
  <2>2. QED
    BY <1>2, <1>3, <2>1
<1>5. \A i \in 1 .. n : s[i] # q
  BY <1>2 DEF Range
<1>6. \A a, b \in 1 .. n : s[a] = s[b] => a = b
  BY <1>2 DEF IsInjective
<1>7. \A a, b \in 1 .. n + 1 : z[a] = z[b] => a = b
  <2>1. \A a \in 1 .. n + 1 : a \in 1 .. n \/ a = n + 1
    BY <1>2
  <2>2. QED
    BY ONLY <1>4, <1>5, <1>6, <2>1
<1>8. QED
  BY ONLY <1>3, <1>4, <1>7 DEF IsInjective

LEMMA MoveExact ==
  ASSUME NEW h, NEW cx, NEW f, NEW t, NEW c, NEW K, NEW F, NEW mk, NEW rk, NEW k,
         NEW r, NEW i, NEW N, NEW d, NEW cx1, NEW q, NEW g,
         Moves(h, cx, f, t, c, K, F, mk, rk, k, r, i, N, d, cx1, q, g), NEW P, Midway(h, cx, f, t, c, P)
  PROVE  /\ IsInjective(d.retired)
         /\ Accounts(Kids(g), Open(g, cx1), Opened(g, d), Gone(d), Quit(d), d.root, t, P)
<1>1. PICK C, C1, V, V1, M, G, o : /\ C = Kids(f) /\ C1 = Kids(g) /\ V = Others(h, cx, t) /\ V1 = Open(g, cx1)
                                   /\ M = Range(N) /\ G = Gone(c) /\ o = c.root
  OBVIOUS
<1>2. /\ Installs(C, V, C1, V1, c.cur, q, M, t) /\ Edge(C, c.cur, i) /\ C[c.cur][i] = q
  BY ONLY <1>1, Moves(h, cx, f, t, c, K, F, mk, rk, k, r, i, N, d, cx1, q, g), MoveInstalls
<1>3. /\ IsInjective(c.retired) /\ Accounts(C, V, {}, G, G, o, t, P) /\ o \in DOMAIN C /\ P \in DOMAIN C /\ P[1] < t
      /\ c.cur \in Below(C, V, o) /\ q \in Below(C, V, P)
  <2>1. q \in Below(C, V, P)
    BY ONLY <1>1, <1>2, Midway(h, cx, f, t, c, P) DEF Midway
  <2>2. DOMAIN C = DOMAIN f
    BY ONLY <1>1 DEF Kids
  <2>3. QED
    BY ONLY <1>1, <2>1, <2>2, Midway(h, cx, f, t, c, P) DEF Midway
<1>4. /\ Copies(f, c, GoneBut(cx, t, c), QuitBut(cx, t, c), V, mk, rk, k) /\ IsSeq(c.retired)
      /\ Updated(f, c, r, i, N) /\ AtStage(r.c, d) /\ t \in Nat /\ q = f[c.cur].chs[i]
  BY ONLY <1>1, Moves(h, cx, f, t, c, K, F, mk, rk, k, r, i, N, d, cx1, q, g) DEF Moves, Begins, Returns
<1>5. q \notin G
  <2>1. SUFFICES ASSUME q \in G PROVE FALSE
    OBVIOUS
  <2>2. GoneAbove(C, GoneBut(cx, t, c), QuitBut(cx, t, c)) /\ \A x \in Nat : c.cur \notin QuitBut(cx, t, c)[x]
    BY ONLY <1>1, <1>4 DEF Copies, Forest
  <2>3. q \in GoneBut(cx, t, c)[t]
    BY ONLY <1>1, <1>4, <2>1 DEF GoneBut
  <2>4. QED
    BY ONLY <1>2, <1>4, <2>2, <2>3 DEF GoneAbove
<1>6. d.retired = Append(c.retired, q) /\ d.root = o
  BY ONLY <1>1, <1>4 DEF Updated, AtStage
<1>7. IsInjective(d.retired)
  BY ONLY <1>1, <1>3, <1>4, <1>5, <1>6, AppendOnce DEF Gone
<1>8. /\ Gone(d) = G \cup {q} /\ (Moving(d) <=> ~ f[q].leaf) /\ d.past = q /\ Opened(g, d) = Later(f, q, N)
  <2>1. Landed(f, t, c, N, d, q, g)
    BY ONLY Moves(h, cx, f, t, c, K, F, mk, rk, k, r, i, N, d, cx1, q, g), MoveShape
  <2>2. QED
    BY ONLY <1>1, <2>1 DEF Landed
<1>9. Quit(d) \subseteq G \cup {q} /\ (q \in Quit(d) => C[q] = <<>>)
  <2>1. Quit(d) \subseteq G \cup {q} /\ (q \in Quit(d) => ~ Moving(d))
    BY ONLY <1>8 DEF Quit
  <2>2. ASSUME ~ Moving(d) PROVE C[q] = <<>>
    <3>1. f[q].leaf
      BY ONLY <1>8, <2>2
    <3>2. q \in DOMAIN f
      BY ONLY <1>1, <1>2 DEF Installs, Kids
    <3>3. IsNode(f[q])
      BY ONLY <1>4, <3>2 DEF Copies, CanUpdate
    <3>4. QED
      BY ONLY <1>1, <3>1, <3>2, <3>3 DEF Kids, IsNode
  <2>3. QED
    BY ONLY <2>1, <2>2
<1>10. c.cur \notin V1 /\ M \cap {c.cur} = {}
  BY ONLY <1>2 DEF Installs
<1>11. InstallsNext(C, V, G, Quit(d), c.cur, q, o, t, P)
  BY ONLY <1>3, <1>9 DEF InstallsNext
<1>12. PICK Q1 : Q1 = Quit(d)
  OBVIOUS
<1>13. Accounts(C1, V1, M, G \cup {q}, Q1, o, t, P)
  BY ONLY <1>2, <1>10, <1>11, <1>12, InstallAccounts
<1>14. Opened(g, d) \subseteq M
  BY ONLY <1>1, <1>8 DEF Later
<1>15. Accounts(C1, V1, Opened(g, d), G \cup {q}, Q1, o, t, P)
  BY ONLY <1>13, <1>14 DEF Accounts
<1>16. QED
  BY ONLY <1>1, <1>6, <1>7, <1>8, <1>12, <1>15

\* After update_cow no node is too large.
LEMMA MoveSized ==
  ASSUME NEW h, NEW cx, NEW f, NEW t, NEW c, NEW K, NEW F, NEW mk, NEW rk, NEW k,
         NEW r, NEW i, NEW N, NEW d, NEW cx1, NEW q, NEW g,
         Moves(h, cx, f, t, c, K, F, mk, rk, k, r, i, N, d, cx1, q, g), NEW P, Midway(h, cx, f, t, c, P)
  PROVE  Narrow(g) /\ (d.op = "down" => Len(g[d.past].chs) <= MaxKeys)
<1>1. /\ Copies(f, c, GoneBut(cx, t, c), QuitBut(cx, t, c), Others(h, cx, t), mk, rk, k) /\ c.sno = t
      /\ Updated(f, c, r, i, N) /\ AtStage(r.c, d) /\ t \in Nat /\ q = f[c.cur].chs[i] /\ g = r.heap
  BY ONLY Moves(h, cx, f, t, c, K, F, mk, rk, k, r, i, N, d, cx1, q, g) DEF Moves, Begins, Returns
<1>2. Installs(Kids(f), Others(h, cx, t), Kids(g), Open(g, cx1), c.cur, q, Range(N), t)
      /\ Len(g[c.cur].chs) <= Len(f[c.cur].chs) + 1
  BY ONLY Moves(h, cx, f, t, c, K, F, mk, rk, k, r, i, N, d, cx1, q, g), MoveInstalls
<1>3. /\ q \in DOMAIN f /\ DOMAIN g = DOMAIN f \cup Range(N) /\ c.cur \in DOMAIN f /\ q # c.cur
  <2>1. q \in DOMAIN f /\ DOMAIN g = DOMAIN f \cup Range(N)
    BY ONLY <1>1, CopySteps
  <2>2. c.cur \in DOMAIN f
    BY ONLY <1>1 DEF Copies, CanUpdate
  <2>3. c.cur[1] = t /\ q[1] < t
    BY ONLY <1>2 DEF Installs
  <2>4. QED
    BY ONLY <1>1, <2>1, <2>2, <2>3
<1>4. /\ \A n \in DOMAIN f : Len(f[n].chs) <= MaxKeys + 1
      /\ Len(f[c.cur].chs) <= MaxKeys
  BY ONLY Midway(h, cx, f, t, c, P) DEF Midway, Narrow
<1>5. MaxKeys \in Nat /\ Half \in Nat /\ Half - 1 + 1 <= MaxKeys
  BY NodeAssumption DEF MaxKeys
<1>6. \A n \in DOMAIN f : n # c.cur => g[n] = f[n]
  BY ONLY <1>1 DEF Updated
<1>7. Len(g[c.cur].chs) <= MaxKeys + 1
  <2>1. g[c.cur].chs \in Seq(DOMAIN g) /\ f[c.cur].chs \in Seq(DOMAIN f)
    BY ONLY <1>1, <1>3 DEF Updated, Copies, CanUpdate
  <2>2. PICK a, b \in Nat : a = Len(g[c.cur].chs) /\ b = Len(f[c.cur].chs)
    BY ONLY <2>1
  <2>3. QED
    BY ONLY <1>2, <1>4, <1>5, <2>2
<1>8. \A n \in DOMAIN f \cup Range(N) : IsNode(g[n])
  <2>1. \A n \in DOMAIN f : IsNode(f[n])
    BY ONLY <1>1 DEF Copies, CanUpdate
  <2>2. IsNode(g[c.cur]) /\ \A n \in Range(N) : IsNode(g[n])
    BY ONLY <1>1 DEF Updated
  <2>3. QED
    BY ONLY <1>6, <2>1, <2>2
<1>9. ASSUME ~ f[q].leaf, Len(f[q].keys) # MaxKeys
      PROVE  Len(f[q].chs) <= MaxKeys /\ Len(f[q].keys) + 1 <= MaxKeys /\ Len(f[q].keys) \in Nat
  <2>1. IsNode(f[q])
    BY ONLY <1>1, <1>3 DEF Copies, CanUpdate
  <2>2. IsSeq(f[q].keys) /\ Len(f[q].chs) = Len(f[q].keys) + 1
    BY ONLY <1>9, <2>1 DEF IsNode
  <2>3. PICK a \in Nat : a = Len(f[q].keys)
    BY ONLY <2>2, LengthIs
  <2>4. a + 1 <= MaxKeys + 1
    BY ONLY <1>3, <1>4, <2>2, <2>3
  <2>5. QED
    BY ONLY <1>5, <1>9, <2>2, <2>3, <2>4
<1>10. ASSUME NEW n \in Range(N) PROVE Len(g[n].chs) <= MaxKeys + 1
  <2>1. IsNode(g[n])
    BY ONLY <1>8, <1>10
  <2>2. CASE g[n].leaf
    BY ONLY <1>5, <2>1, <2>2 DEF IsNode
  <2>3. CASE ~ g[n].leaf
    <3>1. Len(g[n].chs) = Len(g[n].keys) + 1
      BY ONLY <2>1, <2>3 DEF IsNode
    <3>2. \/ Len(g[n].keys) = Half - 1
          \/ ~ f[q].leaf /\ Len(f[q].keys) # MaxKeys /\ Len(g[n].keys) = Len(f[q].keys)
      <4>1. \/ /\ f[q].leaf /\ \A m \in Range(N) : g[m].leaf
            \/ \A m \in Range(N) : Len(g[m].keys) = Half - 1
            \/ /\ ~ f[q].leaf /\ Len(f[q].keys) # MaxKeys /\ Len(N) = 1 /\ Len(g[N[1]].keys) = Len(f[q].keys)
        BY ONLY <1>1 DEF Updated
      <4>2. ASSUME Len(N) = 1 PROVE n = N[1]
        <5>1. N = <<New(c, 1)>> \/ N = <<New(c, 1), New(c, 2)>>
          BY ONLY <1>1 DEF Updated
        <5>2. N = <<New(c, 1)>>
          BY ONLY <4>2, <5>1
        <5>3. QED
          BY ONLY <1>10, <5>2 DEF Range
      <4>3. QED
        BY ONLY <1>10, <2>3, <4>1, <4>2
    <3>3. QED
      BY ONLY <1>5, <1>9, <3>1, <3>2
  <2>4. QED
    BY ONLY <2>2, <2>3
<1>11. Narrow(g)
  BY ONLY <1>3, <1>4, <1>6, <1>7, <1>10 DEF Narrow
<1>12. ASSUME d.op = "down" PROVE Len(g[d.past].chs) <= MaxKeys
  <2>1. r.c.op = "down" /\ d.past = q
    BY ONLY <1>1, <1>12 DEF Updated, AtStage
  <2>2. ~ f[q].leaf /\ Len(f[q].keys) # MaxKeys
    BY ONLY <1>1, <2>1 DEF Updated
  <2>3. g[q] = f[q]
    BY ONLY <1>3, <1>6
  <2>4. QED
    BY ONLY <1>9, <2>1, <2>2, <2>3
<1>13. QED
  BY ONLY <1>11, <1>12

\* Root P is that of the ticket before t, and ticket t does not change its own.
Follows(cx, fr, t, e, P) ==
  /\ P = RootOf(cx, fr, t - 1) /\ \A u \in DOMAIN cx \cup {t} : u \in Nat \ {0} /\ u - 1 \in {0} \cup DOMAIN cx
  /\ t \in DOMAIN cx => e.root = cx[t].root

LEMMA MoveAll ==
  ASSUME NEW h, NEW cx, NEW f, NEW t, NEW c, NEW K, NEW F, NEW mk, NEW rk, NEW k,
         NEW r, NEW i, NEW N, NEW d, NEW cx1, NEW q, NEW g, NEW fr, NEW np,
         Moves(h, cx, f, t, c, K, F, mk, rk, k, r, i, N, d, cx1, q, g), NEW P, Midway(h, cx, f, t, c, P),
         Follows(cx, fr, t, c, P), Good(h, cx, fr, np), Quiet(h, cx, g, cx1), ExactAll(h, cx, fr), Sized(h, cx)
  PROVE  ExactAll(g, cx1, fr) /\ Sized(g, cx1)
<1>1. Becomes(cx, cx1, t, d) /\ AtStage(r.c, d) /\ Updated(f, c, r, i, N)
  BY ONLY Moves(h, cx, f, t, c, K, F, mk, rk, k, r, i, N, d, cx1, q, g) DEF Moves, Returns
<1>2. DOMAIN cx1 = DOMAIN cx \cup {t} /\ cx1[t] = d /\ \A u \in DOMAIN cx \ {t} : cx1[u] = cx[u]
  BY ONLY <1>1 DEF Becomes
<1>3. /\ P = RootOf(cx, fr, t - 1) /\ \A u \in DOMAIN cx \cup {t} : u \in Nat \ {0} /\ u - 1 \in {0} \cup DOMAIN cx
      /\ t \in DOMAIN cx => c.root = cx[t].root
  BY ONLY Follows(cx, fr, t, c, P) DEF Follows
<1>4. d.root = c.root
  BY ONLY <1>1 DEF Updated, AtStage
<1>5. ASSUME NEW u \in DOMAIN cx \cup {t} PROVE RootOf(cx1, fr, u - 1) = RootOf(cx, fr, u - 1)
  <2>1. u - 1 = 0 \/ u - 1 \in DOMAIN cx
    BY ONLY <1>3, <1>5
  <2>2. CASE u - 1 = 0
    BY ONLY <2>2 DEF RootOf
  <2>3. CASE u - 1 \in DOMAIN cx /\ u - 1 # 0
    <3>1. cx1[u - 1].root = cx[u - 1].root
      BY ONLY <1>2, <1>3, <1>4, <2>3
    <3>2. QED
      BY ONLY <2>3, <3>1 DEF RootOf
  <2>4. QED
    BY ONLY <2>1, <2>2, <2>3
<1>6. Exact(g, cx1, fr, t)
  <2>1. /\ IsInjective(d.retired)
        /\ Accounts(Kids(g), Open(g, cx1), Opened(g, d), Gone(d), Quit(d), d.root, t, P)
    BY ONLY Moves(h, cx, f, t, c, K, F, mk, rk, k, r, i, N, d, cx1, q, g), Midway(h, cx, f, t, c, P), MoveExact
  <2>2. RootOf(cx1, fr, t - 1) = P
    BY ONLY <1>3, <1>5
  <2>3. QED
    BY ONLY <1>2, <2>1, <2>2 DEF Exact
<1>7. ASSUME NEW u \in DOMAIN cx \ {t} PROVE Exact(g, cx1, fr, u)
  <2>1. Result(h, cx, f, t, c, N, cx1, q, g)
    BY ONLY Moves(h, cx, f, t, c, K, F, mk, rk, k, r, i, N, d, cx1, q, g), MoveForest
  <2>2. Opened(g, cx1[u]) = Opened(h, cx[u]) /\ cx1[u] = cx[u]
    BY ONLY <1>7, <2>1 DEF Result, Steady
  <2>3. Idle(h, cx, g, cx1, fr, u)
    BY ONLY <1>3, <1>5, <1>7, <2>2 DEF Idle
  <2>4. Exact(h, cx, fr, u)
    BY ONLY <1>7, ExactAll(h, cx, fr) DEF ExactAll
  <2>5. QED
    BY ONLY <2>3, <2>4, Good(h, cx, fr, np), Quiet(h, cx, g, cx1), IdleExact
<1>8. ExactAll(g, cx1, fr)
  BY ONLY <1>2, <1>6, <1>7 DEF ExactAll
<1>9. Narrow(g) /\ (d.op = "down" => Len(g[d.past].chs) <= MaxKeys)
  BY ONLY Moves(h, cx, f, t, c, K, F, mk, rk, k, r, i, N, d, cx1, q, g), Midway(h, cx, f, t, c, P), MoveSized
<1>10. ASSUME NEW u \in DOMAIN cx \ {t}, cx1[u].op = "down" PROVE Len(g[cx1[u].past].chs) <= MaxKeys
  <2>1. u \in DOMAIN cx /\ cx[u].op = "down" /\ cx1[u].past = cx[u].past
    BY ONLY <1>2, <1>10
  <2>2. QED
    BY ONLY <2>1, Good(h, cx, fr, np), Quiet(h, cx, g, cx1), Sized(h, cx), SlimKept DEF Sized
<1>11. QED
  BY ONLY <1>2, <1>8, <1>9, <1>10 DEF Sized, Slim

\* What a ticket does, from the call of update_cow to the end of its handler.
LEMMA StartsExact ==
  ASSUME NEW h, NEW cx, NEW f, NEW t \in Nat \ {0}, NEW e, NEW K, NEW F, NEW fr, NEW np, NEW k,
         Starts(h, cx, f, t, e, K, F, fr, np, k), Good(h, cx, fr, np),
         NEW r, r = UpdateCow(f, e), NEW d, AtStage(r.c, d),
         NEW cx1, Becomes(cx, cx1, t, d), K \subseteq Open(h, cx),
         NEW P, Midway(h, cx, f, t, e, P), Follows(cx, fr, t, e, P), ExactAll(h, cx, fr), Sized(h, cx)
  PROVE  ExactAll(r.heap, cx1, fr) /\ Sized(r.heap, cx1)
<1>1. PICK mk, rk : Begins(h, cx, f, t, e, K, F, mk, rk, k)
  BY DEF Starts
<1>2. CanUpdate(f, e)
  BY <1>1 DEF Begins, Copies
<1>3. PICK i, N : Updated(f, e, r, i, N)
  BY <1>2, UpdateCowIs
<1>4. Returns(cx, f, t, e, r, i, N, d, cx1)
  BY <1>3 DEF Returns
<1>5. PICK q, g : q = f[e.cur].chs[i] /\ g = r.heap
  OBVIOUS
<1>6. Moves(h, cx, f, t, e, K, F, mk, rk, k, r, i, N, d, cx1, q, g)
  BY <1>1, <1>4, <1>5 DEF Moves
<1>7. Quiet(h, cx, g, cx1)
  BY ONLY <1>6, K \subseteq Open(h, cx), MoveQuiet
<1>8. ExactAll(g, cx1, fr) /\ Sized(g, cx1)
  BY ONLY <1>6, <1>7, Midway(h, cx, f, t, e, P), Follows(cx, fr, t, e, P), Good(h, cx, fr, np),
          ExactAll(h, cx, fr), Sized(h, cx), MoveAll
<1>9. QED
  BY ONLY <1>5, <1>8

\* The open nodes K of ticket t have got the children of the node that they replace.
Turns(h, cx, f, t, c, e, K, fr, np, P) ==
  /\ Ready(h, cx, t, fr, np) /\ c = cx[t] /\ K = Opened(h, c) /\ e.root = c.root /\ e.retired = c.retired /\ e.cur \in K
  /\ DOMAIN f = DOMAIN h /\ \A n \in DOMAIN h \ K : f[n] = h[n]
  /\ \A n \in K : /\ Len(f[n].chs) \in Nat /\ Len(f[n].chs) <= MaxKeys
                  /\ \A i : Edge(Kids(f), n, i) => \E j : Edge(Kids(h), c.past, j) /\ Kids(f)[n][i] = Kids(h)[c.past][j]
  /\ \A i : Edge(Kids(h), c.past, i) => \E z, j : z \in K /\ Edge(Kids(f), z, j) /\ Kids(f)[z][j] = Kids(h)[c.past][i]
  /\ P = RootOf(cx, fr, t - 1) /\ Exact(h, cx, fr, t) /\ Narrow(h)

\* Roots of tickets.
LEMMA RootsAre ==
  ASSUME NEW h, NEW cx, NEW fr, NEW np, Good(h, cx, fr, np), NEW t \in Nat \ {0}, t - 1 \in {0} \cup DOMAIN cx
  PROVE  /\ RootOf(cx, fr, t - 1) \in DOMAIN h /\ RootOf(cx, fr, t - 1)[1] < t
         /\ RootOf(cx, fr, t - 1) \notin Open(h, cx)
<1>1. Top(Kids(h), Retired(cx), Open(h, cx), RootOf(cx, fr, t - 1), t - 1) /\ Nodes(Kids(h), Open(h, cx))
  BY DEF Good, Rooted, Forest
<1>2. DOMAIN Kids(h) = DOMAIN h
  BY DEF Kids
<1>3. PICK P : P = RootOf(cx, fr, t - 1)
  OBVIOUS
<1>4. P \in DOMAIN h /\ P \notin Open(h, cx) /\ P[1] <= t - 1 /\ P[1] \in Nat
  BY ONLY <1>1, <1>2, <1>3 DEF Top, Nodes
<1>5. QED
  BY ONLY <1>3, <1>4, t \in Nat \ {0}

LEMMA TurnsMidway ==
  ASSUME NEW h, NEW cx, NEW f, NEW t, NEW c, NEW e, NEW K, NEW fr, NEW np, NEW P,
         Turns(h, cx, f, t, c, e, K, fr, np, P)
  PROVE  Midway(h, cx, f, t, e, P)
<1>1. /\ Ready(h, cx, t, fr, np) /\ c = cx[t] /\ K = Opened(h, c) /\ e.root = c.root /\ e.retired = c.retired /\ e.cur \in K
      /\ DOMAIN f = DOMAIN h /\ \A n \in DOMAIN h \ K : f[n] = h[n]
      /\ \A n \in K : /\ Len(f[n].chs) \in Nat /\ Len(f[n].chs) <= MaxKeys
                      /\ \A i : Edge(Kids(f), n, i) => \E j : Edge(Kids(h), c.past, j) /\ Kids(f)[n][i] = Kids(h)[c.past][j]
      /\ \A i : Edge(Kids(h), c.past, i) => \E z, j : z \in K /\ Edge(Kids(f), z, j) /\ Kids(f)[z][j] = Kids(h)[c.past][i]
      /\ P = RootOf(cx, fr, t - 1) /\ Exact(h, cx, fr, t) /\ Narrow(h)
  BY DEF Turns
<1>2. /\ Good(h, cx, fr, np) /\ t \in DOMAIN cx /\ Moving(c) /\ Shapes(h, cx) /\ Shape(h, t, c) /\ t \in Nat \ {0}
      /\ Built(h) /\ Settled(h, cx) /\ Forest(Kids(h), Retired(cx), Copied(cx), Open(h, cx)) /\ IsSeq(cx)
  BY ONLY <1>1 DEF Ready, Good, Shapes, Shape
<1>3. t - 1 \in {0} \cup DOMAIN cx
  <2>1. DOMAIN cx = 1 .. Len(cx) /\ Len(cx) \in Nat
    BY ONLY <1>2, LengthIs
  <2>2. QED
    BY ONLY <1>2, <2>1
<1>4. P \in DOMAIN h /\ P[1] < t
  BY ONLY <1>1, <1>2, <1>3, RootsAre
<1>5. PICK C, U, C1, V, G, Q, r, past :
        /\ C = Kids(h) /\ U = Open(h, cx) /\ C1 = Kids(f) /\ V = Others(h, cx, t)
        /\ G = Gone(c) /\ Q = Quit(c) /\ r = c.root /\ past = c.past
  OBVIOUS
<1>6. /\ DOMAIN C = DOMAIN h /\ DOMAIN C1 = DOMAIN h
      /\ \A p \in DOMAIN h : C[p] = h[p].chs /\ C1[p] = f[p].chs
  BY ONLY <1>1, <1>5 DEF Kids
<1>7. past \in G /\ past \in DOMAIN h /\ past \notin U /\ Q = G \ {past}
  <2>1. past \in G /\ past \in DOMAIN h
    BY ONLY <1>2, <1>5 DEF Shape, ShapeMoving
  <2>2. past \notin U
    BY ONLY <1>1, <1>2, <1>5 DEF Settled
  <2>3. QED
    BY ONLY <1>2, <1>5, <2>1, <2>2 DEF Quit
<1>8. K \subseteq U /\ V = U \ K
  BY ONLY <1>1, <1>2, <1>5, OpenParts
<1>9. Q \subseteq DOMAIN C \ U
  <2>1. Copied(cx)[t] = Q
    BY ONLY <1>1, <1>2, <1>5 DEF Copied
  <2>2. Retirements(C, Retired(cx), Copied(cx), U)
    BY ONLY <1>2, <1>5 DEF Forest
  <2>3. QED
    BY ONLY <1>2, <2>1, <2>2 DEF Retirements
<1>10. r \in DOMAIN C
  <2>1. Top(Kids(h), Retired(cx), Open(h, cx), RootOf(cx, fr, t), t)
    BY ONLY <1>2 DEF Good, Rooted
  <2>2. RootOf(cx, fr, t) = r
    BY ONLY <1>1, <1>2, <1>5 DEF RootOf
  <2>3. QED
    BY ONLY <1>5, <2>1, <2>2 DEF Top
<1>11. \A p \in DOMAIN C : C[p] \in Seq(DOMAIN C)
  BY ONLY <1>2, <1>6 DEF Built
<1>12. Spreads(C, U, C1, V)
  <2>1. \A p \in DOMAIN C \ U : C1[p] = C[p]
    BY ONLY <1>1, <1>6, <1>8
  <2>2. QED
    BY ONLY <1>6, <1>8, <1>11, <2>1 DEF Spreads
<1>13. \A n \in K : n[1] = t /\ n \notin V
  <2>1. \A n \in K : n[1] = t
    BY ONLY <1>1, <1>2, OpenedIs
  <2>2. QED
    BY ONLY <1>8, <2>1
<1>14. Fills(C, U, C1, V, K, Q, r, t, past)
  <2>1. \A i : Edge(C, past, i) => \E z, j : z \in K /\ Edge(C1, z, j) /\ C1[z][j] = C[past][i]
    BY ONLY <1>1, <1>5
  <2>2. QED
    BY ONLY <1>6, <1>7, <1>9, <1>10, <1>12, <1>13, <2>1 DEF Fills
<1>15. IsInjective(e.retired) /\ Accounts(C, U, K, G, Q, r, t, P)
  BY ONLY <1>1, <1>5 DEF Exact
<1>16. Accounts(C1, V, K, G, Q \cup {past}, r, t, P)
  BY ONLY <1>4, <1>6, <1>14, <1>15, FillAccounts
<1>17. Accounts(C1, V, {}, G, G, r, t, P) /\ e.cur \in Below(C1, V, r)
  <2>1. Q \cup {past} = G
    BY ONLY <1>7
  <2>2. QED
    BY ONLY <1>1, <1>16, <2>1 DEF Accounts
<1>18. ASSUME NEW i, Edge(C1, e.cur, i) PROVE C1[e.cur][i] \in Below(C1, V, P)
  <2>1. PICK j : Edge(C, past, j) /\ C1[e.cur][i] = C[past][j]
    BY ONLY <1>1, <1>5, <1>18
  <2>2. past \in Below(C, U, P)
    BY ONLY <1>7, <1>15 DEF Accounts
  <2>3. C[past][j] \in DOMAIN C
    BY ONLY <1>11, <2>1 DEF Edge
  <2>4. C[past][j] \in Below(C, U, P)
    BY ONLY <1>7, <2>1, <2>2, <2>3, BelowEdge
  <2>5. Below(C, U, P) \subseteq Below(C1, V, P)
    BY ONLY <1>4, <1>6, <1>12, BelowSpreads
  <2>6. QED
    BY ONLY <2>1, <2>4, <2>5
<1>19. Narrow(f)
  <2>1. MaxKeys \in Nat
    BY NodeAssumption DEF MaxKeys
  <2>2. QED
    BY ONLY <1>1, <2>1 DEF Narrow
<1>20. QED
  <2>1. Gone(e) = G
    BY ONLY <1>1, <1>5 DEF Gone
  <2>2. e.root \in DOMAIN f /\ P \in DOMAIN f /\ e.root = r
    BY ONLY <1>1, <1>4, <1>5, <1>6, <1>10
  <2>3. Len(f[e.cur].chs) <= MaxKeys
    BY ONLY <1>1
  <2>4. QED
    BY ONLY <1>4, <1>5, <1>15, <1>17, <1>18, <1>19, <2>1, <2>2, <2>3 DEF Midway

LEMMA DownTurns ==
  ASSUME NEW h, NEW cx, NEW t, NEW fr, NEW np, Ready(h, cx, t, fr, np), NEW c, c = cx[t], c.op = "down",
         NEW f, f = [h EXCEPT ![c.cur].chs = h[c.past].chs], Exact(h, cx, fr, t), Sized(h, cx),
         NEW P, P = RootOf(cx, fr, t - 1)
  PROVE  Turns(h, cx, f, t, c, c, {c.cur}, fr, np, P)
<1>1. /\ t \in DOMAIN cx /\ Moving(c) /\ Shape(h, t, c) /\ Built(h)
  BY DEF Ready, Good, Shapes
<1>2. c.cur \in DOMAIN h /\ c.past \in DOMAIN h
  BY ONLY <1>1 DEF Shape, ShapeMoving
<1>3. DOMAIN f = DOMAIN h /\ (\A n \in DOMAIN h \ {c.cur} : f[n] = h[n])
  BY ONLY f = [h EXCEPT ![c.cur].chs = h[c.past].chs]
<1>4. f[c.cur].chs = h[c.past].chs
  <2>1. f[c.cur] = [h[c.cur] EXCEPT !.chs = h[c.past].chs]
    BY ONLY <1>2, f = [h EXCEPT ![c.cur].chs = h[c.past].chs]
  <2>2. IsNode(h[c.cur])
    BY ONLY <1>1, <1>2 DEF Built
  <2>3. PICK n, cs : n = h[c.cur] /\ cs = h[c.past].chs
    OBVIOUS
  <2>4. n = [ver |-> n.ver, leaf |-> n.leaf, keys |-> n.keys, vals |-> n.vals, chs |-> n.chs,
             ready |-> n.ready, slots |-> n.slots]
    BY ONLY <2>2, <2>3 DEF IsNode
  <2>5. [n EXCEPT !.chs = cs].chs = cs
    BY ONLY <2>4
  <2>6. QED
    BY ONLY <2>1, <2>3, <2>5
<1>5. Len(h[c.past].chs) \in Nat /\ Len(h[c.past].chs) <= MaxKeys
  <2>1. Len(h[c.past].chs) \in Nat
    <3>1. h[c.past].chs \in Seq(DOMAIN h)
      BY ONLY <1>1, <1>2 DEF Built
    <3>2. QED
      BY ONLY <3>1
  <2>2. Len(h[c.past].chs) <= MaxKeys
    BY ONLY Sized(h, cx), <1>1, c = cx[t], c.op = "down" DEF Sized, Slim
  <2>3. QED
    BY ONLY <2>1, <2>2
<1>6. Opened(h, c) = {c.cur}
  BY ONLY c.op = "down" DEF Opened
<1>7. Kids(f)[c.cur] = Kids(h)[c.past] /\ c.cur \in DOMAIN Kids(f) /\ c.past \in DOMAIN Kids(h)
  BY ONLY <1>2, <1>3, <1>4 DEF Kids
<1>8. \A i : Edge(Kids(f), c.cur, i) => Edge(Kids(h), c.past, i) /\ Kids(f)[c.cur][i] = Kids(h)[c.past][i]
  BY ONLY <1>7 DEF Edge
<1>9. \A i : Edge(Kids(h), c.past, i) => Edge(Kids(f), c.cur, i) /\ Kids(f)[c.cur][i] = Kids(h)[c.past][i]
  BY ONLY <1>7 DEF Edge
<1>10. Narrow(h)
  BY DEF Sized
<1>11. QED
  BY ONLY Ready(h, cx, t, fr, np), c = cx[t], <1>3, <1>4, <1>5, <1>6, <1>8, <1>9, <1>10,
          P = RootOf(cx, fr, t - 1), Exact(h, cx, fr, t) DEF Turns

LEMMA SplitTurns ==
  ASSUME NEW h, NEW cx, NEW t, NEW fr, NEW np, NEW c, NEW n, NEW m, NEW a, NEW b, NEW x, NEW y, NEW f, NEW e,
         Ready(h, cx, t, fr, np), c = cx[t], c.op = "split", Divided(h, c, n, m, a, b, x, y, f, e),
         Exact(h, cx, fr, t), Sized(h, cx), NEW P, P = RootOf(cx, fr, t - 1)
  PROVE  Turns(h, cx, f, t, c, e, {n, m}, fr, np, P)
<1> /\ n = h[c.cur].chs[c.idx] /\ m = h[c.cur].chs[c.idx + 1] /\ x \in {n, m} /\ y \in {n, m}
    /\ a = SplitChs(h[c.past].chs)[1] /\ b = SplitChs(h[c.past].chs)[2]
    /\ f = [h EXCEPT ![n].chs = a, ![m].chs = b, ![x].ready = TRUE]
    /\ e = [c EXCEPT !.cur = y]
  BY DEF Divided
<1>1. t \in DOMAIN cx /\ Moving(c) /\ Shape(h, t, c) /\ Built(h)
  BY DEF Ready, Good, Shapes
<1>2. ShapeMoving(h, t, c) /\ ShapeSplit(h, t, c) /\ IsContext(c)
  BY <1>1 DEF Shape
<1>3. Opened(h, c) = {n, m}
  BY DEF Opened
<1>4. /\ c.past \in DOMAIN h /\ ~ h[c.past].leaf /\ Len(h[c.past].keys) = MaxKeys /\ n # m
      /\ n \in DOMAIN h /\ ~ h[n].leaf /\ Len(h[n].keys) = Half - 1
      /\ m \in DOMAIN h /\ ~ h[m].leaf /\ Len(h[m].keys) = Half - 1
  BY <1>2, <1>3 DEF ShapeMoving, ShapeSplit
<1>5. PICK ps : ps = h[c.past].chs
  OBVIOUS
<1>6. IsNode(h[n]) /\ IsNode(h[m]) /\ IsNode(h[c.past]) /\ ps \in Seq(DOMAIN h)
  BY ONLY <1>1, <1>4, <1>5 DEF Built
<1>7. Len(ps) = MaxKeys + 1
  BY ONLY <1>4, <1>5, <1>6 DEF IsNode
<1>8. /\ a \in Seq(DOMAIN h) /\ Len(a) = Half /\ \A k \in 1 .. Half : k \in 1 .. MaxKeys + 1 /\ a[k] = ps[k]
      /\ b \in Seq(DOMAIN h) /\ Len(b) = Half
      /\ \A k \in 1 .. Half : Half + k \in 1 .. MaxKeys + 1 /\ b[k] = ps[Half + k]
  <2>1. \A j \in {1, 2} : /\ SplitChs(ps)[j] \in Seq(DOMAIN h) /\ Len(SplitChs(ps)[j]) = Half
                          /\ \A k \in 1 .. Half : /\ (j - 1) * Half + k \in 1 .. MaxKeys + 1
                                                  /\ SplitChs(ps)[j][k] = ps[(j - 1) * Half + k]
    BY ONLY <1>6, <1>7, SplitChsIs
  <2>3. a = SplitChs(ps)[1] /\ b = SplitChs(ps)[2]
    BY <1>5
  <2>4. \A k \in 1 .. Half : k \in Nat /\ (1 - 1) * Half + k = k /\ (2 - 1) * Half + k = Half + k
    BY ONLY NodeAssumption
  <2>5. 1 \in {1, 2} /\ 2 \in {1, 2}
    OBVIOUS
  <2>6. /\ a \in Seq(DOMAIN h) /\ Len(a) = Half
        /\ \A k \in 1 .. Half : (1 - 1) * Half + k \in 1 .. MaxKeys + 1 /\ a[k] = ps[(1 - 1) * Half + k]
    BY ONLY <2>1, <2>3, <2>5
  <2>7. /\ b \in Seq(DOMAIN h) /\ Len(b) = Half
        /\ \A k \in 1 .. Half : (2 - 1) * Half + k \in 1 .. MaxKeys + 1 /\ b[k] = ps[(2 - 1) * Half + k]
    BY ONLY <2>1, <2>3, <2>5
  <2>8. ASSUME NEW k \in 1 .. Half
        PROVE  k \in 1 .. MaxKeys + 1 /\ a[k] = ps[k] /\ Half + k \in 1 .. MaxKeys + 1 /\ b[k] = ps[Half + k]
    BY ONLY <2>4, <2>6, <2>7, <2>8
  <2>9. QED
    BY ONLY <2>6, <2>7, <2>8
<1>9. DOMAIN f = DOMAIN h /\ (\A z \in DOMAIN h \ {n, m} : f[z] = h[z]) /\ f[n].chs = a /\ f[m].chs = b
  <2>1. IsSeq(a) /\ IsSeq(b) /\ Len(a) = Len(h[n].keys) + 1 /\ Len(b) = Len(h[m].keys) + 1
    BY ONLY <1>4, <1>8, NodeAssumption DEF IsSeq
  <2>2. f = [h EXCEPT ![n].chs = a, ![m].chs = b, ![x].ready = TRUE] /\ x \in {n, m}
    OBVIOUS
  <2>3. TwoHalves(h, n, m, a, b, x, f)
    BY ONLY <1>4, <1>6, <2>1, <2>2 DEF TwoHalves
  <2>4. TwoFilled(h, n, m, a, b, f)
    BY ONLY <2>3, HalvesAre
  <2>5. QED
    BY ONLY <2>4 DEF TwoFilled
<1>10. Half \in Nat /\ Half <= MaxKeys /\ MaxKeys + 1 = Half + Half /\ MaxKeys \in Nat
  BY ONLY NodeAssumption DEF MaxKeys
<1>11. DOMAIN a = 1 .. Half /\ DOMAIN b = 1 .. Half /\ DOMAIN ps = 1 .. MaxKeys + 1
  BY ONLY <1>6, <1>7, <1>8, <1>10
<1>12. Kids(f)[n] = a /\ Kids(f)[m] = b /\ Kids(h)[c.past] = ps /\ n \in DOMAIN Kids(f) /\ m \in DOMAIN Kids(f)
       /\ c.past \in DOMAIN Kids(h)
  BY ONLY <1>4, <1>5, <1>9 DEF Kids
<1>13. \A z \in {n, m} : Len(f[z].chs) \in Nat /\ Len(f[z].chs) <= MaxKeys
  BY ONLY <1>8, <1>9, <1>10
<1>14. ASSUME NEW z \in {n, m}, NEW i, Edge(Kids(f), z, i)
       PROVE  \E j : Edge(Kids(h), c.past, j) /\ Kids(f)[z][i] = Kids(h)[c.past][j]
  <2>1. CASE z = n
    <3>1. i \in 1 .. Half /\ Kids(f)[z][i] = a[i]
      BY ONLY <1>11, <1>12, <1>14, <2>1 DEF Edge
    <3>2. i \in DOMAIN ps /\ a[i] = ps[i]
      BY ONLY <1>8, <1>11, <3>1
    <3>3. QED
      BY ONLY <1>12, <3>1, <3>2 DEF Edge
  <2>2. CASE z = m
    <3>1. i \in 1 .. Half /\ Kids(f)[z][i] = b[i]
      BY ONLY <1>11, <1>12, <1>14, <2>2 DEF Edge
    <3>2. Half + i \in DOMAIN ps /\ b[i] = ps[Half + i]
      BY ONLY <1>8, <1>11, <3>1
    <3>3. QED
      BY ONLY <1>12, <3>1, <3>2 DEF Edge
  <2>3. QED
    BY ONLY <1>14, <2>1, <2>2
<1>15. ASSUME NEW i, Edge(Kids(h), c.past, i)
       PROVE  \E z, j : z \in {n, m} /\ Edge(Kids(f), z, j) /\ Kids(f)[z][j] = Kids(h)[c.past][i]
  <2>1. i \in 1 .. MaxKeys + 1 /\ Kids(h)[c.past][i] = ps[i]
    BY ONLY <1>11, <1>12, <1>15 DEF Edge
  <2>2. CASE i <= Half
    <3>1. i \in 1 .. Half
      BY ONLY <1>10, <2>1, <2>2
    <3>2. Edge(Kids(f), n, i) /\ Kids(f)[n][i] = ps[i]
      BY ONLY <1>8, <1>11, <1>12, <3>1 DEF Edge
    <3>3. QED
      BY ONLY <2>1, <3>2
  <2>3. CASE i > Half
    <3>1. i - Half \in 1 .. Half /\ Half + (i - Half) = i
      BY ONLY <1>10, <2>1, <2>3
    <3>2. PICK j : j = i - Half
      OBVIOUS
    <3>3. j \in 1 .. Half /\ Half + j = i
      BY ONLY <3>1, <3>2
    <3>4. Edge(Kids(f), m, j) /\ Kids(f)[m][j] = ps[i]
      BY ONLY <1>8, <1>11, <1>12, <3>3 DEF Edge
    <3>5. QED
      BY ONLY <2>1, <3>4
  <2>4. QED
    BY ONLY <1>10, <2>1, <2>2, <2>3
<1>16. e.cur = y /\ e.root = c.root /\ e.retired = c.retired /\ y \in {n, m}
  BY <1>2 DEF IsContext, Fields
<1>17. Narrow(h)
  BY DEF Sized
<1>18. QED
  BY ONLY Ready(h, cx, t, fr, np), c = cx[t], <1>3, <1>9, <1>13, <1>14, <1>15, <1>16, <1>17,
          P = RootOf(cx, fr, t - 1), Exact(h, cx, fr, t) DEF Turns

\* A handler that goes down keeps the accounts.
LEMMA HandlersExact ==
  ASSUME NEW h, NEW cx, NEW t, NEW fr, NEW np, NEW r, NEW d, NEW cx1,
         GoesOn(h, cx, t, fr, np, r, d, cx1), ExactAll(h, cx, fr), Sized(h, cx)
  PROVE  ExactAll(r.heap, cx1, fr) /\ Sized(r.heap, cx1)
<1>1. /\ Ready(h, cx, t, fr, np) /\ r = Handle(h, cx[t]) /\ AtStage(r.c, d) /\ Becomes(cx, cx1, t, d)
  BY DEF GoesOn
<1>2. PICK c, P : c = cx[t] /\ P = RootOf(cx, fr, t - 1)
  OBVIOUS
<1>3. Good(h, cx, fr, np) /\ Shapes(h, cx) /\ t \in DOMAIN cx /\ Moving(c)
  BY ONLY <1>1, <1>2 DEF Ready, Good
<1>4. t \in Nat \ {0} /\ \A u \in DOMAIN cx \cup {t} : u \in Nat \ {0} /\ u - 1 \in {0} \cup DOMAIN cx
  <2>1. DOMAIN cx = 1 .. Len(cx) /\ Len(cx) \in Nat
    BY ONLY <1>3, LengthIs DEF Good
  <2>2. QED
    BY ONLY <1>3, <2>1
<1>5. Exact(h, cx, fr, t)
  BY ONLY <1>3, ExactAll(h, cx, fr) DEF ExactAll
<1>6. CASE c.op = "down"
  <2>1. PICK f : f = [h EXCEPT ![c.cur].chs = h[c.past].chs]
    OBVIOUS
  <2>2. r = UpdateCow(f, c)
    BY ONLY <1>1, <1>2, <1>6, <2>1 DEF Handle, HandleDown
  <2>3. Starts(h, cx, f, t, c, {c.cur}, {}, fr, np, Place(c, np) + 1)
    BY ONLY <1>1, <1>2, <1>6, <2>1, DownStarts
  <2>4. Turns(h, cx, f, t, c, c, {c.cur}, fr, np, P)
    BY ONLY <1>1, <1>2, <1>5, <1>6, <2>1, Sized(h, cx), DownTurns
  <2>5. Midway(h, cx, f, t, c, P)
    BY ONLY <2>4, TurnsMidway
  <2>6. {c.cur} \subseteq Open(h, cx)
    <3>1. Opened(h, c) = {c.cur}
      BY ONLY <1>6 DEF Opened
    <3>2. QED
      BY ONLY <1>2, <1>3, <3>1 DEF Open
  <2>7. Follows(cx, fr, t, c, P)
    BY ONLY <1>2, <1>4 DEF Follows
  <2>8. QED
    BY ONLY <1>1, <1>3, <1>4, <2>2, <2>3, <2>5, <2>6, <2>7, ExactAll(h, cx, fr), Sized(h, cx), StartsExact
<1>7. CASE c.op = "split"
  <2>1. PICK n, m, a, b, x, y, f, e :
           Divided(h, c, n, m, a, b, x, y, f, e) /\ HandleSplit(h, c) = UpdateCow(f, e)
    BY SplitIs
  <2>2. r = UpdateCow(f, e)
    BY ONLY <1>1, <1>2, <1>7, <2>1 DEF Handle
  <2>3. Starts(h, cx, f, t, e, {n, m}, {}, fr, np, Place(c, np) + 1)
    BY ONLY <1>1, <1>2, <1>7, <2>1, SplitStarts
  <2>4. Turns(h, cx, f, t, c, e, {n, m}, fr, np, P)
    BY ONLY <1>1, <1>2, <1>5, <1>7, <2>1, Sized(h, cx), SplitTurns
  <2>5. Midway(h, cx, f, t, e, P)
    BY ONLY <2>4, TurnsMidway
  <2>6. {n, m} \subseteq Open(h, cx)
    <3>1. Opened(h, c) = {n, m}
      BY ONLY <2>4 DEF Turns
    <3>2. QED
      BY ONLY <1>2, <1>3, <3>1 DEF Open
  <2>7. Follows(cx, fr, t, e, P)
    <3>1. e.root = c.root
      BY ONLY <2>4 DEF Turns
    <3>2. QED
      BY ONLY <1>2, <1>4, <3>1 DEF Follows
  <2>8. QED
    BY ONLY <1>1, <1>3, <1>4, <2>2, <2>3, <2>5, <2>6, <2>7, ExactAll(h, cx, fr), Sized(h, cx), StartsExact
<1>8. QED
  BY ONLY <1>3, <1>6, <1>7 DEF Moving

\* So does an entry that copies an inner root.
LEMMA EnterMidway ==
  ASSUME NEW h, NEW cx, NEW f, NEW t, NEW e, NEW F, NEW fr, NEW np, NEW P, Roots(h, cx, t, P, fr, np),
         RootCopied(h, t, P, f, e, F), Narrow(h)
  PROVE  Midway(h, cx, f, t, e, P)
<1>1. /\ Good(h, cx, fr, np) /\ Built(h) /\ Forest(Kids(h), Retired(cx), Copied(cx), Open(h, cx))
  BY DEF Roots, Good
<1>2. Untouched(h, cx, t, P)
  BY RootIs
<1>3. PICK C, C1, U : C = Kids(h) /\ C1 = Kids(f) /\ U = Open(h, cx)
  OBVIOUS
<1>4. P \in DOMAIN h /\ P \notin U /\ P[1] < t /\ Others(h, cx, t) = U
  BY ONLY <1>2, <1>3 DEF Untouched
<1>5. PICK V :
      /\ V \subseteq F /\ e.root \in F /\ e.cur \in V /\ e.retired = <<P>>
      /\ DOMAIN f = DOMAIN h \cup F /\ F \cap DOMAIN h = {} /\ (\A n \in DOMAIN h : f[n] = h[n])
      /\ (\A n \in F : n[1] = t /\ Len(f[n].chs) \in Nat /\ Len(f[n].chs) <= MaxKeys)
      /\ (\A z \in V : z = e.root \/ \E j : Edge(C1, e.root, j) /\ C1[e.root][j] = z)
      /\ (\A z, i : z \in V /\ Edge(C1, z, i) => \E j : Edge(C, P, j) /\ C1[z][i] = C[P][j])
      /\ Len(h[P].chs) <= MaxKeys + 1 =>
           \A i : Edge(C, P, i) => \E z, j : z \in V /\ Edge(C1, z, j) /\ C1[z][j] = C[P][i]
  BY ONLY <1>3, RootCopied(h, t, P, f, e, F) DEF RootCopied, RootParts
<1>6. /\ DOMAIN C = DOMAIN h /\ DOMAIN C1 = DOMAIN h \cup F /\ \A n \in DOMAIN h : C[n] = h[n].chs /\ C1[n] = C[n]
  BY ONLY <1>3, <1>5 DEF Kids
<1>7. U \subseteq DOMAIN h
  BY ONLY <1>1, <1>3, <1>6 DEF Forest, Nodes
<1>8. C[P] \in Seq(DOMAIN h) /\ C1[P] = C[P] /\ Len(h[P].chs) <= MaxKeys + 1
  BY ONLY <1>1, <1>4, <1>6, Narrow(h) DEF Built, Narrow
<1>9. ASSUME NEW z \in V PROVE z \in Below(C1, U, e.root) /\ z[1] = t /\ z \notin U
  <2>1. z \in F /\ z \notin U /\ e.root \notin U /\ e.root \in DOMAIN C1 /\ z \in DOMAIN C1 /\ z[1] = t
    BY ONLY <1>5, <1>6, <1>7, <1>9
  <2>2. e.root \in Below(C1, U, e.root)
    BY ONLY <2>1, BelowRoot
  <2>3. CASE z = e.root
    BY ONLY <2>1, <2>2, <2>3
  <2>4. CASE \E j : Edge(C1, e.root, j) /\ C1[e.root][j] = z
    <3>1. PICK j : Edge(C1, e.root, j) /\ C1[e.root][j] = z
      BY ONLY <2>4
    <3>2. QED
      BY ONLY <2>1, <2>2, <3>1, BelowEdge
  <2>5. QED
    BY ONLY <1>5, <1>9, <2>3, <2>4
<1>10. P \in Below(C1, U, P) /\ P \in DOMAIN C1
  BY ONLY <1>4, <1>6, BelowRoot
<1>11. ASSUME NEW i, Edge(C1, P, i) PROVE Handed(C1, U, e.root, t, C1[P][i])
  <2>1. Edge(C, P, i) /\ C1[P][i] = C[P][i]
    BY ONLY <1>4, <1>6, <1>8, <1>11 DEF Edge
  <2>2. PICK z, j : z \in V /\ Edge(C1, z, j) /\ C1[z][j] = C[P][i]
    BY ONLY <1>5, <1>8, <2>1
  <2>3. QED
    BY ONLY <1>9, <2>1, <2>2 DEF Handed
<1>12. Gone(e) = {P} /\ IsInjective(e.retired)
  BY ONLY <1>5 DEF Gone, Range, IsInjective
<1>13. Accounts(C1, U, {}, Gone(e), Gone(e), e.root, t, P)
  BY ONLY <1>10, <1>11, <1>12 DEF Accounts
<1>14. ASSUME NEW i, Edge(C1, e.cur, i) PROVE C1[e.cur][i] \in Below(C1, U, P)
  <2>1. PICK j : Edge(C, P, j) /\ C1[e.cur][i] = C[P][j]
    BY ONLY <1>5, <1>14
  <2>2. Edge(C1, P, j) /\ C1[P][j] = C[P][j] /\ C1[P][j] \in DOMAIN C1
    BY ONLY <1>6, <1>8, <1>10, <2>1 DEF Edge
  <2>3. QED
    BY ONLY <1>4, <1>10, <2>1, <2>2, BelowEdge
<1>15. MaxKeys \in Nat
  BY NodeAssumption DEF MaxKeys
<1>16. Narrow(f)
  <2>1. ASSUME NEW n \in DOMAIN f PROVE Len(f[n].chs) <= MaxKeys + 1
    <3>1. CASE n \in DOMAIN h
      BY ONLY <1>5, <3>1, Narrow(h) DEF Narrow
    <3>2. CASE n \in F
      BY ONLY <1>5, <1>15, <3>2
    <3>3. QED
      BY ONLY <1>5, <2>1, <3>1, <3>2
  <2>2. QED
    BY ONLY <2>1 DEF Narrow
<1>17. e.root \in DOMAIN f /\ P \in DOMAIN f /\ Len(f[e.cur].chs) <= MaxKeys
  BY ONLY <1>4, <1>5
<1>18. e.cur \in Below(C1, U, e.root)
  BY ONLY <1>5, <1>9
<1>19. QED
  BY ONLY <1>3, <1>4, <1>12, <1>13, <1>14, <1>16, <1>17, <1>18 DEF Midway

LEMMA InnerEntry ==
  ASSUME NEW h, NEW cx, NEW c, NEW t, NEW P, NEW fr, NEW np, Enter(h, cx, c, t, P, fr, np), c.pos = 1, c.at = "pipe",
         ~ h[P].leaf, NEW r, r = HandleInit(h, c), NEW cx1, Becomes(cx, cx1, t, r.c),
         ExactAll(h, cx, fr), Sized(h, cx)
  PROVE  ExactAll(r.heap, cx1, fr) /\ Sized(r.heap, cx1)
<1>1. /\ Roots(h, cx, t, P, fr, np) /\ Good(h, cx, fr, np) /\ t \in Nat \ {0} /\ DOMAIN cx = 1 .. t - 1
      /\ P = RootOf(cx, fr, t - 1) /\ c.past = P
  BY DEF Enter, Roots
<1>2. Goes(h, cx, c, t, fr, np)
  <2>1. CASE Len(h[P].keys) < MaxKeys
    BY <2>1, InnerRoot
  <2>2. CASE ~ (Len(h[P].keys) < MaxKeys)
    BY <2>2, FullRoot
  <2>3. QED
    BY <2>1, <2>2
<1>3. PICK f, e, F : /\ Starts(h, cx, f, t, e, {}, F, fr, np, 1) /\ HandleInit(h, c) = UpdateCow(f, e)
                     /\ SameTicket(c, e) /\ RootCopied(h, t, P, f, e, F)
  BY ONLY <1>1, <1>2 DEF Goes
<1>4. r = UpdateCow(f, e)
  BY ONLY <1>3, r = HandleInit(h, c)
<1>5. CanUpdate(f, e)
  BY ONLY <1>3 DEF Starts, Begins, Copies
<1>6. SameTicket(e, r.c)
  BY ONLY <1>4, <1>5, UpdateCowIs DEF Updated
<1>7. IsContext(r.c) /\ r.c.pos = 1 /\ r.c.at = "pipe"
  BY ONLY <1>3, <1>6, c.pos = 1, c.at = "pipe" DEF SameTicket
<1>8. PICK d : d = r.c
  OBVIOUS
<1>9. AtStage(r.c, d) /\ Becomes(cx, cx1, t, d)
  BY ONLY <1>7, <1>8, Becomes(cx, cx1, t, r.c) DEF AtStage
<1>10. Narrow(h)
  BY DEF Sized
<1>11. Midway(h, cx, f, t, e, P)
  BY ONLY <1>1, <1>3, <1>10, EnterMidway
<1>12. Follows(cx, fr, t, e, P)
  <2>1. \A u \in DOMAIN cx \cup {t} : u \in Nat \ {0} /\ u - 1 \in {0} \cup DOMAIN cx
    BY ONLY <1>1
  <2>2. t \notin DOMAIN cx
    BY ONLY <1>1
  <2>3. QED
    BY ONLY <1>1, <2>1, <2>2 DEF Follows
<1>13. {} \subseteq Open(h, cx)
  OBVIOUS
<1>14. QED
  BY ONLY <1>1, <1>3, <1>4, <1>9, <1>11, <1>12, <1>13, ExactAll(h, cx, fr), Sized(h, cx), StartsExact

\* A new ticket does not disturb the others.
LEMMA OthersIdle ==
  ASSUME NEW h, NEW cx, NEW t \in Nat \ {0}, NEW fr, NEW np, Good(h, cx, fr, np), DOMAIN cx = 1 .. t - 1,
         NEW d, NEW cx1, Becomes(cx, cx1, t, d), NEW g, Quiet(h, cx, g, cx1),
         \A u \in DOMAIN cx : Opened(g, cx[u]) = Opened(h, cx[u]), ExactAll(h, cx, fr), NEW u \in DOMAIN cx
  PROVE  Exact(g, cx1, fr, u)
<1>1. cx1[u] = cx[u] /\ \A v \in DOMAIN cx : cx1[v] = cx[v]
  BY DEF Becomes
<1>2. u - 1 \in {0} \cup DOMAIN cx
  OBVIOUS
<1>3. RootOf(cx1, fr, u - 1) = RootOf(cx, fr, u - 1)
  <2>1. CASE u - 1 = 0
    BY ONLY <2>1 DEF RootOf
  <2>2. CASE u - 1 # 0
    BY ONLY <1>1, <1>2, <2>2 DEF RootOf
  <2>3. QED
    BY ONLY <2>1, <2>2
<1>4. Idle(h, cx, g, cx1, fr, u)
  BY <1>1, <1>2, <1>3 DEF Idle
<1>5. QED
  BY <1>4, IdleExact DEF ExactAll

\* The entry replaces a leaf: the new root is finished, the old one had no children.
LEMMA LeafExact ==
  ASSUME NEW h, NEW cx, NEW t, NEW P, NEW fr, NEW np, NEW F, NEW o, NEW g, NEW d, NEW cx1,
         LeafEnters(h, cx, t, P, fr, np, F, o, g, d, cx1), ExactAll(h, cx, fr), Sized(h, cx)
  PROVE  ExactAll(g, cx1, fr) /\ Sized(g, cx1)
<1>1. /\ Roots(h, cx, t, P, fr, np) /\ LeafGrown(h, t, P, F, o, g) /\ LeafContext(g, t, P, o, d)
      /\ Becomes(cx, cx1, t, d) /\ Good(h, cx, fr, np) /\ t \in Nat \ {0} /\ DOMAIN cx = 1 .. t - 1
      /\ P = RootOf(cx, fr, t - 1) /\ Built(h)
  BY DEF LeafEnters, Roots, Good
<1>2. LeafResult(h, cx, t, P, F, g, cx1) /\ Quiet(h, cx, g, cx1)
  BY LeafShapes, LeafGood
<1>3. DOMAIN cx1 = DOMAIN cx \cup {t} /\ cx1[t] = d /\ t \notin DOMAIN cx /\ \A u \in DOMAIN cx : cx1[u] = cx[u]
  BY ONLY <1>1 DEF Becomes
<1>4. /\ o \in F /\ DOMAIN g = DOMAIN h \cup F /\ (\A n \in DOMAIN h : g[n] = h[n]) /\ h[P].leaf
      /\ \A n \in F : Len(g[n].chs) \in {0, 2}
  BY ONLY <1>1 DEF LeafGrown
<1>5. d.retired = <<P>> /\ d.root = o /\ d.op \in {"done", "materialize"}
  BY ONLY <1>1 DEF LeafContext
<1>6. P \in DOMAIN h /\ P \notin Open(h, cx)
  BY ONLY <1>1, RootIs DEF Untouched
<1>7. Exact(g, cx1, fr, t)
  <2>1. PICK C, U : C = Kids(g) /\ U = Open(g, cx1)
    OBVIOUS
  <2>2. DOMAIN C = DOMAIN g /\ C[P] = <<>> /\ P \in DOMAIN C /\ o \in DOMAIN C
    <3>1. h[P].chs = <<>>
      BY ONLY <1>1, <1>4, <1>6 DEF Built, IsNode
    <3>2. QED
      BY ONLY <1>4, <1>6, <2>1, <3>1 DEF Kids
  <2>3. P \in Below(C, U, P)
    BY ONLY <2>2, BelowRoot
  <2>4. Gone(d) = {P} /\ Quit(d) = {P} /\ Opened(g, d) = {} /\ IsInjective(d.retired)
    <3>1. Gone(d) = {P} /\ IsInjective(d.retired)
      BY ONLY <1>5 DEF Gone, Range, IsInjective
    <3>2. QED
      BY ONLY <1>5, <3>1 DEF Quit, Moving, Opened
  <2>5. Accounts(C, U, {}, {P}, {P}, o, t, P)
    <3>1. \A i : ~ Edge(C, P, i)
      BY ONLY <2>2 DEF Edge
    <3>2. QED
      BY ONLY <2>3, <3>1 DEF Accounts
  <2>6. RootOf(cx1, fr, t - 1) = P
    <3>1. CASE t - 1 = 0
      BY ONLY <1>1, <3>1 DEF RootOf
    <3>2. CASE t - 1 # 0
      <4>1. t - 1 \in DOMAIN cx
        BY ONLY <1>1, <3>2
      <4>2. QED
        BY ONLY <1>1, <1>3, <3>2, <4>1 DEF RootOf
    <3>3. QED
      BY ONLY <3>1, <3>2
  <2>7. QED
    BY ONLY <1>3, <1>5, <2>1, <2>4, <2>5, <2>6 DEF Exact
<1>8. ASSUME NEW u \in DOMAIN cx PROVE Exact(g, cx1, fr, u)
  <2>1. \A v \in DOMAIN cx : Opened(g, cx[v]) = Opened(h, cx[v])
    BY ONLY <1>2 DEF LeafResult
  <2>2. QED
    BY ONLY <1>1, <1>2, <1>8, <2>1, ExactAll(h, cx, fr), OthersIdle
<1>9. Narrow(g)
  <2>1. MaxKeys \in Nat /\ MaxKeys >= 3
    BY NodeAssumption DEF MaxKeys
  <2>2. ASSUME NEW n \in DOMAIN g PROVE Len(g[n].chs) <= MaxKeys + 1
    <3>1. CASE n \in DOMAIN h
      BY ONLY <1>4, <3>1, Sized(h, cx) DEF Sized, Narrow
    <3>2. CASE n \in F
      <4>1. PICK l : l = Len(g[n].chs)
        OBVIOUS
      <4>2. l = 0 \/ l = 2
        BY ONLY <1>4, <3>2, <4>1
      <4>3. l <= MaxKeys + 1
        BY ONLY <2>1, <4>2
      <4>4. QED
        BY ONLY <4>1, <4>3
    <3>3. QED
      BY ONLY <1>4, <2>2, <3>1, <3>2
  <2>3. QED
    BY ONLY <2>2 DEF Narrow
<1>10. ASSUME NEW u \in DOMAIN cx, cx1[u].op = "down" PROVE Len(g[cx1[u].past].chs) <= MaxKeys
  <2>1. cx[u].op = "down" /\ cx1[u].past = cx[u].past
    BY ONLY <1>3, <1>10
  <2>2. QED
    BY ONLY <1>1, <1>2, <1>10, <2>1, Sized(h, cx), SlimKept DEF Sized
<1>11. QED
  BY ONLY <1>3, <1>5, <1>7, <1>8, <1>9, <1>10 DEF ExactAll, Sized, Slim

\* Whatever the root is, the entry keeps the accounts.
LEMMA EntryExact ==
  ASSUME NEW h, NEW cx, NEW c, NEW t, NEW P, NEW fr, NEW np, Enter(h, cx, c, t, P, fr, np),
         c.pos = 1, c.at = "pipe", NEW r, r = HandleInit(h, c), NEW cx1, Becomes(cx, cx1, t, r.c), IsSeq(cx1),
         ExactAll(h, cx, fr), Sized(h, cx)
  PROVE  ExactAll(r.heap, cx1, fr) /\ Sized(r.heap, cx1)
<1>1. CASE h[P].leaf
  <2>1. Roots(h, cx, t, P, fr, np)
    BY DEF Enter
  <2>2. PICK F, o : LeafGrown(h, t, P, F, o, r.heap) /\ LeafContext(r.heap, t, P, o, r.c)
    BY <1>1, LeafRoot DEF LeafMade
  <2>3. LeafEnters(h, cx, t, P, fr, np, F, o, r.heap, r.c, cx1)
    BY <2>1, <2>2 DEF LeafEnters
  <2>4. PICK g, d : g = r.heap /\ d = r.c
    OBVIOUS
  <2>5. LeafEnters(h, cx, t, P, fr, np, F, o, g, d, cx1)
    BY ONLY <2>3, <2>4
  <2>6. ExactAll(g, cx1, fr) /\ Sized(g, cx1)
    BY ONLY <2>5, ExactAll(h, cx, fr), Sized(h, cx), LeafExact
  <2>7. QED
    BY ONLY <2>4, <2>6
<1>2. CASE ~ h[P].leaf
  BY <1>2, InnerEntry
<1>3. QED
  BY <1>1, <1>2

\* Steps that leave the graph alone.
LEMMA StillExact ==
  ASSUME NEW h, NEW cx, NEW fr, NEW np, NEW g, NEW t \in DOMAIN cx, NEW d, NEW cx1, Good(h, cx, fr, np),
         Alike(h, g), Stays(cx[t], d, np), Becomes(cx, cx1, t, d), Quiet(h, cx, g, cx1),
         ExactAll(h, cx, fr), Sized(h, cx)
  PROVE  ExactAll(g, cx1, fr) /\ Sized(g, cx1)
<1>1. DOMAIN cx1 = DOMAIN cx /\ cx1[t] = d /\ \A u \in DOMAIN cx : u # t => cx1[u] = cx[u]
  BY DEF Becomes
<1>2. Shapes(h, cx)
  BY DEF Good
<1>3. DOMAIN g = DOMAIN h /\ \A n \in DOMAIN h : g[n].chs = h[n].chs
  BY DEF Alike
<1>4. ASSUME NEW u \in DOMAIN cx
      PROVE  /\ cx1[u].root = cx[u].root /\ cx1[u].retired = cx[u].retired /\ Quit(cx1[u]) = Quit(cx[u])
             /\ Opened(g, cx1[u]) = Opened(h, cx[u])
             /\ (cx1[u].op = "down" => cx[u].op = "down") /\ cx1[u].past = cx[u].past
  <2>1. CASE u = t
    <3>1. Shape(h, t, cx[t])
      BY ONLY <1>2, t \in DOMAIN cx DEF Shapes
    <3>2. Shape(h, t, d) /\ Opened(h, d) = Opened(h, cx[t]) /\ Quit(d) = Quit(cx[t])
      BY ONLY <3>1, Stays(cx[t], d, np), StaysShape
    <3>3. Opened(g, d) = Opened(h, d)
      BY ONLY <3>2, Alike(h, g), AlikeOpened
    <3>4. QED
      BY ONLY <1>1, <2>1, <3>2, <3>3, Stays(cx[t], d, np) DEF Stays
  <2>2. CASE u # t
    <3>1. Opened(g, cx[u]) = Opened(h, cx[u])
      BY ONLY <1>2, <1>4, Alike(h, g), AlikeOpened DEF Shapes
    <3>2. QED
      BY ONLY <1>1, <1>4, <2>2, <3>1
  <2>3. QED
    BY ONLY <2>1, <2>2
<1>5. \A u \in DOMAIN cx : u - 1 \in {0} \cup DOMAIN cx
  <2>1. DOMAIN cx = 1 .. Len(cx) /\ Len(cx) \in Nat
    BY LengthIs DEF Good
  <2>2. QED
    BY ONLY <2>1
<1>6. ASSUME NEW u \in DOMAIN cx PROVE Exact(g, cx1, fr, u)
  <2>1. RootOf(cx1, fr, u - 1) = RootOf(cx, fr, u - 1)
    <3>1. CASE u - 1 = 0
      BY ONLY <3>1 DEF RootOf
    <3>2. CASE u - 1 # 0
      <4>1. u - 1 \in DOMAIN cx
        BY ONLY <1>5, <1>6, <3>2
      <4>2. cx1[u - 1].root = cx[u - 1].root
        BY ONLY <1>4, <4>1
      <4>3. QED
        BY ONLY <3>2, <4>2 DEF RootOf
    <3>3. QED
      BY ONLY <3>1, <3>2
  <2>2. Idle(h, cx, g, cx1, fr, u)
    BY ONLY <1>4, <1>5, <1>6, <2>1 DEF Idle
  <2>3. QED
    BY ONLY <1>6, <2>2, Good(h, cx, fr, np), Quiet(h, cx, g, cx1), ExactAll(h, cx, fr), IdleExact DEF ExactAll
<1>7. Narrow(g)
  BY ONLY <1>3, Sized(h, cx) DEF Sized, Narrow
<1>8. ASSUME NEW u \in DOMAIN cx, cx1[u].op = "down" PROVE Len(g[cx1[u].past].chs) <= MaxKeys
  <2>1. cx[u].op = "down" /\ cx1[u].past = cx[u].past
    BY ONLY <1>4, <1>8
  <2>2. QED
    BY ONLY <1>8, <2>1, Good(h, cx, fr, np), Quiet(h, cx, g, cx1), Sized(h, cx), SlimKept DEF Sized
<1>9. QED
  BY ONLY <1>1, <1>6, <1>7, <1>8 DEF ExactAll, Sized, Slim

\* A new ticket that keeps the root has replaced nothing.
LEMMA ArrivesExact ==
  ASSUME NEW h, NEW cx, NEW fr, NEW np, NEW g, NEW t, NEW d, NEW cx1, Good(h, cx, fr, np),
         Alike(h, g), Arrives(g, cx, d, t, fr), Becomes(cx, cx1, t, d), Quiet(h, cx, g, cx1),
         ExactAll(h, cx, fr), Sized(h, cx)
  PROVE  ExactAll(g, cx1, fr) /\ Sized(g, cx1)
<1>1. t \in Nat \ {0} /\ DOMAIN cx = 1 .. t - 1 /\ d.op \in {"append", "done"} /\ d.retired = <<>>
      /\ d.root = RootOf(cx, fr, t - 1)
  BY DEF Arrives
<1>2. DOMAIN cx1 = DOMAIN cx \cup {t} /\ cx1[t] = d /\ \A u \in DOMAIN cx : cx1[u] = cx[u]
  <2>1. t \notin DOMAIN cx
    BY ONLY <1>1
  <2>2. QED
    BY ONLY <2>1, Becomes(cx, cx1, t, d) DEF Becomes
<1>3. DOMAIN g = DOMAIN h /\ \A n \in DOMAIN h : g[n].chs = h[n].chs
  BY DEF Alike
<1>4. Exact(g, cx1, fr, t)
  <2>1. Gone(d) = {} /\ IsInjective(d.retired)
    BY ONLY <1>1 DEF Gone, Range, IsInjective
  <2>2. Quit(d) = {} /\ Opened(g, d) = {}
    BY ONLY <1>1, <2>1 DEF Quit, Moving, Opened
  <2>3. RootOf(cx1, fr, t - 1) = d.root
    <3>1. CASE t - 1 = 0
      BY ONLY <1>1, <3>1 DEF RootOf
    <3>2. CASE t - 1 # 0
      <4>1. t - 1 \in DOMAIN cx
        BY ONLY <1>1, <3>2
      <4>2. QED
        BY ONLY <1>1, <1>2, <3>2, <4>1 DEF RootOf
    <3>3. QED
      BY ONLY <3>1, <3>2
  <2>4. Accounts(Kids(g), Open(g, cx1), {}, {}, {}, d.root, t, d.root)
    BY DEF Accounts
  <2>5. QED
    BY ONLY <1>2, <2>1, <2>2, <2>3, <2>4 DEF Exact
<1>5. ASSUME NEW u \in DOMAIN cx PROVE Exact(g, cx1, fr, u)
  <2>1. \A v \in DOMAIN cx : Opened(g, cx[v]) = Opened(h, cx[v])
    BY ONLY Good(h, cx, fr, np), Alike(h, g), AlikeOpened DEF Good, Shapes
  <2>2. QED
    BY ONLY <1>1, <1>5, <2>1, Good(h, cx, fr, np), Becomes(cx, cx1, t, d), Quiet(h, cx, g, cx1), ExactAll(h, cx, fr),
            OthersIdle
<1>6. Narrow(g)
  BY ONLY <1>3, Sized(h, cx) DEF Sized, Narrow
<1>7. ASSUME NEW u \in DOMAIN cx, cx1[u].op = "down" PROVE Len(g[cx1[u].past].chs) <= MaxKeys
  <2>1. cx[u].op = "down" /\ cx1[u].past = cx[u].past
    BY ONLY <1>2, <1>7
  <2>2. QED
    BY ONLY <1>7, <2>1, Good(h, cx, fr, np), Quiet(h, cx, g, cx1), Sized(h, cx), SlimKept DEF Sized
<1>8. QED
  BY ONLY <1>1, <1>2, <1>4, <1>5, <1>6, <1>7 DEF ExactAll, Sized, Slim

-----------------------------------------------------------------------------
(***************************************************************************)
(* The inductive invariant: h and cx are heap and ctx, fr the first root,  *)
(* np is nPipes and com is committed.                                      *)
(***************************************************************************)
Sound(h, cx, fr, np, com) ==
  Good(h, cx, fr, np) /\ Timed(cx, np, com) /\ Appends(h, cx, fr) /\ ExactAll(h, cx, fr) /\ Sized(h, cx)

\* The ticket before is far enough for ticket t to be where d is.
Timely(cx, np, t, d) ==
  /\ Stage(d, np) /\ d.pos >= cx[t].pos /\ (cx[t].at = "finished" => d.at = "finished")
  /\ \A u \in DOMAIN cx : u < t => cx[u].pos >= np \/ cx[u].pos > d.pos

LEMMA TimelyTimed ==
  ASSUME NEW cx, NEW np, NEW com, Timed(cx, np, com), NEW t \in DOMAIN cx, NEW d, NEW cx1, Becomes(cx, cx1, t, d),
         Timely(cx, np, t, d)
  PROVE  Timed(cx1, np, com)
<1>1. /\ Stage(d, np) /\ d.pos >= cx[t].pos /\ (cx[t].at = "finished" => d.at = "finished")
      /\ \A u \in DOMAIN cx : u < t => cx[u].pos >= np \/ cx[u].pos > d.pos
  BY DEF Timely
<1>2. QED
  BY <1>1, TimedStep

LEMMA AlikeOpen ==
  ASSUME NEW h, NEW g, NEW cx, Shapes(h, cx), Alike(h, g)
  PROVE  Open(g, cx) = Open(h, cx)
<1>1. \A u \in DOMAIN cx : Opened(g, cx[u]) = Opened(h, cx[u])
  BY AlikeOpened DEF Shapes
<1>2. QED
  BY ONLY <1>1, Zenon DEF Open

\* Ticket t does not touch the graph.
Still(h, cx, fr, np, com, g, t, d, cx1) ==
  /\ Sound(h, cx, fr, np, com) /\ t \in DOMAIN cx /\ Alike(h, g) /\ Stays(cx[t], d, np)
  /\ Becomes(cx, cx1, t, d) /\ IsSeq(cx1) /\ Timely(cx, np, t, d)

LEMMA StillSound ==
  ASSUME NEW h, NEW cx, NEW fr, NEW np, NEW com, NEW g, NEW t, NEW d, NEW cx1,
         Still(h, cx, fr, np, com, g, t, d, cx1)
  PROVE  Sound(g, cx1, fr, np, com)
<1>1. /\ Good(h, cx, fr, np) /\ Timed(cx, np, com) /\ Appends(h, cx, fr) /\ ExactAll(h, cx, fr) /\ Sized(h, cx)
      /\ t \in DOMAIN cx /\ Alike(h, g) /\ Stays(cx[t], d, np)
      /\ Becomes(cx, cx1, t, d) /\ IsSeq(cx1) /\ Timely(cx, np, t, d)
  BY DEF Still, Sound
<1>2. Good(h, cx1, fr, np)
  BY ONLY <1>1, StaysGood
<1>3. Good(g, cx1, fr, np)
  BY ONLY <1>1, <1>2, AlikeGood
<1>4. Timed(cx1, np, com)
  BY ONLY <1>1, TimelyTimed
<1>5. Quiet(h, cx, g, cx1)
  <2>1. Open(h, cx1) = Open(h, cx)
    BY ONLY <1>1, StaysAgrees DEF Good, Agree
  <2>2. Open(g, cx1) = Open(h, cx1)
    BY ONLY <1>1, <1>2, AlikeOpen DEF Good
  <2>3. DOMAIN g = DOMAIN h /\ \A n \in DOMAIN h : g[n].chs = h[n].chs
    BY ONLY <1>1 DEF Alike
  <2>4. QED
    BY ONLY <2>1, <2>2, <2>3 DEF Quiet
<1>6. NewPaths(h, cx, cx1, fr)
  <2>1. DOMAIN cx1 = DOMAIN cx /\ cx1[t] = d /\ \A u \in DOMAIN cx : u # t => cx1[u] = cx[u]
    BY ONLY <1>1 DEF Becomes
  <2>2. d.root = cx[t].root /\ d.past = cx[t].past /\ d.cur = cx[t].cur /\ (d.op = "append" => cx[t].op = "append")
    BY ONLY <1>1 DEF Stays
  <2>3. \A u \in DOMAIN cx : u - 1 \in {0} \cup DOMAIN cx /\ u - 1 + 1 = u
    BY ONLY <1>1 DEF Timed
  <2>4. \A u \in DOMAIN cx : cx1[u].root = cx[u].root
    BY ONLY <2>1, <2>2
  <2>5. ASSUME NEW u \in DOMAIN cx, cx1[u].op = "append" PROVE OnPath(h, cx, fr, u, cx1[u])
    <3>1. cx[u].op = "append" /\ cx1[u].past = cx[u].past /\ cx1[u].cur = cx[u].cur
      BY ONLY <2>1, <2>2, <2>5
    <3>2. OnPath(h, cx, fr, u, cx[u])
      BY ONLY <1>1, <3>1, u \in DOMAIN cx DEF Appends
    <3>3. QED
      BY ONLY <3>1, <3>2 DEF OnPath
  <2>6. QED
    BY ONLY <2>1, <2>3, <2>4, <2>5 DEF NewPaths
<1>7. Appends(g, cx1, fr)
  BY ONLY <1>1, <1>5, <1>6, AppendsKept
<1>8. ExactAll(g, cx1, fr) /\ Sized(g, cx1)
  BY ONLY <1>1, <1>5, StillExact
<1>9. QED
  BY ONLY <1>3, <1>4, <1>7, <1>8 DEF Sound

\* Ticket t copies its next node.
Copying(h, cx, fr, np, com, g, t, d, cx1) ==
  /\ Sound(h, cx, fr, np, com)
  /\ \E r : GoesOn(h, cx, t, fr, np, r, d, cx1) /\ g = r.heap /\ d.op = r.c.op /\ d.root = r.c.root
  /\ Timely(cx, np, t, d)

LEMMA CopyingSound ==
  ASSUME NEW h, NEW cx, NEW fr, NEW np, NEW com, NEW g, NEW t, NEW d, NEW cx1,
         Copying(h, cx, fr, np, com, g, t, d, cx1)
  PROVE  Sound(g, cx1, fr, np, com)
<1>1. PICK r : /\ GoesOn(h, cx, t, fr, np, r, d, cx1) /\ g = r.heap /\ d.op = r.c.op /\ d.root = r.c.root
               /\ Good(h, cx, fr, np) /\ Timed(cx, np, com) /\ Appends(h, cx, fr)
               /\ ExactAll(h, cx, fr) /\ Sized(h, cx) /\ Timely(cx, np, t, d)
  BY DEF Copying, Sound
<1>2. Good(g, cx1, fr, np) /\ Quiet(h, cx, g, cx1)
  <2>1. Good(r.heap, cx1, fr, np) /\ Quiet(h, cx, r.heap, cx1)
    BY ONLY <1>1, HandlersGoOn
  <2>2. QED
    BY ONLY <1>1, <2>1
<1>3. Ready(h, cx, t, fr, np) /\ r = Handle(h, cx[t]) /\ Becomes(cx, cx1, t, d) /\ t \in DOMAIN cx
  BY ONLY <1>1 DEF GoesOn, Ready
<1>4. Timed(cx1, np, com)
  BY ONLY <1>1, <1>3, TimelyTimed
<1>5. r.c.root = cx[t].root /\ r.c.op \in {"down", "split", "materialize", "done"}
  BY ONLY <1>3, HandlerContinues DEF Continues
<1>6. NewPaths(h, cx, cx1, fr)
  <2>1. DOMAIN cx1 = DOMAIN cx /\ cx1[t] = d /\ \A u \in DOMAIN cx : u # t => cx1[u] = cx[u]
    BY ONLY <1>3 DEF Becomes
  <2>2. d.root = cx[t].root /\ d.op # "append"
    BY ONLY <1>1, <1>5
  <2>3. \A u \in DOMAIN cx : u - 1 \in {0} \cup DOMAIN cx /\ u - 1 + 1 = u
    BY ONLY <1>1 DEF Timed
  <2>4. \A u \in DOMAIN cx : cx1[u].root = cx[u].root
    BY ONLY <2>1, <2>2
  <2>5. ASSUME NEW u \in DOMAIN cx, cx1[u].op = "append" PROVE OnPath(h, cx, fr, u, cx1[u])
    <3>1. cx1[u] = cx[u]
      BY ONLY <2>1, <2>2, <2>5
    <3>2. QED
      BY ONLY <1>1, <2>5, <3>1, u \in DOMAIN cx DEF Appends
  <2>6. QED
    BY ONLY <2>1, <2>3, <2>4, <2>5 DEF NewPaths
<1>7. Appends(g, cx1, fr)
  BY ONLY <1>1, <1>2, <1>6, AppendsKept
<1>8. ExactAll(g, cx1, fr) /\ Sized(g, cx1)
  <2>1. ExactAll(r.heap, cx1, fr) /\ Sized(r.heap, cx1)
    BY ONLY <1>1, HandlersExact
  <2>2. QED
    BY ONLY <1>1, <2>1
<1>9. QED
  BY ONLY <1>2, <1>4, <1>7, <1>8 DEF Sound

\* Ticket t enters, and copies the root.
Entering(h, cx, fr, np, com, g, t, d, cx1) ==
  /\ Sound(h, cx, fr, np, com)
  /\ \E c, P, r : /\ Enter(h, cx, c, t, P, fr, np) /\ c.pos = 1 /\ c.at = "pipe" /\ r = HandleInit(h, c)
                  /\ g = r.heap /\ d = r.c
  /\ Becomes(cx, cx1, t, d) /\ IsSeq(cx1)
  /\ \A u \in DOMAIN cx : cx[u].pos >= np \/ cx[u].pos >= 2

LEMMA EnteringSound ==
  ASSUME NEW h, NEW cx, NEW fr, NEW np, NEW com, NEW g, NEW t, NEW d, NEW cx1,
         Entering(h, cx, fr, np, com, g, t, d, cx1)
  PROVE  Sound(g, cx1, fr, np, com)
<1>1. PICK c, P, r : /\ Enter(h, cx, c, t, P, fr, np) /\ c.pos = 1 /\ c.at = "pipe" /\ r = HandleInit(h, c)
                     /\ g = r.heap /\ d = r.c
                     /\ Becomes(cx, cx1, t, d) /\ IsSeq(cx1)
                     /\ Good(h, cx, fr, np) /\ Timed(cx, np, com) /\ Appends(h, cx, fr)
                     /\ ExactAll(h, cx, fr) /\ Sized(h, cx)
                     /\ \A u \in DOMAIN cx : cx[u].pos >= np \/ cx[u].pos >= 2
  BY DEF Entering, Sound
<1>2. Good(g, cx1, fr, np) /\ Quiet(h, cx, g, cx1)
  <2>1. Becomes(cx, cx1, t, r.c)
    BY ONLY <1>1
  <2>2. Good(r.heap, cx1, fr, np) /\ Quiet(h, cx, r.heap, cx1)
    BY ONLY <1>1, <2>1, EntryGood
  <2>3. QED
    BY ONLY <1>1, <2>2
<1>3. t \in Nat \ {0} /\ DOMAIN cx = 1 .. t - 1
  BY ONLY <1>1 DEF Enter, Roots
<1>4. d.pos = 1 /\ d.at = "pipe" /\ d.op # "append"
  <2>1. Continues(c, r.c)
    BY ONLY <1>1, EntryContinues
  <2>2. QED
    BY ONLY <1>1, <2>1 DEF Continues, SameTicket
<1>5. Timed(cx1, np, com)
  BY ONLY <1>1, <1>3, <1>4, TimedEntry
<1>6. NewPaths(h, cx, cx1, fr)
  <2>1. t \notin DOMAIN cx
    BY ONLY <1>3
  <2>2. DOMAIN cx1 = DOMAIN cx \cup {t} /\ cx1[t] = d /\ \A u \in DOMAIN cx : cx1[u] = cx[u]
    BY ONLY <1>1, <2>1 DEF Becomes
  <2>3. \A u \in DOMAIN cx \cup {t} : u - 1 \in {0} \cup DOMAIN cx /\ u - 1 + 1 = u
    BY ONLY <1>3
  <2>4. ASSUME NEW u \in DOMAIN cx1, cx1[u].op = "append" PROVE OnPath(h, cx, fr, u, cx1[u])
    <3>1. u \in DOMAIN cx /\ cx1[u] = cx[u]
      BY ONLY <1>4, <2>2, <2>4
    <3>2. QED
      BY ONLY <1>1, <2>4, <3>1 DEF Appends
  <2>5. QED
    BY ONLY <2>2, <2>3, <2>4 DEF NewPaths
<1>7. Appends(g, cx1, fr)
  BY ONLY <1>1, <1>2, <1>6, AppendsKept
<1>8. ExactAll(g, cx1, fr) /\ Sized(g, cx1)
  <2>1. Becomes(cx, cx1, t, r.c)
    BY ONLY <1>1
  <2>2. ExactAll(r.heap, cx1, fr) /\ Sized(r.heap, cx1)
    BY ONLY <1>1, <2>1, EntryExact
  <2>3. QED
    BY ONLY <1>1, <2>2
<1>9. QED
  BY ONLY <1>2, <1>5, <1>7, <1>8 DEF Sound

\* Ticket t enters, and takes a slot of a leaf.
Appending(h, cx, fr, np, com, g, t, d, cx1) ==
  /\ Sound(h, cx, fr, np, com) /\ Alike(h, g) /\ Arrives(g, cx, d, t, fr)
  /\ d.op = "append" => OnPath(h, cx, fr, t, d)
  /\ Becomes(cx, cx1, t, d) /\ IsSeq(cx1) /\ d.pos = 1 /\ d.at = "pipe"
  /\ \A u \in DOMAIN cx : cx[u].pos >= np \/ cx[u].pos >= 2

LEMMA AppendingSound ==
  ASSUME NEW h, NEW cx, NEW fr, NEW np, NEW com, NEW g, NEW t, NEW d, NEW cx1,
         Appending(h, cx, fr, np, com, g, t, d, cx1)
  PROVE  Sound(g, cx1, fr, np, com)
<1>1. /\ Good(h, cx, fr, np) /\ Timed(cx, np, com) /\ Appends(h, cx, fr) /\ ExactAll(h, cx, fr) /\ Sized(h, cx)
      /\ Alike(h, g) /\ Arrives(g, cx, d, t, fr)
      /\ d.op = "append" => OnPath(h, cx, fr, t, d)
      /\ Becomes(cx, cx1, t, d) /\ IsSeq(cx1) /\ d.pos = 1 /\ d.at = "pipe"
      /\ \A u \in DOMAIN cx : cx[u].pos >= np \/ cx[u].pos >= 2
  BY DEF Appending, Sound
<1>2. Good(g, cx, fr, np)
  BY ONLY <1>1, AlikeGood
<1>3. Good(g, cx1, fr, np)
  BY ONLY <1>1, <1>2, ArrivesGood
<1>4. t \in Nat \ {0} /\ DOMAIN cx = 1 .. t - 1 /\ d.op \in {"append", "done"}
  BY ONLY <1>1 DEF Arrives
<1>5. Timed(cx1, np, com)
  BY ONLY <1>1, <1>4, TimedEntry
<1>6. DOMAIN cx1 = DOMAIN cx \cup {t} /\ cx1[t] = d /\ \A u \in DOMAIN cx : cx1[u] = cx[u]
  <2>1. t \notin DOMAIN cx
    BY ONLY <1>4
  <2>2. QED
    BY ONLY <1>1, <2>1 DEF Becomes
<1>7. Quiet(h, cx, g, cx1)
  <2>1. Open(g, cx1) \subseteq Open(g, cx)
    <3>1. Opened(g, d) = {}
      BY ONLY <1>4 DEF Opened
    <3>2. QED
      BY ONLY <1>6, <3>1 DEF Open
  <2>2. Open(g, cx) = Open(h, cx)
    BY ONLY <1>1, AlikeOpen DEF Good
  <2>3. DOMAIN g = DOMAIN h /\ \A n \in DOMAIN h : g[n].chs = h[n].chs
    BY ONLY <1>1 DEF Alike
  <2>4. QED
    BY ONLY <2>1, <2>2, <2>3 DEF Quiet
<1>8. NewPaths(h, cx, cx1, fr)
  <2>1. \A u \in DOMAIN cx \cup {t} : u - 1 \in {0} \cup DOMAIN cx /\ u - 1 + 1 = u
    BY ONLY <1>4
  <2>2. ASSUME NEW u \in DOMAIN cx1, cx1[u].op = "append" PROVE OnPath(h, cx, fr, u, cx1[u])
    <3>1. CASE u = t
      BY ONLY <1>1, <1>6, <2>2, <3>1
    <3>2. CASE u # t
      <4>1. u \in DOMAIN cx /\ cx1[u] = cx[u]
        BY ONLY <1>6, <2>2, <3>2
      <4>2. QED
        BY ONLY <1>1, <2>2, <4>1 DEF Appends
    <3>3. QED
      BY ONLY <3>1, <3>2
  <2>3. QED
    BY ONLY <1>6, <2>1, <2>2 DEF NewPaths
<1>9. Appends(g, cx1, fr)
  BY ONLY <1>1, <1>7, <1>8, AppendsKept
<1>10. ExactAll(g, cx1, fr) /\ Sized(g, cx1)
  BY ONLY <1>1, <1>7, ArrivesExact
<1>11. QED
  BY ONLY <1>3, <1>5, <1>9, <1>10 DEF Sound

CowInv == Sound(heap, ctx, first.root, nPipes, committed)

LEMMA RootIsRootOf ==
  ASSUME NEW t
  PROVE  Root(t) = RootOf(ctx, first.root, t)
BY DEF Root, RootOf

LEMMA FreedIs ==
  ASSUME CowInv, NEW n \in Freed
  PROVE  \E x \in Nat : x \in DOMAIN ctx /\ x <= committed /\ n \in Retired(ctx)[x]
<1>1. PICK x \in 1 .. committed : n \in Range(ctx[x].retired)
  BY DEF Freed
<1>2. \E l \in Nat : DOMAIN ctx = 1 .. l /\ committed <= l /\ committed \in Nat
  BY DEF CowInv, Sound, Timed
<1>3. x \in Nat /\ x <= committed /\ x \in DOMAIN ctx
  BY ONLY <1>1, <1>2
<1>4. n \in Retired(ctx)[x]
  BY ONLY <1>1, <1>3 DEF Retired, Gone
<1>5. QED
  BY ONLY <1>3, <1>4

\* The next entry meets nothing freed.
LEMMA EntrySafe ==
  ASSUME CowInv
  PROVE  Reach(heap, Root(Len(ctx))) \cap Freed = {}
<1>1. Good(heap, ctx, first.root, nPipes) /\ IsSeq(ctx)
  BY DEF CowInv, Sound, Good
<1>2. PICK l \in Nat : l = Len(ctx) /\ DOMAIN ctx = 1 .. l
  BY ONLY <1>1, LengthIs
<1>3. PICK r : r = RootOf(ctx, first.root, l)
  OBVIOUS
<1>4. l \in {0} \cup DOMAIN ctx
  BY ONLY <1>2
<1>5. Top(Kids(heap), Retired(ctx), Open(heap, ctx), r, l)
  BY ONLY <1>1, <1>3, <1>4 DEF Good, Rooted
<1>6. PICK rk : Ranked(Kids(heap), rk)
  BY ONLY <1>1 DEF Good, Labels
<1>7. r \in DOMAIN heap /\ Built(heap) /\ Forest(Kids(heap), Retired(ctx), Copied(ctx), Open(heap, ctx))
  BY ONLY <1>1, <1>5 DEF Good, Top, Kids
<1>8. Reach(heap, r) = Below(Kids(heap), {}, r)
  BY ONLY <1>6, <1>7, ReachIs
<1>9. ASSUME NEW n \in Below(Kids(heap), {}, r), n \in Freed PROVE FALSE
  <2>1. PICK x \in Nat : x \in DOMAIN ctx /\ n \in Retired(ctx)[x]
    BY <1>9, FreedIs
  <2>2. x <= l
    BY ONLY <1>2, <2>1
  <2>3. n \notin Retired(ctx)[x]
    BY ONLY <1>5, <1>7, <1>9, <2>2, l \in Nat, BelowKept
  <2>4. QED
    BY ONLY <2>1, <2>3
<1>10. Root(Len(ctx)) = r
  BY ONLY <1>2, <1>3, RootIsRootOf
<1>11. QED
  BY ONLY <1>8, <1>9, <1>10

\* What ticket t has replaced, no committed ticket has; nor what it has made.
LEMMA OwnSafe ==
  ASSUME CowInv, NEW t \in DOMAIN ctx, ctx[t].op # "done", NEW n,
         n = None \/ n[1] = t \/ n \in Gone(ctx[t]), n \in Freed
  PROVE  FALSE
<1>1. PICK x \in Nat : x \in DOMAIN ctx /\ x <= committed /\ n \in Retired(ctx)[x]
  BY FreedIs
<1>2. t \in Nat /\ ~ t <= committed /\ committed \in Nat
  BY DEF CowInv, Sound, Timed, Stage
<1>3. x < t
  BY ONLY <1>1, <1>2
<1>4. Forest(Kids(heap), Retired(ctx), Copied(ctx), Open(heap, ctx))
  BY DEF CowInv, Sound, Good
<1>5. n # None /\ n[1] < x
  BY ONLY <1>1, <1>4 DEF Forest, Retirements
<1>6. CASE n \in Gone(ctx[t])
  <2>1. n \in Retired(ctx)[t]
    BY ONLY <1>2, <1>6, t \in DOMAIN ctx DEF Retired
  <2>2. x = t
    BY ONLY <1>1, <1>2, <1>4, <2>1 DEF Forest, Retirements
  <2>3. QED
    BY ONLY <1>1, <1>2, <1>3, <2>2
<1>7. CASE n[1] = t
  BY ONLY <1>1, <1>2, <1>3, <1>5, <1>7
<1>8. QED
  BY <1>5, <1>6, <1>7

LEMMA WorkersSafe ==
  ASSUME CowInv, NEW t \in DOMAIN ctx, ctx[t].op # "done", NEW n \in {ctx[t].past, ctx[t].cur}, n \in Freed
  PROVE  FALSE
<1>1. PICK c : c = ctx[t]
  OBVIOUS
<1>2. Good(heap, ctx, first.root, nPipes) /\ Shape(heap, t, c) /\ Appends(heap, ctx, first.root)
  BY <1>1 DEF CowInv, Sound, Good, Shapes
<1>3. c.op \in {"down", "split", "append", "materialize"}
  BY <1>1, <1>2 DEF Shape
<1>4. CASE Moving(c)
  <2>1. c.past \in Gone(c) /\ c.cur[1] = t
    BY ONLY <1>2, <1>4 DEF Shape, ShapeMoving
  <2>2. QED
    BY <1>1, <2>1, OwnSafe
<1>5. CASE c.op = "materialize"
  <2>1. c.past \in Gone(c) /\ (c.cur = None \/ c.cur[1] = t)
    BY ONLY <1>2, <1>5 DEF Shape, ShapeMaterialize
  <2>2. QED
    BY <1>1, <2>1, OwnSafe
<1>6. CASE c.op = "append"
  <2>1. PICK x \in Nat : x \in DOMAIN ctx /\ x <= committed /\ n \in Retired(ctx)[x]
    BY FreedIs
  <2>2. /\ t \in Nat /\ ~ t <= committed /\ committed \in Nat
        /\ t - 1 \in Nat /\ t - 1 \in {0} \cup DOMAIN ctx
    BY DEF CowInv, Sound, Timed, Stage
  <2>3. x <= t - 1
    BY ONLY <2>1, <2>2
  <2>4. PICK r : r = RootOf(ctx, first.root, t - 1)
    OBVIOUS
  <2>5. c.past = r /\ c.cur \in Below(Kids(heap), Open(heap, ctx), r)
    BY ONLY <1>1, <1>2, <1>6, <2>4, t \in DOMAIN ctx DEF Appends, OnPath
  <2>6. /\ Top(Kids(heap), Retired(ctx), Open(heap, ctx), r, t - 1)
        /\ Forest(Kids(heap), Retired(ctx), Copied(ctx), Open(heap, ctx))
    BY ONLY <1>2, <2>2, <2>4 DEF Good, Rooted
  <2>7. r \notin Retired(ctx)[x]
    BY ONLY <2>1, <2>3, <2>6 DEF Top
  <2>8. c.cur \notin Retired(ctx)[x]
    BY ONLY <2>1, <2>2, <2>3, <2>5, <2>6, BelowKept
  <2>9. QED
    BY ONLY <1>1, <2>1, <2>5, <2>7, <2>8, n \in {ctx[t].past, ctx[t].cur}
<1>7. QED
  BY <1>3, <1>4, <1>5, <1>6 DEF Moving

LEMMA InvSafe ==
  ASSUME CowInv
  PROVE  WritersSafe
<1>1. Reach(heap, Root(Len(ctx))) \cap Freed = {}
  BY EntrySafe
<1>2. ASSUME NEW t \in Entered, ctx[t].op # "done" PROVE {ctx[t].past, ctx[t].cur} \cap Freed = {}
  <2>1. \A n \in {ctx[t].past, ctx[t].cur} : n \notin Freed
    BY <1>2, WorkersSafe DEF Entered
  <2>2. QED
    BY ONLY <2>1
<1>3. QED
  BY <1>1, <1>2 DEF WritersSafe

-----------------------------------------------------------------------------
(***************************************************************************)
(* What an append and a materialisation do to the leaves.                  *)
(***************************************************************************)
\* Node x is node n but for what is in a leaf.
LeafLike(n, x) ==
  /\ IsNode(x) /\ x.ver = n.ver /\ x.leaf = n.leaf /\ x.keys = n.keys /\ x.chs = n.chs
  /\ DOMAIN n.slots \subseteq DOMAIN x.slots

LEMMA SlotsIs ==
  ASSUME NEW n, IsNode(n), n.leaf, NEW s, IsSeq(s), DOMAIN n.slots \subseteq DOMAIN s
  PROVE  LeafLike(n, [n EXCEPT !.slots = s]) /\ [n EXCEPT !.slots = s].slots = s
<1>1. n = [ver |-> n.ver, leaf |-> n.leaf, keys |-> n.keys, vals |-> n.vals, chs |-> n.chs,
           ready |-> n.ready, slots |-> n.slots]
  BY DEF IsNode
<1>2. PICK x : x = [n EXCEPT !.slots = s]
  OBVIOUS
<1>3. x = [ver |-> n.ver, leaf |-> n.leaf, keys |-> n.keys, vals |-> n.vals, chs |-> n.chs,
           ready |-> n.ready, slots |-> s]
  BY ONLY <1>1, <1>2
<1>4. /\ x.ver = n.ver /\ x.leaf = n.leaf /\ x.keys = n.keys /\ x.vals = n.vals /\ x.chs = n.chs
      /\ x.ready = n.ready /\ x.slots = s
  BY ONLY <1>3
<1>5. x = [ver |-> x.ver, leaf |-> x.leaf, keys |-> x.keys, vals |-> x.vals, chs |-> x.chs,
           ready |-> x.ready, slots |-> x.slots]
  BY ONLY <1>3, <1>4
<1>6. n.leaf \in BOOLEAN /\ n.ready \in BOOLEAN /\ IsSeq(n.chs) /\ n.chs = <<>>
  BY DEF IsNode
<1>7. IsNode(x)
  BY ONLY <1>4, <1>5, <1>6, IsSeq(s), n.leaf DEF IsNode
<1>8. LeafLike(n, x) /\ x.slots = s
  BY ONLY <1>4, <1>7, DOMAIN n.slots \subseteq DOMAIN s DEF LeafLike
<1>9. QED
  BY <1>2, <1>8

LEMMA FillIs ==
  ASSUME NEW n, IsNode(n), n.leaf, NEW v
  PROVE  LeafLike(n, [n EXCEPT !.ready = TRUE, !.vals = v])
<1>1. n = [ver |-> n.ver, leaf |-> n.leaf, keys |-> n.keys, vals |-> n.vals, chs |-> n.chs,
           ready |-> n.ready, slots |-> n.slots]
  BY DEF IsNode
<1>2. PICK x : x = [n EXCEPT !.ready = TRUE, !.vals = v]
  OBVIOUS
<1>3. x = [ver |-> n.ver, leaf |-> n.leaf, keys |-> n.keys, vals |-> v, chs |-> n.chs,
           ready |-> TRUE, slots |-> n.slots]
  BY ONLY <1>1, <1>2
<1>4. /\ x.ver = n.ver /\ x.leaf = n.leaf /\ x.keys = n.keys /\ x.vals = v /\ x.chs = n.chs
      /\ x.ready = TRUE /\ x.slots = n.slots
  BY ONLY <1>3
<1>5. x = [ver |-> x.ver, leaf |-> x.leaf, keys |-> x.keys, vals |-> x.vals, chs |-> x.chs,
           ready |-> x.ready, slots |-> x.slots]
  BY ONLY <1>3, <1>4
<1>6. n.leaf \in BOOLEAN /\ IsSeq(n.slots) /\ IsSeq(n.chs) /\ n.chs = <<>>
  BY DEF IsNode
<1>7. IsNode(x)
  BY ONLY <1>4, <1>5, <1>6, n.leaf DEF IsNode
<1>8. LeafLike(n, x)
  BY ONLY <1>4, <1>7 DEF LeafLike
<1>9. QED
  BY <1>2, <1>8

\* A heap with other leaves.
Retouched(h, g, X) ==
  /\ Built(h) /\ DOMAIN g = DOMAIN h /\ \A n \in X : n \in DOMAIN h => h[n].leaf
  /\ \A n \in DOMAIN h : n \notin X => g[n] = h[n]
  /\ \A n \in X : n \in DOMAIN h => LeafLike(h[n], g[n])

LEMMA LeavesAlike ==
  ASSUME NEW h, NEW g, NEW X, Retouched(h, g, X)
  PROVE  Alike(h, g)
<1> /\ Built(h) /\ DOMAIN g = DOMAIN h /\ \A n \in X : n \in DOMAIN h => h[n].leaf
    /\ \A n \in DOMAIN h : n \notin X => g[n] = h[n]
    /\ \A n \in X : n \in DOMAIN h => LeafLike(h[n], g[n])
  BY DEF Retouched
<1>1. ASSUME NEW n \in DOMAIN h
      PROVE  /\ IsNode(g[n]) /\ g[n].ver = h[n].ver /\ g[n].leaf = h[n].leaf /\ g[n].keys = h[n].keys
             /\ g[n].chs = h[n].chs /\ DOMAIN h[n].slots \subseteq DOMAIN g[n].slots
             /\ ~ h[n].leaf => g[n].ready = h[n].ready
  <2>1. CASE n \in X
    BY <2>1 DEF LeafLike
  <2>2. CASE n \notin X
    BY <2>2 DEF Built
  <2>3. QED
    BY <2>1, <2>2
<1>2. QED
  BY <1>1 DEF Alike

LEMMA SameAlike ==
  ASSUME NEW h, Built(h)
  PROVE  Alike(h, h)
<1>1. Retouched(h, h, {})
  BY DEF Retouched
<1>2. QED
  BY ONLY <1>1, LeavesAlike

\* concurrent_fat_append
LEMMA AppendAlike ==
  ASSUME NEW h, Built(h), NEW n \in DOMAIN h, h[n].leaf, NEW s, NEW g, g = [h EXCEPT ![n] = AppendSlot(h[n], s)]
  PROVE  /\ Alike(h, g) /\ IsSeq(h[n].slots) /\ Len(g[n].slots) = Len(h[n].slots) + 1
         /\ Len(AppendSlot(h[n], s).slots) = Len(h[n].slots) + 1
         /\ DOMAIN g[n].slots = 1 .. Len(h[n].slots) + 1
<1>1. PICK m : m = h[n] /\ IsNode(m) /\ m.leaf
  BY DEF Built
<1>2. PICK a : a = m.slots /\ IsSeq(a)
  BY ONLY <1>1 DEF IsNode
<1>3. PICK b : b = Append(a, s) /\ IsSeq(b) /\ Len(b) = Len(a) + 1 /\ DOMAIN b = 1 .. Len(a) + 1 /\ Len(a) \in Nat
                   /\ DOMAIN a = 1 .. Len(a)
  <2>1. PICK S : a \in Seq(S)
    BY ONLY <1>2 DEF IsSeq
  <2>2. PICK T : T = S \cup {s}
    OBVIOUS
  <2>3. a \in Seq(T) /\ s \in T
    BY ONLY <2>1, <2>2
  <2>4. Append(a, s) \in Seq(T) /\ Len(Append(a, s)) = Len(a) + 1 /\ Len(a) \in Nat /\ DOMAIN a = 1 .. Len(a)
    BY ONLY <2>3
  <2>5. PICK b : b = Append(a, s) /\ b \in Seq(T) /\ Len(b) = Len(a) + 1
    BY ONLY <2>4
  <2>6. DOMAIN b = 1 .. Len(b)
    BY ONLY <2>5
  <2>7. IsSeq(b) /\ DOMAIN b = 1 .. Len(a) + 1
    BY ONLY <2>5, <2>6 DEF IsSeq
  <2>8. QED
    BY ONLY <2>4, <2>5, <2>7
<1>4. LeafLike(m, [m EXCEPT !.slots = b]) /\ [m EXCEPT !.slots = b].slots = b
  <2>1. DOMAIN m.slots \subseteq DOMAIN b
    BY ONLY <1>2, <1>3
  <2>2. QED
    BY ONLY <1>1, <1>3, <2>1, SlotsIs
<1>5. AppendSlot(m, s) = [m EXCEPT !.slots = b]
  BY ONLY <1>2, <1>3 DEF AppendSlot
<1>6. PICK x : x = AppendSlot(m, s) /\ LeafLike(m, x) /\ x.slots = b
  BY ONLY <1>4, <1>5
<1>7. g = [h EXCEPT ![n] = x]
  BY ONLY <1>1, <1>6, g = [h EXCEPT ![n] = AppendSlot(h[n], s)]
<1>8. DOMAIN g = DOMAIN h /\ g[n] = x /\ \A l \in DOMAIN h : l # n => g[l] = h[l]
  BY ONLY <1>7, n \in DOMAIN h
<1>9. Alike(h, g)
  <2>1. \A l \in {n} : l \in DOMAIN h => h[l].leaf
    BY ONLY <1>1
  <2>2. \A l \in DOMAIN h : l \notin {n} => g[l] = h[l]
    BY ONLY <1>8
  <2>3. \A l \in {n} : l \in DOMAIN h => LeafLike(h[l], g[l])
    BY ONLY <1>1, <1>6, <1>8
  <2>4. Retouched(h, g, {n})
    BY ONLY Built(h), <1>8, <2>1, <2>2, <2>3 DEF Retouched
  <2>5. QED
    BY ONLY <2>4, LeavesAlike
<1>10. QED
  BY ONLY <1>1, <1>2, <1>3, <1>6, <1>8, <1>9

\* handle_fat_append
LEMMA WriteAlike ==
  ASSUME NEW h, Built(h), NEW c, c.cur \in DOMAIN h, h[c.cur].leaf, c.idx \in DOMAIN h[c.cur].slots
  PROVE  Alike(h, HandleAppend(h, c).heap)
<1>1. PICK n, m : n = c.cur /\ m = h[n] /\ IsNode(m) /\ m.leaf
  BY DEF Built
<1>2. PICK s : s = Slot(c.sno, c.key, c.sno, FALSE)
  OBVIOUS
<1>3. PICK a : a = m.slots /\ IsSeq(a)
  BY ONLY <1>1 DEF IsNode
<1>4. PICK b : b = [a EXCEPT ![c.idx] = s] /\ IsSeq(b) /\ DOMAIN b = DOMAIN a
  <2>1. PICK S : a \in Seq(S)
    BY ONLY <1>3 DEF IsSeq
  <2>2. PICK T : T = S \cup {s}
    OBVIOUS
  <2>3. a \in Seq(T) /\ s \in T
    BY ONLY <2>1, <2>2
  <2>4. PICK m1 \in Nat : m1 = Len(a) /\ DOMAIN a = 1 .. m1 /\ \A i \in 1 .. m1 : a[i] \in T
    BY ONLY <2>3
  <2>5. PICK b : b = [a EXCEPT ![c.idx] = s]
    OBVIOUS
  <2>6. DOMAIN b = 1 .. m1 /\ \A i \in 1 .. m1 : b[i] \in T
    BY ONLY <2>3, <2>4, <2>5
  <2>7. b = [i \in 1 .. m1 |-> b[i]]
    BY ONLY <2>4, <2>5, <2>6
  <2>8. IsSeq(b)
    BY ONLY <2>7, SequenceIs
  <2>9. QED
    BY ONLY <2>4, <2>5, <2>6, <2>8
<1>5. LeafLike(m, [m EXCEPT !.slots = b])
  <2>1. DOMAIN m.slots \subseteq DOMAIN b
    BY ONLY <1>3, <1>4
  <2>2. QED
    BY ONLY <1>1, <1>4, <2>1, SlotsIs
<1>6. PICK g : g = HandleAppend(h, c).heap
  OBVIOUS
<1>7. g = [h EXCEPT ![n] = [m EXCEPT !.slots = b]]
  BY ONLY <1>1, <1>2, <1>3, <1>4, <1>6 DEF HandleAppend
<1>8. PICK x : x = [m EXCEPT !.slots = b] /\ LeafLike(m, x)
  BY ONLY <1>5
<1>9. DOMAIN g = DOMAIN h /\ g[n] = x /\ \A l \in DOMAIN h : l # n => g[l] = h[l]
  BY ONLY <1>1, <1>7, <1>8, c.cur \in DOMAIN h
<1>10. Alike(h, g)
  <2>1. \A l \in {n} : l \in DOMAIN h => h[l].leaf
    BY ONLY <1>1
  <2>2. \A l \in DOMAIN h : l \notin {n} => g[l] = h[l]
    BY ONLY <1>9
  <2>3. \A l \in {n} : l \in DOMAIN h => LeafLike(h[l], g[l])
    BY ONLY <1>1, <1>8, <1>9
  <2>4. Retouched(h, g, {n})
    BY ONLY Built(h), <1>9, <2>1, <2>2, <2>3 DEF Retouched
  <2>5. QED
    BY ONLY <2>4, LeavesAlike
<1>11. QED
  BY <1>6, <1>10

\* handle_materialize
LEMMA FillAlike ==
  ASSUME NEW h, Built(h), NEW t, NEW c, ShapeMaterialize(h, t, c)
  PROVE  Alike(h, HandleMaterialize(h, c).heap)
<1> DEFINE left  == IF c.cur = None THEN c.root ELSE h[c.cur].chs[c.idx]
           nodes == {left} \cup (IF c.pair THEN {h[c.cur].chs[c.idx + 1]} ELSE {})
           Fill(n) == [n EXCEPT !.ready = TRUE, !.vals = [j \in DOMAIN n.keys |->
                         NewValue(h[c.past], c.sno, c.key, c.sno, n.keys[j])]]
           new == [n \in nodes |-> Fill(h[n])]
<1>1. PICK g : g = Over(h, new)
  OBVIOUS
<1>2. HandleMaterialize(h, c).heap = g
  BY <1>1 DEF HandleMaterialize
<1>3. \A n \in nodes : n \in DOMAIN h /\ h[n].leaf
  <2>1. left \in DOMAIN h /\ h[left].leaf
    BY DEF ShapeMaterialize, Targets
  <2>2. c.pair => h[c.cur].chs[c.idx + 1] \in DOMAIN h /\ h[h[c.cur].chs[c.idx + 1]].leaf
    BY DEF ShapeMaterialize, Targets
  <2> HIDE DEF left
  <2>3. QED
    BY <2>1, <2>2
<1>4. \A n \in nodes : LeafLike(h[n], Fill(h[n]))
  <2>1. ASSUME NEW n \in nodes PROVE LeafLike(h[n], Fill(h[n]))
    <3>1. IsNode(h[n]) /\ h[n].leaf
      <4> HIDE DEF nodes
      <4>1. QED
        BY <1>3 DEF Built
    <3>2. QED
      BY ONLY <3>1, FillIs
  <2>2. QED
    BY ONLY <2>1
<1>5. DOMAIN new = nodes /\ \A n \in nodes : new[n] = Fill(h[n])
  OBVIOUS
<1> HIDE DEF nodes, Fill, new
<1>6. DOMAIN g = DOMAIN h /\ (\A n \in DOMAIN h : n \notin nodes => g[n] = h[n]) /\ \A n \in nodes : g[n] = Fill(h[n])
  BY <1>1, <1>3, <1>5 DEF Over
<1>7. Retouched(h, g, nodes)
  BY <1>3, <1>4, <1>6 DEF Retouched
<1>8. Alike(h, g)
  BY <1>7, LeavesAlike
<1>9. QED
  BY <1>2, <1>8

-----------------------------------------------------------------------------
(***************************************************************************)
(* The steps of a ticket.                                                  *)
(***************************************************************************)
LEMMA ExceptBecomes ==
  ASSUME NEW cx, IsSeq(cx), NEW t \in DOMAIN cx, NEW d, NEW cx1, cx1 = [cx EXCEPT ![t] = d]
  PROVE  Becomes(cx, cx1, t, d) /\ IsSeq(cx1)
<1>1. PICK m \in Nat : m = Len(cx) /\ DOMAIN cx = 1 .. m
  BY LengthIs
<1>2. DOMAIN cx1 = DOMAIN cx /\ cx1[t] = d /\ \A u \in DOMAIN cx : u # t => cx1[u] = cx[u]
  OBVIOUS
<1>3. Becomes(cx, cx1, t, d)
  BY ONLY <1>2, t \in DOMAIN cx DEF Becomes
<1>4. cx1 = [i \in 1 .. m |-> cx1[i]]
  BY <1>1, <1>2
<1>5. IsSeq(cx1)
  BY ONLY <1>4, SequenceIs
<1>6. QED
  BY ONLY <1>3, <1>5

LEMMA AppendBecomes ==
  ASSUME NEW cx, IsSeq(cx), NEW t, t = Len(cx) + 1, NEW d, NEW cx1, cx1 = Append(cx, d)
  PROVE  Becomes(cx, cx1, t, d) /\ IsSeq(cx1) /\ t \in Nat \ {0} /\ DOMAIN cx = 1 .. t - 1
<1>1. PICK S : cx \in Seq(S)
  BY ONLY IsSeq(cx) DEF IsSeq
<1>2. PICK T : T = S \cup {d}
  OBVIOUS
<1>3. cx \in Seq(T) /\ d \in T
  BY ONLY <1>1, <1>2
<1>4. PICK m \in Nat : m = Len(cx) /\ DOMAIN cx = 1 .. m
  BY ONLY <1>3
<1>5. cx1 \in Seq(T) /\ Len(cx1) = m + 1 /\ cx1[m + 1] = d /\ \A u \in 1 .. m : cx1[u] = cx[u]
  BY ONLY <1>3, <1>4, cx1 = Append(cx, d)
<1>6. DOMAIN cx1 = 1 .. m + 1
  BY ONLY <1>5
<1>7. DOMAIN cx1 = DOMAIN cx \cup {m + 1}
  BY ONLY <1>4, <1>6
<1>8. Becomes(cx, cx1, m + 1, d)
  BY ONLY <1>4, <1>5, <1>7 DEF Becomes
<1>9. IsSeq(cx1)
  BY ONLY <1>5 DEF IsSeq
<1>10. QED
  BY ONLY <1>4, <1>8, <1>9, t = Len(cx) + 1

LEMMA AdvancedIs ==
  ASSUME NEW c, IsContext(c), NEW pos, NEW at, NEW d, d = Advanced(c, pos, at)
  PROVE  AtStage(c, d) /\ d.pos = pos /\ d.at = at
BY DEF Advanced, AtStage, IsContext, Fields

LEMMA AdvancedStays ==
  ASSUME NEW c, NEW d, NEW np, AtStage(c, d), Moving(c) => Place(d, np) = Place(c, np)
  PROVE  Stays(c, d, np)
BY DEF AtStage, Stays

LEMMA TicketIs ==
  ASSUME CowInv, NEW t \in DOMAIN ctx
  PROVE  /\ IsContext(ctx[t]) /\ Shape(heap, t, ctx[t]) /\ Stage(ctx[t], nPipes) /\ IsSeq(ctx) /\ Built(heap)
         /\ t \in Nat \ {0} /\ t - 1 \in {0} \cup DOMAIN ctx /\ nPipes \in Nat /\ nPipes >= 2
         /\ \A u \in DOMAIN ctx : u \in Nat /\ (u < t => ctx[u].pos >= nPipes \/ ctx[u].pos > ctx[t].pos)
         /\ ctx[t].op \in {"down", "split", "append", "materialize", "done"}
<1>1. Good(heap, ctx, first.root, nPipes) /\ Timed(ctx, nPipes, committed)
  BY DEF CowInv, Sound
<1>2. Shape(heap, t, ctx[t]) /\ IsSeq(ctx) /\ Built(heap)
  BY <1>1 DEF Good, Shapes
<1>3. \E l \in Nat : DOMAIN ctx = 1 .. l
  BY <1>1 DEF Timed
<1>4. t \in Nat \ {0} /\ t - 1 \in {0} \cup DOMAIN ctx /\ \A u \in DOMAIN ctx : u \in Nat
  BY <1>3
<1>5. /\ nPipes \in Nat /\ nPipes >= 2 /\ Stage(ctx[t], nPipes)
      /\ \A u \in DOMAIN ctx : u < t => ctx[u].pos >= nPipes \/ ctx[u].pos > ctx[t].pos
  BY <1>1 DEF Timed
<1>6. QED
  BY <1>2, <1>4, <1>5 DEF Shape

Kept == nPipes' = nPipes /\ first' = first /\ committed' = committed

\* A step that leaves the graph alone.
LEMMA StaysInv ==
  ASSUME CowInv, NEW t \in DOMAIN ctx, NEW d, Alike(heap, heap'), Stays(ctx[t], d, nPipes),
         Timely(ctx, nPipes, t, d), ctx' = [ctx EXCEPT ![t] = d], Kept
  PROVE  CowInv'
<1>1. Becomes(ctx, ctx', t, d) /\ IsSeq(ctx')
  <2>1. IsSeq(ctx)
    BY TicketIs
  <2>2. QED
    BY <2>1, ExceptBecomes
<1>2. Still(heap, ctx, first.root, nPipes, committed, heap', t, d, ctx')
  BY <1>1 DEF Still, CowInv
<1>3. Sound(heap', ctx', first.root, nPipes, committed)
  BY ONLY <1>2, StillSound
<1>4. Sound(heap', ctx', first'.root, nPipes', committed')
  BY ONLY <1>3, Kept DEF Kept
<1>5. QED
  BY ONLY <1>4 DEF CowInv

\* A handler that copies the next node.
LEMMA GoesInv ==
  ASSUME CowInv, NEW t \in DOMAIN ctx, Ready(heap, ctx, t, first.root, nPipes),
         NEW r, r = Handle(heap, ctx[t]), NEW pos, NEW at, NEW d, d = Advanced(r.c, pos, at),
         Place(d, nPipes) = Place(ctx[t], nPipes) + 1,
         Timely(ctx, nPipes, t, d), heap' = r.heap, ctx' = [ctx EXCEPT ![t] = d], Kept
  PROVE  CowInv'
<1>1. Becomes(ctx, ctx', t, d) /\ IsSeq(ctx')
  <2>1. IsSeq(ctx)
    BY TicketIs
  <2>2. QED
    BY <2>1, ExceptBecomes
<1>2. IsContext(r.c)
  BY HandlerContinues DEF Continues, SameTicket
<1>3. AtStage(r.c, d)
  BY <1>2, AdvancedIs
<1>4. GoesOn(heap, ctx, t, first.root, nPipes, r, d, ctx')
  BY <1>1, <1>3 DEF GoesOn
<1>5. d.op = r.c.op /\ d.root = r.c.root
  BY <1>3 DEF AtStage
<1>6. Copying(heap, ctx, first.root, nPipes, committed, heap', t, d, ctx')
  BY <1>4, <1>5 DEF Copying, CowInv
<1>7. Sound(heap', ctx', first.root, nPipes, committed)
  BY ONLY <1>6, CopyingSound
<1>8. Sound(heap', ctx', first'.root, nPipes', committed')
  BY ONLY <1>7, Kept DEF Kept
<1>9. QED
  BY ONLY <1>8 DEF CowInv

\* The ticket of the node to copy is an earlier one, which made it.
LEMMA PastIs ==
  ASSUME CowInv, NEW t \in DOMAIN ctx, Moving(ctx[t]) \/ ctx[t].op = "materialize"
  PROVE  /\ ctx[t].past \in DOMAIN heap /\ ctx[t].past \in Retired(ctx)[t] /\ heap[ctx[t].past].ver = ctx[t].past[1]
         /\ ctx[t].past[1] \in Nat /\ ctx[t].past[1] < t
<1>1. PICK p : p = ctx[t].past
  OBVIOUS
<1>2. /\ Shape(heap, t, ctx[t]) /\ Built(heap) /\ t \in Nat \ {0}
      /\ Forest(Kids(heap), Retired(ctx), Copied(ctx), Open(heap, ctx))
  BY TicketIs DEF CowInv, Sound, Good
<1>3. p \in Gone(ctx[t]) /\ p \in DOMAIN heap
  BY <1>1, <1>2 DEF Shape, ShapeMoving, ShapeMaterialize
<1>4. p \in Retired(ctx)[t]
  BY ONLY <1>2, <1>3, t \in DOMAIN ctx DEF Retired
<1>5. p[1] < t /\ p[1] \in Nat
  BY ONLY <1>2, <1>3, <1>4 DEF Forest, Retirements, Nodes, Kids
<1>6. heap[p].ver = p[1]
  BY ONLY <1>2, <1>3 DEF Built
<1>7. QED
  BY <1>1, <1>3, <1>4, <1>5, <1>6

\* A ticket may copy its next node when the one that made it is two places further.
LEMMA ReadyWhen ==
  ASSUME CowInv, NEW t \in DOMAIN ctx, Moving(ctx[t]),
         Ahead(ctx, nPipes, ctx[t].past[1], Place(ctx[t], nPipes) + 2)
  PROVE  Ready(heap, ctx, t, first.root, nPipes)
BY FreeIs DEF CowInv, Sound

\* The tickets before t, when the thread of its next stage has passed it.
LEMMA PassedBefore ==
  ASSUME CowInv, NEW t \in DOMAIN ctx, NEW j \in Nat, j <= nPipes, Passed(t - 1, j)
  PROVE  \A u \in DOMAIN ctx : u < t => ctx[u].pos >= nPipes \/ ctx[u].pos >= j
<1>1. Timed(ctx, nPipes, committed) /\ t \in Nat \ {0} /\ t - 1 \in {0} \cup DOMAIN ctx
  BY TicketIs DEF CowInv, Sound
<1>2. QED
  BY <1>1, PassedAhead

LEMMA PosIs ==
  ASSUME CowInv, NEW u \in DOMAIN ctx
  PROVE  ctx[u].pos \in Nat
BY TicketIs DEF Stage

\* A thread that may run a handler finds what the handler needs.
LEMMA InnerReady ==
  ASSUME CowInv, NEW t \in DOMAIN ctx, CanInner(t), Moving(ctx[t])
  PROVE  Ready(heap, ctx, t, first.root, nPipes)
<1>1. PICK c : c = ctx[t]
  OBVIOUS
<1>2. c.at = "pipe" /\ c.pos + 1 < nPipes /\ Passed(t - 1, c.pos + 2) /\ Moving(c)
  BY <1>1 DEF CanInner
<1>3. Stage(c, nPipes) /\ t \in Nat \ {0} /\ nPipes \in Nat
  BY <1>1, TicketIs
<1>4. PICK m \in Nat : m = c.pos /\ m + 1 < nPipes
  BY ONLY <1>2, <1>3 DEF Stage
<1>5. \A u \in DOMAIN ctx : u < t => ctx[u].pos >= nPipes \/ ctx[u].pos >= m + 2
  <2>1. m + 2 \in Nat /\ m + 2 <= nPipes /\ Passed(t - 1, m + 2)
    BY <1>2, <1>3, <1>4
  <2>2. QED
    BY <2>1, PassedBefore
<1>6. Place(c, nPipes) = m
  BY ONLY <1>2, <1>4 DEF Place
<1>7. PICK v : v = c.past[1]
  OBVIOUS
<1>8. v \in Nat /\ v < t
  BY <1>1, <1>2, <1>7, PastIs
<1>9. Ahead(ctx, nPipes, v, m + 2)
  <2>1. SUFFICES ASSUME v \in DOMAIN ctx PROVE ctx[v].pos >= m + 2
    BY DEF Ahead
  <2>2. PICK n \in Nat : n = ctx[v].pos
    BY <2>1, PosIs
  <2>3. n >= nPipes \/ n >= m + 2
    BY ONLY <1>5, <1>8, <2>1, <2>2
  <2>4. QED
    BY ONLY <1>3, <1>4, <2>2, <2>3
<1>10. QED
  BY <1>1, <1>2, <1>6, <1>7, <1>9, ReadyWhen

LEMMA InnerInv ==
  ASSUME CowInv, NEW t \in DOMAIN ctx, Inner(t)
  PROVE  CowInv'
<1>1. PICK c, r, d : c = ctx[t] /\ r = Run(c) /\ d = Advanced(r.c, c.pos + 1, "pipe")
  OBVIOUS
<1>2. /\ c.at = "pipe" /\ c.pos + 1 < nPipes /\ Passed(t - 1, c.pos + 2)
      /\ heap' = r.heap /\ ctx' = [ctx EXCEPT ![t] = d] /\ Kept
  BY <1>1 DEF Inner, CanInner, Store, Kept
<1>3. /\ IsContext(c) /\ Shape(heap, t, c) /\ Stage(c, nPipes) /\ IsSeq(ctx) /\ Built(heap)
      /\ t \in Nat \ {0} /\ nPipes \in Nat
      /\ c.op \in {"down", "split", "append", "materialize", "done"}
  BY <1>1, TicketIs
<1>4. PICK m \in Nat : m = c.pos /\ m + 1 < nPipes /\ m # 0
  BY ONLY <1>2, <1>3 DEF Stage
<1>5. \A u \in DOMAIN ctx : u < t => ctx[u].pos >= nPipes \/ ctx[u].pos >= m + 2
  <2>1. m + 2 \in Nat /\ m + 2 <= nPipes /\ Passed(t - 1, m + 2)
    BY <1>2, <1>3, <1>4
  <2>2. QED
    BY <2>1, PassedBefore
<1>6. ASSUME d.pos = m + 1, d.at = "pipe" PROVE Timely(ctx, nPipes, t, d)
  <2>1. Stage(d, nPipes)
    BY ONLY <1>4, <1>6 DEF Stage
  <2>2. d.pos >= ctx[t].pos /\ ctx[t].at # "finished"
    BY ONLY <1>1, <1>2, <1>4, <1>6
  <2>3. ASSUME NEW u \in DOMAIN ctx, u < t PROVE ctx[u].pos >= nPipes \/ ctx[u].pos > d.pos
    <3>1. PICK n \in Nat : n = ctx[u].pos
      BY PosIs
    <3>2. n >= nPipes \/ n >= m + 2
      BY ONLY <1>5, <2>3, <3>1, u \in DOMAIN ctx
    <3>3. QED
      BY ONLY <1>6, <3>1, <3>2, m \in Nat
  <2>4. QED
    BY ONLY <2>1, <2>2, <2>3 DEF Timely
<1>7. CASE ~ Moving(c)
  <2>1. r.heap = heap /\ r.c = c
    BY <1>1, <1>3, <1>7 DEF Run, Task, Moving
  <2>2. AtStage(c, d) /\ d.pos = m + 1 /\ d.at = "pipe"
    BY ONLY <1>1, <1>3, <1>4, <2>1, AdvancedIs
  <2>3. Stays(c, d, nPipes)
    BY ONLY <1>7, <2>2, AdvancedStays
  <2>4. Alike(heap, heap')
    BY <1>2, <1>3, <2>1, SameAlike
  <2>5. QED
    BY <1>1, <1>2, <1>6, <2>2, <2>3, <2>4, StaysInv
<1>8. CASE Moving(c)
  <2>1. r = Handle(heap, ctx[t])
    BY <1>1, <1>8 DEF Run, Task, Moving
  <2>2. Place(c, nPipes) = m
    BY ONLY <1>2, <1>4 DEF Place
  <2>3. Ready(heap, ctx, t, first.root, nPipes)
    BY <1>1, <1>8, InnerReady DEF Inner
  <2>4. AtStage(r.c, d) /\ d.pos = m + 1 /\ d.at = "pipe"
    <3>1. IsContext(r.c)
      BY <1>1, <2>1, <2>3, HandlerContinues DEF Continues, SameTicket
    <3>2. QED
      BY ONLY <1>1, <1>4, <3>1, AdvancedIs
  <2>5. Place(d, nPipes) = Place(ctx[t], nPipes) + 1
    BY ONLY <1>1, <2>2, <2>4 DEF Place
  <2>6. Timely(ctx, nPipes, t, d)
    BY <1>6, <2>4
  <2>7. QED
    BY <1>1, <1>2, <2>1, <2>3, <2>5, <2>6, GoesInv
<1>9. QED
  BY <1>7, <1>8

LEMMA ExitReady ==
  ASSUME CowInv, NEW t \in DOMAIN ctx, CanExit(t), Moving(ctx[t])
  PROVE  Ready(heap, ctx, t, first.root, nPipes)
<1>1. PICK c : c = ctx[t]
  OBVIOUS
<1>2. c.at = "pipe" /\ c.pos + 1 = nPipes /\ WaitStage(c, 1) /\ Moving(c)
  BY <1>1 DEF CanExit, Task, Moving
<1>3. Stage(c, nPipes) /\ nPipes \in Nat
  BY <1>1, TicketIs
<1>4. PICK m \in Nat : m = c.pos /\ m + 1 = nPipes
  BY ONLY <1>2, <1>3 DEF Stage
<1>5. Place(c, nPipes) = m
  BY ONLY <1>2, <1>4 DEF Place
<1>6. PICK v : v = c.past[1]
  OBVIOUS
<1>7. heap[c.past].ver = v
  BY <1>1, <1>2, <1>6, PastIs
<1>8. Timed(ctx, nPipes, committed) /\ v = heap[c.past].ver /\ WaitStage(c, 1) /\ 1 \in Int
  BY <1>2, <1>7 DEF CowInv, Sound
<1>9. Ahead(ctx, nPipes, v, nPipes + 1)
  BY ONLY <1>8, WaitAhead
<1>10. m + 2 = nPipes + 1
  BY ONLY <1>4
<1>11. Ahead(ctx, nPipes, c.past[1], Place(c, nPipes) + 2)
  BY ONLY <1>5, <1>6, <1>9, <1>10
<1>12. QED
  BY <1>1, <1>2, <1>11, ReadyWhen

LEMMA ExitInv ==
  ASSUME CowInv, NEW t \in DOMAIN ctx, Exit(t)
  PROVE  CowInv'
<1>1. PICK c, r, pos, at, d : /\ c = ctx[t] /\ r = Run(c) /\ d = Advanced(r.c, pos, at)
                              /\ pos = (IF c.op = "done" THEN nPipes ELSE c.pos)
                              /\ at = (IF c.op = "done" THEN "finished" ELSE "pop")
  OBVIOUS
<1>2. /\ c.at = "pipe" /\ c.pos + 1 = nPipes /\ (c.op # "done" /\ ~ Task(c) => WaitStage(c, 1))
      /\ heap' = r.heap /\ ctx' = [ctx EXCEPT ![t] = d] /\ Kept
  BY <1>1 DEF Exit, CanExit, Store, Kept
<1>3. /\ IsContext(c) /\ Shape(heap, t, c) /\ Stage(c, nPipes) /\ IsSeq(ctx) /\ Built(heap)
      /\ t \in Nat \ {0} /\ nPipes \in Nat
      /\ c.op \in {"down", "split", "append", "materialize", "done"}
      /\ \A u \in DOMAIN ctx : u < t => ctx[u].pos >= nPipes \/ ctx[u].pos > c.pos
  BY <1>1, TicketIs
<1>4. PICK m \in Nat : m = c.pos /\ m + 1 = nPipes /\ m # 0
  BY ONLY <1>2, <1>3 DEF Stage
<1>5. ASSUME d.pos = pos, d.at = at, c.op = "done" => d.op = "done" PROVE Timely(ctx, nPipes, t, d)
  <2>1. Stage(d, nPipes)
    BY ONLY <1>1, <1>3, <1>4, <1>5 DEF Stage
  <2>2. d.pos >= ctx[t].pos /\ ctx[t].at # "finished"
    BY ONLY <1>1, <1>2, <1>3, <1>4, <1>5
  <2>3. ASSUME NEW u \in DOMAIN ctx, u < t PROVE ctx[u].pos >= nPipes \/ ctx[u].pos > d.pos
    <3>1. PICK n \in Nat : n = ctx[u].pos
      BY PosIs
    <3>2. n >= nPipes \/ n > m
      BY ONLY <1>3, <1>4, <2>3, <3>1, u \in DOMAIN ctx
    <3>3. QED
      BY ONLY <1>4, <3>1, <3>2, m \in Nat
  <2>4. QED
    BY ONLY <2>1, <2>2, <2>3 DEF Timely
<1>6. CASE ~ Moving(c)
  <2>1. r.heap = heap /\ r.c = c
    BY <1>1, <1>3, <1>6 DEF Run, Task, Moving
  <2>2. AtStage(c, d) /\ d.pos = pos /\ d.at = at
    BY ONLY <1>1, <1>3, <2>1, AdvancedIs
  <2>3. Stays(c, d, nPipes)
    BY ONLY <1>6, <2>2, AdvancedStays
  <2>4. Alike(heap, heap')
    BY <1>2, <1>3, <2>1, SameAlike
  <2>5. c.op = "done" => d.op = "done"
    BY ONLY <2>2 DEF AtStage
  <2>6. QED
    BY <1>1, <1>2, <1>5, <2>2, <2>3, <2>4, <2>5, StaysInv
<1>7. CASE Moving(c)
  <2>1. r = Handle(heap, ctx[t]) /\ c.op # "done" /\ ~ Task(c) /\ pos = c.pos /\ at = "pop"
    BY <1>1, <1>7 DEF Run, Task, Moving
  <2>2. Place(c, nPipes) = m
    BY ONLY <1>2, <1>4 DEF Place
  <2>3. Ready(heap, ctx, t, first.root, nPipes)
    BY <1>1, <1>7, ExitReady DEF Exit
  <2>4. AtStage(r.c, d) /\ d.pos = pos /\ d.at = at
    <3>1. IsContext(r.c)
      BY <1>1, <2>1, <2>3, HandlerContinues DEF Continues, SameTicket
    <3>2. QED
      BY ONLY <1>1, <3>1, AdvancedIs
  <2>5. Place(d, nPipes) = Place(ctx[t], nPipes) + 1
    BY ONLY <1>1, <1>4, <2>1, <2>2, <2>4 DEF Place
  <2>6. Timely(ctx, nPipes, t, d)
    BY <1>5, <2>1, <2>4
  <2>7. QED
    BY <1>1, <1>2, <2>1, <2>3, <2>5, <2>6, GoesInv
<1>8. QED
  BY <1>6, <1>7

LEMMA DispatchInv ==
  ASSUME CowInv, NEW t \in DOMAIN ctx, Dispatch(t)
  PROVE  CowInv'
<1>1. PICK c, d : c = ctx[t] /\ d = Advanced(c, nPipes, "work")
  OBVIOUS
<1>2. c.at = "pop" /\ heap' = heap /\ ctx' = [ctx EXCEPT ![t] = d] /\ Kept
  BY <1>1 DEF Dispatch, CanDispatch, Kept
<1>3. /\ IsContext(c) /\ Stage(c, nPipes) /\ Built(heap) /\ nPipes \in Nat /\ nPipes >= 2
      /\ \A u \in DOMAIN ctx : u < t => ctx[u].pos >= nPipes \/ ctx[u].pos > c.pos
  BY <1>1, TicketIs
<1>4. PICK m \in Nat : m = c.pos /\ m + 1 = nPipes
  BY ONLY <1>2, <1>3 DEF Stage
<1>5. AtStage(c, d) /\ d.pos = nPipes /\ d.at = "work"
  BY ONLY <1>1, <1>3, AdvancedIs
<1>6. Stays(c, d, nPipes)
  <2>1. Place(c, nPipes) = nPipes /\ Place(d, nPipes) = nPipes
    BY ONLY <1>2, <1>5 DEF Place
  <2>2. QED
    BY ONLY <1>5, <2>1, AdvancedStays
<1>7. Timely(ctx, nPipes, t, d)
  <2>1. Stage(d, nPipes)
    BY ONLY <1>3, <1>5 DEF Stage
  <2>2. d.pos >= ctx[t].pos /\ ctx[t].at # "finished"
    BY ONLY <1>1, <1>2, <1>4, <1>5
  <2>3. ASSUME NEW u \in DOMAIN ctx, u < t PROVE ctx[u].pos >= nPipes \/ ctx[u].pos > d.pos
    <3>1. PICK n \in Nat : n = ctx[u].pos
      BY PosIs
    <3>2. n >= nPipes \/ n > m
      BY ONLY <1>3, <1>4, <2>3, <3>1, u \in DOMAIN ctx
    <3>3. QED
      BY ONLY <1>4, <3>1, <3>2, m \in Nat
  <2>4. QED
    BY ONLY <2>1, <2>2, <2>3 DEF Timely
<1>8. Alike(heap, heap')
  BY <1>2, <1>3, SameAlike
<1>9. QED
  BY <1>1, <1>2, <1>6, <1>7, <1>8, StaysInv

LEMMA FinishInv ==
  ASSUME CowInv, NEW t \in DOMAIN ctx, Finish(t)
  PROVE  CowInv'
<1>1. PICK c, d : c = ctx[t] /\ d = [c EXCEPT !.at = "finished"]
  OBVIOUS
<1>2. c.at = "work" /\ c.op = "done" /\ heap' = heap /\ ctx' = [ctx EXCEPT ![t] = d] /\ Kept
  BY <1>1 DEF Finish, CanFinish, Kept
<1>3. /\ IsContext(c) /\ Stage(c, nPipes) /\ Built(heap) /\ nPipes \in Nat
      /\ \A u \in DOMAIN ctx : u < t => ctx[u].pos >= nPipes \/ ctx[u].pos > c.pos
  BY <1>1, TicketIs
<1>4. AtStage(c, d) /\ d.pos = c.pos /\ d.at = "finished"
  BY ONLY <1>1, <1>3 DEF AtStage, IsContext, Fields
<1>5. Stays(c, d, nPipes)
  <2>1. ~ Moving(c)
    BY ONLY <1>2 DEF Moving
  <2>2. QED
    BY ONLY <1>4, <2>1, AdvancedStays
<1>6. Timely(ctx, nPipes, t, d)
  <2>1. Stage(d, nPipes)
    BY ONLY <1>2, <1>3, <1>4 DEF Stage, AtStage
  <2>2. d.pos >= ctx[t].pos
    BY ONLY <1>1, <1>3, <1>4 DEF Stage
  <2>3. QED
    BY ONLY <1>3, <1>4, <2>1, <2>2 DEF Timely
<1>7. Alike(heap, heap')
  BY <1>2, <1>3, SameAlike
<1>8. QED
  BY <1>1, <1>2, <1>5, <1>6, <1>7, StaysInv

LEMMA CommitInv ==
  ASSUME CowInv, Commit
  PROVE  CowInv'
<1>1. PICK l \in Nat : DOMAIN ctx = 1 .. l /\ committed <= l /\ committed \in Nat
  BY DEF CowInv, Sound, Timed
<1>2. /\ committed < l /\ ctx[committed + 1].at = "finished" /\ committed' = committed + 1
      /\ nPipes' = nPipes /\ first' = first /\ heap' = heap /\ ctx' = ctx
  <2>1. Len(ctx) = l
    <3>1. IsSeq(ctx)
      BY DEF CowInv, Sound, Good
    <3>2. PICK m \in Nat : m = Len(ctx) /\ DOMAIN ctx = 1 .. m
      BY ONLY <3>1, LengthIs
    <3>3. 1 .. m = 1 .. l
      BY ONLY <1>1, <3>2
    <3>4. QED
      BY ONLY <3>2, <3>3, l \in Nat, m \in Nat
  <2>2. QED
    BY <2>1 DEF Commit, CanCommit
<1>3. PICK com : com = committed + 1
  OBVIOUS
<1>4. Timed(ctx, nPipes, com)
  <2>1. Timed(ctx, nPipes, committed)
    BY DEF CowInv, Sound
  <2>2. com \in Nat /\ com <= l
    BY ONLY <1>1, <1>2, <1>3
  <2>3. ASSUME NEW u \in DOMAIN ctx, u <= com PROVE ctx[u].at = "finished"
    <3>1. u <= committed \/ u = committed + 1
      BY ONLY <1>1, <1>3, <2>3, u \in DOMAIN ctx
    <3>2. QED
      BY ONLY <1>2, <2>1, <3>1, u \in DOMAIN ctx DEF Timed
  <2>4. QED
    BY ONLY <1>1, <2>1, <2>2, <2>3 DEF Timed
<1>5. Sound(heap, ctx, first.root, nPipes, com)
  BY ONLY CowInv, <1>4 DEF CowInv, Sound
<1>6. Sound(heap', ctx', first'.root, nPipes', committed')
  BY ONLY <1>2, <1>3, <1>5
<1>7. QED
  BY ONLY <1>6 DEF CowInv

LEMMA WorkReady ==
  ASSUME CowInv, NEW t \in DOMAIN ctx, CanWork(t), Moving(ctx[t])
  PROVE  Ready(heap, ctx, t, first.root, nPipes)
<1>1. PICK c : c = ctx[t]
  OBVIOUS
<1>2. c.at = "work" /\ WaitStage(c, (c.pos - nPipes) + 2) /\ Moving(c)
  BY <1>1 DEF CanWork, Task, Moving
<1>3. Stage(c, nPipes) /\ nPipes \in Nat
  BY <1>1, TicketIs
<1>4. PICK m \in Nat : m = c.pos /\ m >= nPipes
  BY ONLY <1>2, <1>3 DEF Stage
<1>5. Place(c, nPipes) = m
  BY ONLY <1>2, <1>4 DEF Place
<1>6. PICK v : v = c.past[1]
  OBVIOUS
<1>7. heap[c.past].ver = v
  BY <1>1, <1>2, <1>6, PastIs
<1>8. PICK k \in Int : k = (m - nPipes) + 2
  BY ONLY <1>3, <1>4
<1>9. Timed(ctx, nPipes, committed) /\ v = heap[c.past].ver /\ WaitStage(c, k)
  BY <1>2, <1>4, <1>7, <1>8 DEF CowInv, Sound
<1>10. Ahead(ctx, nPipes, v, nPipes + k)
  BY ONLY <1>9, k \in Int, WaitAhead
<1>11. m + 2 = nPipes + k
  BY ONLY <1>3, <1>4, <1>8
<1>12. Ahead(ctx, nPipes, c.past[1], Place(c, nPipes) + 2)
  BY ONLY <1>5, <1>6, <1>10, <1>11
<1>13. QED
  BY <1>1, <1>2, <1>12, ReadyWhen

LEMMA WorkInv ==
  ASSUME CowInv, NEW t \in DOMAIN ctx, Work(t)
  PROVE  CowInv'
<1>1. PICK c, r, d : c = ctx[t] /\ r = Handle(heap, c) /\ d = Advanced(r.c, c.pos + 1, "work")
  OBVIOUS
<1>2. /\ c.at = "work" /\ c.op # "done" /\ (~ Task(c) => WaitStage(c, (c.pos - nPipes) + 2))
      /\ heap' = r.heap /\ ctx' = [ctx EXCEPT ![t] = d] /\ Kept
  BY <1>1 DEF Work, CanWork, Store, Kept
<1>3. /\ IsContext(c) /\ Shape(heap, t, c) /\ Stage(c, nPipes) /\ IsSeq(ctx) /\ Built(heap)
      /\ t \in Nat \ {0} /\ nPipes \in Nat
      /\ c.op \in {"down", "split", "append", "materialize", "done"}
      /\ \A u \in DOMAIN ctx : u < t => ctx[u].pos >= nPipes \/ ctx[u].pos > c.pos
  BY <1>1, TicketIs
<1>4. PICK m \in Nat : m = c.pos /\ m >= nPipes /\ m # 0
  BY ONLY <1>2, <1>3 DEF Stage
<1>5. ASSUME d.pos = m + 1, d.at = "work" PROVE Timely(ctx, nPipes, t, d)
  <2>1. Stage(d, nPipes)
    BY ONLY <1>3, <1>4, <1>5 DEF Stage
  <2>2. d.pos >= ctx[t].pos /\ ctx[t].at # "finished"
    BY ONLY <1>1, <1>2, <1>4, <1>5
  <2>3. ASSUME NEW u \in DOMAIN ctx, u < t PROVE ctx[u].pos >= nPipes \/ ctx[u].pos > d.pos
    <3>1. PICK n \in Nat : n = ctx[u].pos
      BY PosIs
    <3>2. n >= nPipes \/ n > m
      BY ONLY <1>3, <1>4, <2>3, <3>1, u \in DOMAIN ctx
    <3>3. n >= nPipes
      BY ONLY <1>3, <1>4, <3>2, m \in Nat
    <3>4. QED
      BY ONLY <3>1, <3>3
  <2>4. QED
    BY ONLY <2>1, <2>2, <2>3 DEF Timely
<1>6. ASSUME ~ Moving(c), r.c = [c EXCEPT !.op = "done"], Alike(heap, r.heap) PROVE CowInv'
  <2>1. PICK e : e = [c EXCEPT !.op = "done"]
    OBVIOUS
  <2>2. /\ IsContext(e) /\ e.sno = c.sno /\ e.root = c.root /\ e.cur = c.cur /\ e.past = c.past /\ e.idx = c.idx
        /\ e.pair = c.pair /\ e.retired = c.retired /\ e.made = c.made /\ e.op = "done"
    BY ONLY <1>3, <2>1 DEF IsContext, Fields
  <2>3. d = Advanced(e, m + 1, "work")
    BY ONLY <1>1, <1>4, <1>6, <2>1
  <2>4. AtStage(e, d) /\ d.pos = m + 1 /\ d.at = "work"
    BY ONLY <2>2, <2>3, AdvancedIs
  <2>5. Stays(c, d, nPipes)
    BY ONLY <1>6, <2>2, <2>4 DEF AtStage, Stays
  <2>6. Alike(heap, heap')
    BY ONLY <1>2, <1>6
  <2>7. QED
    BY <1>1, <1>2, <1>5, <2>4, <2>5, <2>6, StaysInv
<1>7. CASE c.op = "append"
  <2>1. r = HandleAppend(heap, c)
    BY ONLY <1>1, <1>7 DEF Handle
  <2>2. ShapeAppend(heap, c)
    BY ONLY <1>3, <1>7 DEF Shape
  <2>3. Alike(heap, r.heap)
    BY ONLY <1>3, <2>1, <2>2, WriteAlike DEF ShapeAppend
  <2>4. r.c = [c EXCEPT !.op = "done"]
    BY ONLY <2>1 DEF HandleAppend
  <2>5. ~ Moving(c)
    BY ONLY <1>7 DEF Moving
  <2>6. QED
    BY <1>6, <2>3, <2>4, <2>5
<1>8. CASE c.op = "materialize"
  <2>1. r = HandleMaterialize(heap, c)
    BY ONLY <1>1, <1>8 DEF Handle
  <2>2. ShapeMaterialize(heap, t, c)
    BY ONLY <1>3, <1>8 DEF Shape
  <2>3. Alike(heap, r.heap)
    BY ONLY <1>3, <2>1, <2>2, FillAlike
  <2>4. r.c = [c EXCEPT !.op = "done"]
    BY ONLY <2>1 DEF HandleMaterialize
  <2>5. ~ Moving(c)
    BY ONLY <1>8 DEF Moving
  <2>6. QED
    BY <1>6, <2>3, <2>4, <2>5
<1>9. CASE Moving(c)
  <2>1. ~ Task(c)
    BY ONLY <1>9 DEF Task, Moving
  <2>2. Place(c, nPipes) = m
    BY ONLY <1>2, <1>4 DEF Place
  <2>3. Ready(heap, ctx, t, first.root, nPipes)
    BY <1>1, <1>9, WorkReady DEF Work
  <2>4. AtStage(r.c, d) /\ d.pos = m + 1 /\ d.at = "work"
    <3>1. IsContext(r.c)
      BY <1>1, <2>3, HandlerContinues DEF Continues, SameTicket
    <3>2. QED
      BY ONLY <1>1, <1>4, <3>1, AdvancedIs
  <2>5. Place(d, nPipes) = Place(ctx[t], nPipes) + 1
    BY ONLY <1>1, <2>2, <2>4 DEF Place
  <2>6. Timely(ctx, nPipes, t, d)
    BY <1>5, <2>4
  <2>7. QED
    BY <1>1, <1>2, <2>3, <2>5, <2>6, GoesInv
<1>10. QED
  BY <1>2, <1>3, <1>7, <1>8, <1>9 DEF Moving

-----------------------------------------------------------------------------
(***************************************************************************)
(* The entry of a ticket.                                                  *)
(***************************************************************************)
\* The tickets before a new one.
LEMMA EntryPassed ==
  ASSUME CowInv, NEW t, t = Len(ctx) + 1, Passed(t - 1, 2)
  PROVE  /\ t \in Nat \ {0} /\ DOMAIN ctx = 1 .. t - 1 /\ t - 1 \in {0} \cup DOMAIN ctx
         /\ \A u \in DOMAIN ctx : ctx[u].pos >= nPipes \/ ctx[u].pos >= 2
<1>1. Timed(ctx, nPipes, committed) /\ IsSeq(ctx)
  BY DEF CowInv, Sound, Good
<1>2. Len(ctx) \in Nat /\ DOMAIN ctx = 1 .. Len(ctx)
  BY ONLY <1>1, LengthIs
<1>3. t \in Nat \ {0} /\ DOMAIN ctx = 1 .. t - 1 /\ t - 1 \in {0} \cup DOMAIN ctx
  BY ONLY <1>2, t = Len(ctx) + 1
<1>4. 2 \in Nat /\ 2 <= nPipes
  BY ONLY <1>1 DEF Timed
<1>5. ASSUME NEW u \in DOMAIN ctx PROVE ctx[u].pos >= nPipes \/ ctx[u].pos >= 2
  <2>1. u < t
    BY ONLY <1>3, u \in DOMAIN ctx
  <2>2. QED
    BY <1>1, <1>3, <1>4, <2>1, PassedAhead
<1>6. QED
  BY ONLY <1>3, <1>5

LEMMA ContextIs ==
  ASSUME NEW t, NEW k, NEW c, c = Context(t, k)
  PROVE  /\ IsContext(c) /\ c.sno = t /\ c.key = k /\ c.past = Root(t - 1) /\ c.retired = <<>> /\ c.made = 0
         /\ c.later = (mode.fat = "worker") /\ c.later \in BOOLEAN /\ c.pos = 1 /\ c.at = "pipe"
<1>1. PICK b \in BOOLEAN : b = (mode.fat = "worker")
  OBVIOUS
<1>2. PICK p : p = Root(t - 1)
  OBVIOUS
<1>3. c = [sno |-> t, key |-> k, op |-> "init", root |-> None, cur |-> None, past |-> p,
           idx |-> 0, pair |-> FALSE, later |-> b, retired |-> <<>>, made |-> 0, pos |-> 1, at |-> "pipe"]
  BY ONLY <1>1, <1>2, c = Context(t, k) DEF Context
<1>4. QED
  BY ONLY <1>1, <1>2, <1>3 DEF IsContext, Fields

\* The leaf that an entry appends to is on a path where nothing is open.
LEMMA LeafOnPath ==
  ASSUME CowInv, NEW r \in DOMAIN heap, NEW key, PathReady(heap, r, key, committed)
  PROVE  LeafOf(heap, r, key) \in Below(Kids(heap), Open(heap, ctx), r)
<1>1. Good(heap, ctx, first.root, nPipes) /\ Timed(ctx, nPipes, committed)
  BY DEF CowInv, Sound
<1>2. Built(heap) /\ Unready(heap, ctx) /\ Shapes(heap, ctx)
  BY ONLY <1>1 DEF Good
<1>3. PICK rk : Ranked(Kids(heap), rk)
  BY ONLY <1>1 DEF Good, Labels
<1>4. PICK S \in SUBSET DOMAIN heap :
        /\ r \in S
        /\ \A n \in S : ~ heap[n].leaf => (heap[n].ver <= committed \/ heap[n].ready) /\ Child(heap[n], key) \in S
  BY <1>2, PathReadyIs
<1>5. \A n \in S : n \notin Open(heap, ctx)
  <2>1. SUFFICES ASSUME NEW n \in S, n \in Open(heap, ctx) PROVE FALSE
    OBVIOUS
  <2>2. PICK u \in DOMAIN ctx : n \in Opened(heap, ctx[u])
    BY ONLY <2>1 DEF Open
  <2>3. Moving(ctx[u]) /\ n[1] = u /\ ~ heap[n].leaf
    BY ONLY <1>2, <2>2, OpenedIs DEF Shapes
  <2>4. ~ heap[n].ready /\ heap[n].ver = u
    BY ONLY <1>2, <1>4, <2>1, <2>3, n \in S DEF Unready, Built
  <2>5. u <= committed
    BY ONLY <1>4, <2>3, <2>4, n \in S
  <2>6. ctx[u].at = "finished" /\ ctx[u].op = "done"
    BY ONLY <1>1, <2>5, u \in DOMAIN ctx DEF Timed, Stage
  <2>7. QED
    BY ONLY <2>3, <2>6 DEF Moving
<1>6. ASSUME NEW T \in SUBSET DOMAIN heap, r \in T, Shut(Kids(heap), Open(heap, ctx), T)
      PROVE LeafOf(heap, r, key) \in T
  <2>1. PICK V : V = S \cap T
    OBVIOUS
  <2>2. ASSUME NEW n \in V, ~ heap[n].leaf PROVE Child(heap[n], key) \in V
    <3>1. n \in S /\ n \in T /\ n \in DOMAIN heap /\ n \notin Open(heap, ctx) /\ Child(heap[n], key) \in S
      BY ONLY <1>4, <1>5, <2>1, <2>2
    <3>2. n \in DOMAIN heap \ Leaves(heap)
      BY ONLY <2>2, <3>1 DEF Leaves
    <3>3. Findch(heap[n], key) \in DOMAIN heap[n].chs
      BY ONLY <1>2, <3>2, WayIs
    <3>4. PICK i : i = Findch(heap[n], key)
      OBVIOUS
    <3>5. Edge(Kids(heap), n, i) /\ Kids(heap)[n][i] = Child(heap[n], key)
      BY ONLY <3>1, <3>3, <3>4 DEF Edge, Kids, Child
    <3>6. Child(heap[n], key) \in T
      BY ONLY <1>6, <3>1, <3>5 DEF Shut
    <3>7. QED
      BY ONLY <2>1, <3>1, <3>6
  <2>3. V \in SUBSET DOMAIN heap /\ r \in V
    BY ONLY <1>4, <1>6, <2>1
  <2>4. LeafOf(heap, r, key) \in V
    BY ONLY <1>2, <1>3, <2>2, <2>3, LeafFound
  <2>5. QED
    BY ONLY <2>1, <2>4
<1>7. LeafOf(heap, r, key) \in DOMAIN Kids(heap)
  <2>1. Shut(Kids(heap), Open(heap, ctx), DOMAIN heap)
    <3>1. \A p \in DOMAIN heap : heap[p].chs \in Seq(DOMAIN heap)
      BY ONLY <1>2 DEF Built
    <3>2. ASSUME NEW p, NEW i, Edge(Kids(heap), p, i) PROVE Kids(heap)[p][i] \in DOMAIN heap
      <4>1. p \in DOMAIN heap /\ i \in DOMAIN heap[p].chs /\ Kids(heap)[p] = heap[p].chs
        BY ONLY <3>2 DEF Edge, Kids
      <4>2. heap[p].chs \in Seq(DOMAIN heap)
        BY ONLY <3>1, <4>1
      <4>3. QED
        BY ONLY <4>1, <4>2
    <3>3. QED
      BY ONLY <3>2 DEF Shut
  <2>2. DOMAIN heap = DOMAIN Kids(heap)
    BY ONLY DEF Kids
  <2>3. QED
    BY <1>6, <2>1, <2>2
<1>8. DOMAIN Kids(heap) = DOMAIN heap
  BY ONLY DEF Kids
<1>9. QED
  BY ONLY <1>6, <1>7, <1>8 DEF Below

\* The leaf that an entry finds, on whatever path.
LEMMA EntryLeaf ==
  ASSUME CowInv, NEW r \in DOMAIN heap, NEW key
  PROVE  LeafOf(heap, r, key) \in DOMAIN heap /\ heap[LeafOf(heap, r, key)].leaf
<1>1. Built(heap)
  BY DEF CowInv, Sound, Good
<1>2. PICK rk : Ranked(Kids(heap), rk)
  BY DEF CowInv, Sound, Good, Labels
<1>3. PICK D : D = DOMAIN heap
  OBVIOUS
<1>4. ASSUME NEW n \in D, ~ heap[n].leaf PROVE Child(heap[n], key) \in D
  <2>1. heap[n].chs \in Seq(DOMAIN heap)
    BY ONLY <1>1, <1>3, n \in D DEF Built
  <2>2. n \in DOMAIN heap \ Leaves(heap)
    BY ONLY <1>3, <1>4 DEF Leaves
  <2>3. Findch(heap[n], key) \in DOMAIN heap[n].chs
    BY ONLY <1>1, <2>2, WayIs
  <2>4. PICK i, s : i = Findch(heap[n], key) /\ s = heap[n].chs
    OBVIOUS
  <2>5. s[i] \in DOMAIN heap
    BY ONLY <2>1, <2>3, <2>4
  <2>6. QED
    BY ONLY <1>3, <2>4, <2>5 DEF Child
<1>5. D \in SUBSET DOMAIN heap /\ r \in D
  BY ONLY <1>3, r \in DOMAIN heap
<1>6. QED
  BY ONLY <1>1, <1>2, <1>3, <1>4, <1>5, LeafFound

LEMMA RootInHeap ==
  ASSUME CowInv, NEW t \in {0} \cup DOMAIN ctx
  PROVE  RootOf(ctx, first.root, t) \in DOMAIN heap
BY DEF CowInv, Sound, Good, Rooted, Top, Kids

\* The entry takes a slot.
LEMMA TakesSlot ==
  ASSUME CowInv, NEW t, t = Len(ctx) + 1, Passed(t - 1, 2), NEW k, NEW c, c = Context(t, k), MayAppend(c),
         NEW r, r = TakeSlot(c), heap' = r.heap, ctx' = Append(ctx, r.c), Kept
  PROVE  CowInv'
<1>1. /\ t \in Nat \ {0} /\ DOMAIN ctx = 1 .. t - 1 /\ t - 1 \in {0} \cup DOMAIN ctx
      /\ \A u \in DOMAIN ctx : ctx[u].pos >= nPipes \/ ctx[u].pos >= 2
  BY EntryPassed
<1>2. PICK P : P = RootOf(ctx, first.root, t - 1) /\ P \in DOMAIN heap
  BY <1>1, RootInHeap
<1>3. /\ IsContext(c) /\ c.sno = t /\ c.key = k /\ c.past = P /\ c.retired = <<>> /\ c.made = 0
      /\ c.later = (mode.fat = "worker") /\ c.later \in BOOLEAN /\ c.pos = 1 /\ c.at = "pipe"
  BY <1>2, ContextIs, RootIsRootOf
<1>4. PICK leaf : leaf = LeafOf(heap, c.past, c.key) /\ leaf \in DOMAIN heap /\ heap[leaf].leaf
  BY <1>2, <1>3, EntryLeaf
<1>5. PICK s : s = Slot(c.sno, c.key, IF c.later THEN Unset ELSE c.sno, c.later)
  OBVIOUS
<1>6. PICK n : n = AppendSlot(heap[leaf], s)
  OBVIOUS
<1>7. /\ r.heap = [heap EXCEPT ![leaf] = n]
      /\ r.c = IF c.later THEN [[c EXCEPT !.root = c.past] EXCEPT !.op = "append", !.cur = leaf, !.idx = Len(n.slots)]
                ELSE [[c EXCEPT !.root = c.past] EXCEPT !.op = "done"]
  BY ONLY <1>4, <1>5, <1>6, r = TakeSlot(c) DEF TakeSlot
<1>8. PICK g, d : g = r.heap /\ d = r.c
  OBVIOUS
<1>9. Built(heap) /\ IsSeq(ctx) /\ Sound(heap, ctx, first.root, nPipes, committed)
  BY DEF CowInv, Sound, Good
<1>10. PICK l \in Nat : l = Len(heap[leaf].slots)
  <2>1. IsSeq(heap[leaf].slots)
    BY ONLY <1>4, <1>9 DEF Built, IsNode
  <2>2. QED
    BY ONLY <2>1, LengthIs
<1>11. Alike(heap, g) /\ Len(n.slots) = l + 1 /\ DOMAIN g[leaf].slots = 1 .. l + 1
  <2>1. g = [heap EXCEPT ![leaf] = AppendSlot(heap[leaf], s)]
    BY ONLY <1>6, <1>7, <1>8
  <2>2. QED
    BY ONLY <1>4, <1>6, <1>9, <1>10, <2>1, AppendAlike
<1>12. /\ IsContext(d) /\ d.sno = t /\ d.root = P /\ d.past = P /\ d.retired = <<>> /\ d.made = 0 /\ d.pos = 1 /\ d.at = "pipe"
       /\ d.op = (IF c.later THEN "append" ELSE "done") /\ (c.later => d.cur = leaf /\ d.idx = Len(n.slots))
  <2>1. CASE c.later
    <3>1. d = [c EXCEPT !.root = P, !.op = "append", !.cur = leaf, !.idx = Len(n.slots)]
      BY ONLY <1>3, <1>7, <1>8, <2>1
    <3>2. QED
      BY ONLY <1>3, <2>1, <3>1 DEF IsContext, Fields
  <2>2. CASE ~ c.later
    <3>1. d = [c EXCEPT !.root = P, !.op = "done"]
      BY ONLY <1>3, <1>7, <1>8, <2>2
    <3>2. QED
      BY ONLY <1>3, <2>2, <3>1 DEF IsContext, Fields
  <2>3. QED
    BY ONLY <2>1, <2>2
<1>13. d.op = "append" => ShapeAppend(g, d)
  <2>1. SUFFICES ASSUME d.op = "append" PROVE ShapeAppend(g, d)
    OBVIOUS
  <2>2. d.cur = leaf /\ d.idx = l + 1
    BY ONLY <1>11, <1>12, <2>1
  <2>3. leaf \in DOMAIN g /\ g[leaf].leaf
    BY ONLY <1>4, <1>11 DEF Alike
  <2>4. d.idx \in DOMAIN g[leaf].slots
    BY ONLY <1>11, <2>2, l \in Nat
  <2>5. QED
    BY ONLY <1>12, <2>2, <2>3, <2>4 DEF ShapeAppend
<1>14. d.op = "append" => OnPath(heap, ctx, first.root, t, d)
  <2>1. SUFFICES ASSUME d.op = "append" PROVE OnPath(heap, ctx, first.root, t, d)
    OBVIOUS
  <2>2. mode.fat = "worker" /\ d.cur = leaf
    BY ONLY <1>3, <1>12, <2>1
  <2>3. PathReady(heap, P, c.key, committed)
    BY ONLY <1>3, <2>2, MayAppend(c) DEF MayAppend
  <2>4. leaf \in Below(Kids(heap), Open(heap, ctx), P)
    BY <1>2, <1>3, <1>4, <2>3, LeafOnPath
  <2>5. QED
    BY ONLY <1>2, <1>12, <2>2, <2>4 DEF OnPath
<1>15. Arrives(g, ctx, d, t, first.root)
  <2>1. d.op \in {"append", "done"}
    BY ONLY <1>12
  <2>2. QED
    BY ONLY <1>1, <1>2, <1>12, <1>13, <2>1 DEF Arrives
<1>16. Becomes(ctx, ctx', t, d) /\ IsSeq(ctx')
  BY <1>8, <1>9, AppendBecomes
<1>17. Appending(heap, ctx, first.root, nPipes, committed, g, t, d, ctx')
  BY ONLY <1>1, <1>9, <1>11, <1>12, <1>14, <1>15, <1>16 DEF Appending
<1>18. Sound(g, ctx', first.root, nPipes, committed)
  BY ONLY <1>17, AppendingSound
<1>19. Sound(heap', ctx', first'.root, nPipes', committed')
  BY ONLY <1>8, <1>18, heap' = r.heap, Kept DEF Kept
<1>20. QED
  BY ONLY <1>19 DEF CowInv

\* The next entry finds what it needs to copy the root.
LEMMA RootEnters ==
  ASSUME CowInv, NEW t, t = Len(ctx) + 1, Passed(t - 1, 2), NEW k, NEW c, c = Context(t, k)
  PROVE  Enter(heap, ctx, c, t, Root(t - 1), first.root, nPipes)
<1>1. /\ t \in Nat \ {0} /\ DOMAIN ctx = 1 .. t - 1 /\ t - 1 \in {0} \cup DOMAIN ctx
      /\ \A u \in DOMAIN ctx : ctx[u].pos >= nPipes \/ ctx[u].pos >= 2
  BY EntryPassed
<1>2. PICK P : P = RootOf(ctx, first.root, t - 1)
  OBVIOUS
<1>3. /\ IsContext(c) /\ c.sno = t /\ c.past = P /\ c.retired = <<>> /\ c.made = 0
      /\ c.later \in BOOLEAN /\ c.pos = 1 /\ c.at = "pipe"
  BY <1>2, ContextIs, RootIsRootOf
<1>4. /\ Good(heap, ctx, first.root, nPipes) /\ Timed(ctx, nPipes, committed) /\ IsSeq(ctx)
      /\ Sound(heap, ctx, first.root, nPipes, committed)
  BY DEF CowInv, Sound, Good
<1>5. Ahead(ctx, nPipes, P[1], 2)
  <2>1. SUFFICES ASSUME P[1] \in DOMAIN ctx PROVE ctx[P[1]].pos >= 2
    BY DEF Ahead
  <2>2. PICK n \in Nat : n = ctx[P[1]].pos
    BY <2>1, PosIs
  <2>3. nPipes \in Nat /\ nPipes >= 2
    BY ONLY <1>4 DEF Timed
  <2>4. n >= nPipes \/ n >= 2
    BY ONLY <1>1, <2>1, <2>2
  <2>5. QED
    BY ONLY <2>2, <2>3, <2>4
<1>6. \A i : Edge(Kids(heap), P, i) => Kids(heap)[P][i] \notin Open(heap, ctx)
  <2>1. ASSUME NEW i, Edge(Kids(heap), P, i) PROVE Kids(heap)[P][i] \notin Open(heap, ctx)
    BY ONLY <1>1, <1>2, <1>4, <1>5, <2>1, RootFree
  <2>2. QED
    BY ONLY <2>1
<1>7. Enter(heap, ctx, c, t, P, first.root, nPipes)
  BY ONLY <1>1, <1>2, <1>3, <1>4, <1>6 DEF Enter, Roots
<1>8. QED
  BY <1>2, <1>7, RootIsRootOf

\* The entry copies the root.
LEMMA CopiesRoot ==
  ASSUME CowInv, NEW t, t = Len(ctx) + 1, Passed(t - 1, 2), NEW k, NEW c, c = Context(t, k),
         NEW r, r = HandleInit(heap, c), heap' = r.heap, ctx' = Append(ctx, r.c), Kept
  PROVE  CowInv'
<1>1. /\ t \in Nat \ {0} /\ DOMAIN ctx = 1 .. t - 1 /\ t - 1 \in {0} \cup DOMAIN ctx
      /\ \A u \in DOMAIN ctx : ctx[u].pos >= nPipes \/ ctx[u].pos >= 2
  BY EntryPassed
<1>2. PICK P : P = RootOf(ctx, first.root, t - 1)
  OBVIOUS
<1>3. /\ IsContext(c) /\ c.sno = t /\ c.past = P /\ c.retired = <<>> /\ c.made = 0
      /\ c.later \in BOOLEAN /\ c.pos = 1 /\ c.at = "pipe"
  BY <1>2, ContextIs, RootIsRootOf
<1>4. /\ Good(heap, ctx, first.root, nPipes) /\ Timed(ctx, nPipes, committed) /\ IsSeq(ctx)
      /\ Sound(heap, ctx, first.root, nPipes, committed)
  BY DEF CowInv, Sound, Good
<1>5. Enter(heap, ctx, c, t, P, first.root, nPipes)
  BY <1>2, RootEnters, RootIsRootOf
<1>6. PICK g, d : g = r.heap /\ d = r.c
  OBVIOUS
<1>7. Becomes(ctx, ctx', t, d) /\ IsSeq(ctx')
  BY <1>4, <1>6, AppendBecomes
<1>8. Entering(heap, ctx, first.root, nPipes, committed, g, t, d, ctx')
  BY ONLY <1>1, <1>3, <1>4, <1>5, <1>6, <1>7, r = HandleInit(heap, c) DEF Entering
<1>9. Sound(g, ctx', first.root, nPipes, committed)
  BY ONLY <1>8, EnteringSound
<1>10. Sound(heap', ctx', first'.root, nPipes', committed')
  BY ONLY <1>6, <1>9, heap' = r.heap, Kept DEF Kept
<1>11. QED
  BY ONLY <1>10 DEF CowInv

LEMMA EntryInv ==
  ASSUME CowInv, NEW k \in Keys, Entry(k)
  PROVE  CowInv'
<1>1. PICK t, c, r : /\ t = Len(ctx) + 1 /\ c = Context(t, k)
                     /\ r = IF MayAppend(c) THEN TakeSlot(c) ELSE HandleInit(heap, c)
  OBVIOUS
<1>2. Passed(t - 1, 2) /\ heap' = r.heap /\ ctx' = Append(ctx, r.c) /\ Kept
  BY <1>1 DEF Entry, Kept
<1>3. CASE MayAppend(c)
  BY <1>1, <1>2, <1>3, TakesSlot
<1>4. CASE ~ MayAppend(c)
  BY <1>1, <1>2, <1>4, CopiesRoot
<1>5. QED
  BY <1>3, <1>4

-----------------------------------------------------------------------------
\* No node of the initial tree has more than MaxKeys children.
LEMMA GroupFits ==
  ASSUME NEW n \in Nat, NEW i \in 0 .. Groups(n) - 1, NEW a \in Nat, NEW w \in Nat,
         a = GroupStart(n, i), a + w = GroupStart(n, i + 1), a + w <= n
  PROVE  w <= MaxKeys
<1>1. Half \in Nat /\ Half >= 2 /\ MaxKeys = 2 * Half - 1
  BY NodeAssumption DEF MaxKeys
<1>2. CASE n >= 2 * Half
  <2>1. GroupStart(n, i + 1) - GroupStart(n, i) \in Half .. MaxKeys
    BY <1>2, BuildSizes
  <2>2. GroupStart(n, i + 1) - GroupStart(n, i) = w
    BY ONLY a \in Nat, w \in Nat, a = GroupStart(n, i), a + w = GroupStart(n, i + 1)
  <2>3. QED
    BY ONLY <2>1, <2>2
<1>3. CASE n < 2 * Half
  BY ONLY <1>1, <1>3, n \in Nat, a \in Nat, w \in Nat, a + w <= n
<1>4. QED
  BY ONLY <1>1, <1>2, <1>3, n \in Nat

LEMMA GrowsNarrow ==
  ASSUME NEW N, NEW f, NEW top, NEW h, Grows(N, f, top, h)
  PROVE  Narrow(h)
<1>1. /\ N \in Nat /\ Levels(N, f) /\ IsTop(N, f, top) /\ DOMAIN h = {None} \cup Ids(f, top)
      /\ h[None].chs = <<>>
      /\ \A l \in 1 .. top : \A i \in 0 .. f[l] - 1 : \E a, w : Spans(f, l, i, h[<<0, l, i>>], a, w)
  BY DEF Grows
<1>2. MaxKeys \in Nat /\ 0 <= MaxKeys + 1
  BY NodeAssumption DEF MaxKeys
<1>3. Len(<<>>) = 0
  OBVIOUS
<1>4. ASSUME NEW n \in DOMAIN h PROVE Len(h[n].chs) <= MaxKeys + 1
  <2>1. CASE h[n].chs = <<>>
    BY ONLY <1>2, <1>3, <2>1
  <2>2. CASE h[n].chs # <<>>
    <3>1. PICK l, i : l \in 1 .. top /\ i \in 0 .. f[l] - 1 /\ n = <<0, l, i>>
      BY <1>1, <2>2 DEF Ids
    <3>2. PICK a, w : Spans(f, l, i, h[n], a, w)
      BY <1>1, <3>1
    <3>3. l # 1
      BY <2>2, <3>2 DEF Spans
    <3>4. /\ h[n].chs = [x \in 1 .. w |-> <<0, l - 1, a + x - 1>>] /\ a \in Nat /\ w \in Nat
          /\ a + w <= f[l - 1]
          /\ a = GroupStart(f[l - 1], i) /\ a + w = GroupStart(f[l - 1], i + 1)
      BY ONLY <3>2, <3>3 DEF Spans
    <3>5. f[l - 1] \in Nat /\ f[l] = Groups(f[l - 1])
      <4>1. l - 1 \in 1 .. N + 1 /\ l \in 1 .. N + 1
        BY <1>1, <3>1, <3>3 DEF IsTop
      <4>2. QED
        BY <1>1, <4>1 DEF Levels
    <3>6. w <= MaxKeys
      BY <3>1, <3>4, <3>5, GroupFits
    <3>7. Len(h[n].chs) = w
      BY ONLY <3>4
    <3>8. QED
      BY ONLY <1>2, <3>4, <3>6, <3>7
  <2>3. QED
    BY <2>1, <2>2
<1>5. QED
  BY <1>4 DEF Narrow

LEMMA InitInv ==
  ASSUME Init
  PROVE  CowInv
<1>1. PICK keys \in Contents : first = Build(keys)
  BY DEF Init
<1>2. keys \in Seq(Int)
  BY ContentsAssumption
<1>3. Good(Build(keys).heap, <<>>, Build(keys).root, nPipes)
  BY <1>2, BuildGood
<1>4. heap = Build(keys).heap /\ first.root = Build(keys).root /\ ctx = <<>> /\ committed = 0 /\ nPipes \in PipeCounts
  BY <1>1 DEF Init
<1>5. Good(heap, ctx, first.root, nPipes)
  BY ONLY <1>3, <1>4
<1>6. DOMAIN ctx = {}
  BY ONLY <1>4
<1>7. Timed(ctx, nPipes, committed)
  <2>1. nPipes \in Nat /\ nPipes >= 2
    BY <1>4, PoolAssumption
  <2>2. DOMAIN ctx = 1 .. 0 /\ committed <= 0 /\ committed \in Nat /\ 0 \in Nat
    BY <1>4, <1>6
  <2>3. QED
    BY <1>6, <2>1, <2>2 DEF Timed
<1>8. Appends(heap, ctx, first.root)
  BY ONLY <1>6 DEF Appends
<1>9. ExactAll(heap, ctx, first.root)
  BY ONLY <1>6 DEF ExactAll
<1>10. Sized(heap, ctx)
  <2>1. Len(keys) \in Nat
    BY <1>2
  <2>2. PICK f, low, top : BuiltAs(keys, f, low, top, Build(keys))
    BY <2>1, BuildIs
  <2>3. Narrow(Build(keys).heap)
    BY <2>1, <2>2, PlantGrows, GrowsNarrow
  <2>4. QED
    BY ONLY <1>4, <1>6, <2>3 DEF Sized, Slim
<1>11. QED
  BY ONLY <1>5, <1>7, <1>8, <1>9, <1>10 DEF CowInv, Sound

LEMMA StepInv ==
  ASSUME CowInv, [Next]_vars
  PROVE  CowInv'
<1>1. CASE Commit
  BY <1>1, CommitInv
<1>2. ASSUME NEW k \in Keys, Entry(k) PROVE CowInv'
  BY <1>2, EntryInv
<1>3. ASSUME NEW t \in Entered, Step(t) PROVE CowInv'
  <2>1. t \in DOMAIN ctx
    BY DEF Entered
  <2>2. CASE Inner(t)
    BY <2>1, <2>2, InnerInv
  <2>3. CASE Exit(t)
    BY <2>1, <2>3, ExitInv
  <2>4. CASE Dispatch(t)
    BY <2>1, <2>4, DispatchInv
  <2>5. CASE Work(t)
    BY <2>1, <2>5, WorkInv
  <2>6. CASE Finish(t)
    BY <2>1, <2>6, FinishInv
  <2>7. QED
    BY <1>3, <2>2, <2>3, <2>4, <2>5, <2>6 DEF Step
<1>4. CASE UNCHANGED vars
  <2>1. heap' = heap /\ ctx' = ctx /\ first' = first /\ nPipes' = nPipes /\ committed' = committed
    BY <1>4 DEF vars
  <2>2. QED
    BY <2>1 DEF CowInv
<1>5. QED
  BY <1>1, <1>2, <1>3, <1>4 DEF Next

\* The bookkeeping of the copies (Good), of the stages (Timed), of the reserved slots
\* (Appends), of what each ticket has replaced (ExactAll) and of the numbers of
\* children (Sized) is kept by every step, in every mode and for every pool.
THEOREM CowSound == Spec => []CowInv
<1>1. Init => CowInv
  BY InitInv
<1>2. CowInv /\ [Next]_vars => CowInv'
  BY StepInv
<1>3. QED
  BY <1>1, <1>2, PTL DEF Spec

\* No writer meets a freed node: nothing that a committed ticket retired is below
\* the newest root, nor is it the node that a ticket copies, fills, reads or appends
\* to, however the handlers of the tickets in flight interleave (retire_replaced,
\* update_cow, handle_fat_append, handle_materialize).
THEOREM CowWritersSafe == Spec => []WritersSafe
<1>1. CowInv => WritersSafe
  BY InvSafe
<1>2. QED
  BY <1>1, CowSound, PTL

-----------------------------------------------------------------------------
\* Every node, the unfinished ones too: then more is below a root.
LEMMA BelowAll ==
  ASSUME NEW C, NEW U, NEW r
  PROVE  Below(C, U, r) \subseteq Below(C, {}, r)
BY DEF Below, Shut

\* A ticket that has done its task replaced what its root no longer reaches.
LEMMA AccountsExact ==
  ASSUME NEW C, NEW U, NEW G, NEW r \in DOMAIN C, NEW t, NEW P, Accounts(C, U, {}, G, G, r, t, P),
         \A p \in DOMAIN C : C[p] \in Seq(DOMAIN C), G \cap Below(C, {}, r) = {}
  PROVE  G = Below(C, {}, P) \ Below(C, {}, r)
<1>1. /\ r = P \/ P \in G
      /\ G \subseteq Below(C, U, P)
      /\ \A p, i : p \in G /\ Edge(C, p, i) => C[p][i] \in G \/ Handed(C, U, r, t, C[p][i])
  BY DEF Accounts
<1>2. G \subseteq Below(C, {}, P)
  BY ONLY <1>1, BelowAll
<1>3. ASSUME NEW p, NEW i, Edge(C, p, i) PROVE C[p][i] \in DOMAIN C
  <2>1. p \in DOMAIN C /\ i \in DOMAIN C[p]
    BY ONLY <1>3 DEF Edge
  <2>2. C[p] \in Seq(DOMAIN C)
    BY ONLY <2>1, \A q \in DOMAIN C : C[q] \in Seq(DOMAIN C)
  <2>3. QED
    BY ONLY <2>1, <2>2
<1>4. ASSUME NEW m, Handed(C, U, r, t, m) PROVE m \in Below(C, {}, r)
  <2>1. PICK z, j : z \in Below(C, U, r) /\ Edge(C, z, j) /\ C[z][j] = m
    BY ONLY <1>4 DEF Handed
  <2>2. z \in Below(C, {}, r)
    BY ONLY <2>1, BelowAll
  <2>3. QED
    BY ONLY <1>3, <2>1, <2>2, BelowEdge
<1>5. PICK S : S = G \cup Below(C, {}, r)
  OBVIOUS
<1>6. S \in SUBSET DOMAIN C
  BY ONLY <1>2, <1>5 DEF Below
<1>7. P \in S
  BY ONLY <1>1, <1>5, r \in DOMAIN C, BelowRoot
<1>8. Shut(C, {}, S)
  <2>1. ASSUME NEW p, NEW i, p \in S, Edge(C, p, i) PROVE C[p][i] \in S
    <3>1. CASE p \in G
      BY ONLY <1>1, <1>4, <1>5, <2>1, <3>1
    <3>2. CASE p \in Below(C, {}, r)
      <4>1. C[p][i] \in DOMAIN C
        BY ONLY <1>3, <2>1
      <4>2. C[p][i] \in Below(C, {}, r)
        BY ONLY <2>1, <3>2, <4>1, BelowEdge
      <4>3. QED
        BY ONLY <1>5, <4>2
    <3>3. QED
      BY ONLY <1>5, <2>1, <3>1, <3>2
  <2>2. QED
    BY ONLY <2>1 DEF Shut
<1>9. Below(C, {}, P) \subseteq S
  BY ONLY <1>6, <1>7, <1>8 DEF Below
<1>10. QED
  BY ONLY <1>2, <1>5, <1>9, G \cap Below(C, {}, r) = {}

LEMMA InvExact ==
  ASSUME CowInv
  PROVE  RetiredExactly
<1>1. SUFFICES ASSUME committed > 0
      PROVE  /\ Range(ctx[committed].retired) = Reach(heap, Root(committed - 1)) \ Reach(heap, Root(committed))
             /\ IsInjective(ctx[committed].retired)
  BY DEF RetiredExactly
<1>2. PICK v : v = committed
  OBVIOUS
<1>3. /\ Good(heap, ctx, first.root, nPipes) /\ Timed(ctx, nPipes, committed)
      /\ ExactAll(heap, ctx, first.root)
  BY DEF CowInv, Sound
<1>4. v \in Nat \ {0} /\ v \in DOMAIN ctx /\ v - 1 \in {0} \cup DOMAIN ctx /\ ctx[v].at = "finished"
  <2>1. PICK l \in Nat : DOMAIN ctx = 1 .. l /\ v <= l
    BY ONLY <1>2, <1>3 DEF Timed
  <2>2. v \in Nat /\ v > 0
    BY ONLY <1>1, <1>2, <1>3 DEF Timed
  <2>3. v \in DOMAIN ctx /\ v - 1 \in {0} \cup DOMAIN ctx
    BY ONLY <2>1, <2>2
  <2>4. v <= committed
    BY ONLY <1>2, <2>2
  <2>5. ctx[v].at = "finished"
    BY ONLY <1>3, <2>3, <2>4 DEF Timed
  <2>6. QED
    BY ONLY <2>2, <2>3, <2>5
<1>5. ctx[v].op = "done"
  BY ONLY <1>3, <1>4 DEF Timed, Stage
<1>6. Opened(heap, ctx[v]) = {} /\ Quit(ctx[v]) = Gone(ctx[v])
  BY ONLY <1>5 DEF Opened, Quit, Moving
<1>7. PICK C, U, R, L, r, P, G : /\ C = Kids(heap) /\ U = Open(heap, ctx) /\ R = Retired(ctx) /\ L = Copied(ctx)
                           /\ r = RootOf(ctx, first.root, v) /\ P = RootOf(ctx, first.root, v - 1)
                           /\ G = Gone(ctx[v])
  OBVIOUS
<1>8. r = ctx[v].root
  BY ONLY <1>4, <1>7 DEF RootOf
<1>9. Accounts(C, U, {}, G, G, r, v, P) /\ IsInjective(ctx[v].retired)
  <2>1. Exact(heap, ctx, first.root, v)
    BY ONLY <1>3, <1>4 DEF ExactAll
  <2>2. QED
    BY ONLY <1>6, <1>7, <1>8, <2>1 DEF Exact
<1>10. Forest(C, R, L, U) /\ Top(C, R, U, r, v) /\ Top(C, R, U, P, v - 1) /\ Built(heap)
  <2>1. v \in {0} \cup DOMAIN ctx
    BY ONLY <1>4
  <2>2. QED
    BY ONLY <1>3, <1>4, <1>7, <2>1 DEF Good, Rooted
<1>11. r \in DOMAIN heap /\ P \in DOMAIN heap /\ DOMAIN C = DOMAIN heap
  BY ONLY <1>7, <1>10 DEF Top, Kids
<1>12. \A p \in DOMAIN C : C[p] \in Seq(DOMAIN C)
  BY ONLY <1>10 DEF Forest, Nodes
<1>13. G \cap Below(C, {}, r) = {}
  <2>1. R[v] = G
    BY ONLY <1>4, <1>7 DEF Retired
  <2>2. ASSUME NEW m \in Below(C, {}, r) PROVE m \notin R[v]
    <3>1. v \in Nat /\ v <= v
      BY ONLY <1>4
    <3>2. QED
      BY ONLY <1>10, <2>2, <3>1, BelowKept
  <2>3. QED
    BY ONLY <2>1, <2>2
<1>14. G = Below(C, {}, P) \ Below(C, {}, r)
  BY ONLY <1>9, <1>11, <1>12, <1>13, AccountsExact
<1>15. PICK rk : Ranked(Kids(heap), rk)
  BY ONLY <1>3 DEF Good, Labels
<1>16. Reach(heap, r) = Below(C, {}, r) /\ Reach(heap, P) = Below(C, {}, P)
  BY ONLY <1>7, <1>10, <1>11, <1>15, ReachIs
<1>17. Root(v) = r /\ Root(v - 1) = P
  BY ONLY <1>7, RootIsRootOf
<1>18. Range(ctx[v].retired) = G
  BY ONLY <1>7 DEF Gone
<1>19. QED
  BY ONLY <1>2, <1>9, <1>14, <1>16, <1>17, <1>18

\* Exact retirement: when a ticket is committed, what it retired is what the root before
\* it reaches and its own does not, each node once, however the tickets in flight go on
\* copying: nothing leaks and nothing still in use is freed (retire_replaced, update_cow,
\* handle_init_cow).
THEOREM CowRetiredExactly == Spec => []RetiredExactly
<1>1. CowInv => RetiredExactly
  BY InvExact
<1>2. QED
  BY <1>1, CowSound, PTL

-----------------------------------------------------------------------------
(***************************************************************************)
(* What a worker that materialises waits for: slots that are not pending,  *)
(* and leaves that are ready.                                              *)
(***************************************************************************)
\* Somebody still fills in each leaf that is not ready, the initial ones excepted.
Ripens(h, cx) ==
  \A n \in DOMAIN h : h[n].leaf /\ n[1] # 0 /\ ~ h[n].ready =>
    n[1] \in DOMAIN cx /\ cx[n[1]].op = "materialize" /\ n \in Filling(h, cx[n[1]])

\* Somebody still writes each slot of a leaf that is pending.
Writes(c, n, j)  == c.op = "append" /\ c.cur = n /\ c.idx = j
Reserved(h, cx) ==
  \A n \in DOMAIN h : \A j \in DOMAIN h[n].slots : h[n].leaf /\ h[n].slots[j].pending =>
    h[n].slots[j].ver \in DOMAIN cx /\ Writes(cx[h[n].slots[j].ver], n, j)

\* Workers materialise only where they write all that is fat (w).
Deferred(cx, w) == \A t \in DOMAIN cx : cx[t].later = w /\ (cx[t].op = "materialize" => w)

Awaited(h, cx, w) == Deferred(cx, w) /\ Reserved(h, cx) /\ (w => Ripens(h, cx))

\* Ticket t, with a context d by now, makes heap g of h: new leaves are those that it has
\* to fill in, the old ones stay what they are.
Touches(h, g, t, d) ==
  /\ DOMAIN h \subseteq DOMAIN g
  /\ \A n \in DOMAIN h : n[1] # t => g[n].chs = h[n].chs
  /\ \A n \in DOMAIN h : g[n].leaf => g[n] = h[n]
  /\ \A n \in DOMAIN g \ DOMAIN h : g[n].leaf =>
       n[1] = t /\ g[n].slots = <<>> /\ (d.later => d.op = "materialize" /\ n \in Filling(g, d))
  /\ d.op = "materialize" => d.later

LEMMA TouchesReserved ==
  ASSUME NEW h, NEW g, NEW cx, NEW cx1, NEW t, NEW d, Reserved(h, cx), Touches(h, g, t, d),
         Becomes(cx, cx1, t, d), t \in DOMAIN cx => Moving(cx[t])
  PROVE  Reserved(g, cx1)
<1>1. SUFFICES ASSUME NEW n \in DOMAIN g, NEW j \in DOMAIN g[n].slots, g[n].leaf, g[n].slots[j].pending
               PROVE  g[n].slots[j].ver \in DOMAIN cx1 /\ Writes(cx1[g[n].slots[j].ver], n, j)
  BY DEF Reserved
<1>2. n \in DOMAIN h
  <2>1. SUFFICES ASSUME n \notin DOMAIN h PROVE FALSE
    OBVIOUS
  <2>2. g[n].slots = <<>>
    BY <1>1, <2>1 DEF Touches
  <2>3. QED
    BY ONLY <2>2, j \in DOMAIN g[n].slots
<1>3. g[n] = h[n]
  BY <1>1, <1>2 DEF Touches
<1>4. PICK u : u = h[n].slots[j].ver /\ u \in DOMAIN cx /\ Writes(cx[u], n, j)
  BY <1>1, <1>2, <1>3 DEF Reserved
<1>5. u # t
  BY <1>4 DEF Writes, Moving
<1>6. cx1[u] = cx[u] /\ u \in DOMAIN cx1
  BY <1>4, <1>5 DEF Becomes
<1>7. QED
  BY <1>3, <1>4, <1>6

\* The leaves of another ticket are below the same node.
LEMMA FillingKept ==
  ASSUME NEW h, NEW g, NEW t, NEW d, Touches(h, g, t, d), NEW u, u # t, NEW c, ShapeMaterialize(h, u, c)
  PROVE  Filling(g, c) = Filling(h, c)
<1>1. CASE c.cur = None
  BY <1>1 DEF Filling
<1>2. CASE c.cur # None
  <2>1. c.cur \in DOMAIN h /\ c.cur[1] = u
    BY <1>2 DEF ShapeMaterialize
  <2>2. g[c.cur].chs = h[c.cur].chs
    BY <2>1 DEF Touches
  <2>3. QED
    BY ONLY <1>2, <2>2 DEF Filling
<1>3. QED
  BY <1>1, <1>2

LEMMA TouchesRipens ==
  ASSUME NEW h, NEW g, NEW cx, NEW cx1, NEW t, NEW d, Ripens(h, cx), Touches(h, g, t, d), Shapes(h, cx),
         Becomes(cx, cx1, t, d), t \in DOMAIN cx => Moving(cx[t]), d.later
  PROVE  Ripens(g, cx1)
<1>1. SUFFICES ASSUME NEW n \in DOMAIN g, g[n].leaf, n[1] # 0, ~ g[n].ready
               PROVE  n[1] \in DOMAIN cx1 /\ cx1[n[1]].op = "materialize" /\ n \in Filling(g, cx1[n[1]])
  BY DEF Ripens
<1>2. CASE n \in DOMAIN h
  <2>1. g[n] = h[n]
    BY <1>1, <1>2 DEF Touches
  <2>2. PICK u : u = n[1] /\ u \in DOMAIN cx /\ cx[u].op = "materialize" /\ n \in Filling(h, cx[u])
    BY <1>1, <1>2, <2>1 DEF Ripens
  <2>3. u # t
    BY <2>2 DEF Moving
  <2>4. cx1[u] = cx[u] /\ u \in DOMAIN cx1
    BY <2>2, <2>3 DEF Becomes
  <2>5. ShapeMaterialize(h, u, cx[u])
    BY <2>2 DEF Shapes, Shape
  <2>6. Filling(g, cx[u]) = Filling(h, cx[u])
    BY <2>3, <2>5, FillingKept
  <2>7. QED
    BY <2>2, <2>4, <2>6
<1>3. CASE n \notin DOMAIN h
  <2>1. n[1] = t /\ d.op = "materialize" /\ n \in Filling(g, d)
    BY <1>1, <1>3 DEF Touches
  <2>2. t \in DOMAIN cx1 /\ cx1[t] = d
    BY DEF Becomes
  <2>3. QED
    BY <2>1, <2>2
<1>4. QED
  BY <1>2, <1>3

\* A ticket that copies nodes disturbs none of this.
LEMMA TouchesAwaited ==
  ASSUME NEW h, NEW g, NEW cx, NEW cx1, NEW t, NEW d, NEW w, Awaited(h, cx, w), Touches(h, g, t, d), Shapes(h, cx),
         Becomes(cx, cx1, t, d), t \in DOMAIN cx => Moving(cx[t]), d.later = w
  PROVE  Awaited(g, cx1, w)
<1>1. Deferred(cx1, w)
  <2>1. ASSUME NEW u \in DOMAIN cx1 PROVE cx1[u].later = w /\ (cx1[u].op = "materialize" => w)
    <3>1. CASE u = t
      BY <3>1 DEF Becomes, Touches
    <3>2. CASE u # t
      <4>1. u \in DOMAIN cx /\ cx1[u] = cx[u]
        BY <3>2 DEF Becomes
      <4>2. QED
        BY <4>1 DEF Awaited, Deferred
    <3>3. QED
      BY <3>1, <3>2
  <2>2. QED
    BY <2>1 DEF Deferred
<1>2. Reserved(g, cx1)
  BY TouchesReserved DEF Awaited
<1>3. w => Ripens(g, cx1)
  BY TouchesRipens DEF Awaited
<1>4. QED
  BY ONLY <1>1, <1>2, <1>3 DEF Awaited

\* Heap f, with which ticket t calls update_cow: it has no leaves but those of h.
Based(h, f, t) ==
  /\ DOMAIN h \subseteq DOMAIN f
  /\ \A n \in DOMAIN h : n[1] # t => f[n].chs = h[n].chs
  /\ \A n \in DOMAIN f : f[n].leaf => n \in DOMAIN h /\ f[n] = h[n]

\* New leaves of update_cow are the targets of its materialisation.
LEMMA UpdateFilling ==
  ASSUME NEW f, NEW e, CanUpdate(f, e), NEW r, NEW i, NEW N, Updated(f, e, r, i, N), NEW d, AtStage(r.c, d),
         e.cur # None, NEW n \in Range(N), r.heap[n].leaf
  PROVE  d.op = (IF d.later THEN "materialize" ELSE "done") /\ n \in Filling(r.heap, d)
<1>1. N = <<New(e, 1)>> \/ N = <<New(e, 1), New(e, 2)>>
  BY ONLY Updated(f, e, r, i, N) DEF Updated
<1>2. /\ Len(N) \in {1, 2} /\ DOMAIN N = 1 .. Len(N) /\ Range(N) = {N[j] : j \in 1 .. Len(N)}
  BY ONLY <1>1, NewNodes, CanUpdate(f, e) DEF CanUpdate
<1>3. /\ i \in Nat
      /\ \A l \in 1 .. Len(N) : r.heap[e.cur].chs[i + l - 1] = N[l]
  BY ONLY Updated(f, e, r, i, N), CanUpdate(f, e), InstalledIs
<1>4. PICK l \in 1 .. Len(N) : n = N[l]
  BY ONLY <1>2, n \in Range(N)
<1>5. /\ r.c.op = (IF e.later THEN "materialize" ELSE "done")
      /\ r.c.cur = e.cur /\ r.c.idx = i /\ r.c.pair = (Len(N) = 2)
  <2>1. N[1] \in Range(N)
    BY ONLY <1>2
  <2>2. Len(N) = 1 => n = N[1]
    BY ONLY <1>4
  <2>3. QED
    BY ONLY <2>1, <2>2, n \in Range(N), r.heap[n].leaf, Updated(f, e, r, i, N) DEF Updated
<1>6. r.c.later = e.later
  BY ONLY Updated(f, e, r, i, N) DEF Updated, SameTicket
<1>7. d.op = r.c.op /\ d.later = r.c.later /\ d.cur = e.cur /\ d.idx = i /\ d.pair = (Len(N) = 2)
  BY ONLY <1>5, AtStage(r.c, d) DEF AtStage
<1>8. i + l - 1 \in Targets(d)
  <2>1. l = 1 \/ (l = 2 /\ Len(N) = 2)
    BY ONLY <1>2
  <2>2. i + l - 1 = i \/ (i + l - 1 = i + 1 /\ Len(N) = 2)
    BY ONLY <1>3, <2>1
  <2>3. QED
    BY ONLY <1>7, <2>2 DEF Targets
<1>9. Filling(r.heap, d) = {r.heap[e.cur].chs[k] : k \in Targets(d)}
  BY ONLY <1>7, e.cur # None DEF Filling
<1>10. n \in Filling(r.heap, d)
  BY ONLY <1>3, <1>4, <1>8, <1>9
<1>11. QED
  BY ONLY <1>5, <1>6, <1>7, <1>10

LEMMA UpdateTouches ==
  ASSUME NEW h, NEW f, NEW t, Based(h, f, t), t # 0, NEW e, CanUpdate(f, e), e.sno = t, e.cur[1] = t,
         NEW r, r = UpdateCow(f, e), NEW d, AtStage(r.c, d)
  PROVE  Touches(h, r.heap, t, d)
<1>1. PICK i, N : Updated(f, e, r, i, N)
  BY UpdateCowIs
<1>2. PICK g : g = r.heap
  OBVIOUS
<1>3. /\ DOMAIN g = DOMAIN f \cup Range(N) /\ (\A n \in DOMAIN f : n # e.cur => g[n] = f[n])
      /\ ~ g[e.cur].leaf /\ \A n \in Range(N) : g[n].slots = <<>>
  BY ONLY <1>1, <1>2 DEF Updated
<1>4. \A n \in Range(N) : n[1] = t /\ n \notin DOMAIN f
  <2>1. N = <<New(e, 1)>> \/ N = <<New(e, 1), New(e, 2)>>
    BY ONLY <1>1 DEF Updated
  <2>2. \A n \in Range(N) : n[1] = e.sno /\ (n = New(e, 1) \/ n = New(e, 2))
    BY ONLY <2>1, NewNodes, CanUpdate(f, e) DEF CanUpdate
  <2>3. QED
    BY ONLY <2>2, e.sno = t, CanUpdate(f, e) DEF CanUpdate
<1>5. e.cur # None
  BY DEF None
<1>6. \A n \in DOMAIN h : n[1] # t => g[n].chs = h[n].chs
  BY <1>3 DEF Based
<1>7. ASSUME NEW n \in DOMAIN g, g[n].leaf, n \notin Range(N) PROVE n \in DOMAIN h /\ g[n] = h[n]
  <2>1. n \in DOMAIN f /\ n # e.cur
    BY ONLY <1>3, <1>7
  <2>2. g[n] = f[n] /\ f[n].leaf
    BY ONLY <1>3, <1>7, <2>1
  <2>3. QED
    BY <2>1, <2>2 DEF Based
<1>8. ASSUME NEW n \in Range(N), g[n].leaf
      PROVE  d.op = (IF d.later THEN "materialize" ELSE "done") /\ n \in Filling(g, d)
  BY ONLY <1>1, <1>2, <1>5, <1>8, CanUpdate(f, e), AtStage(r.c, d), UpdateFilling
<1>9. d.op = "materialize" => d.later
  <2>1. r.c.op = "materialize" => e.later
    BY ONLY <1>1 DEF Updated
  <2>2. r.c.later = e.later
    BY ONLY <1>1 DEF Updated, SameTicket
  <2>3. QED
    BY ONLY <2>1, <2>2, AtStage(r.c, d) DEF AtStage
<1>10. DOMAIN h \subseteq DOMAIN f
  BY DEF Based
<1>11. Touches(h, g, t, d)
  <2>1. \A n \in DOMAIN h : g[n].leaf => g[n] = h[n]
    BY ONLY <1>3, <1>4, <1>7, <1>10
  <2>2. ASSUME NEW n \in DOMAIN g \ DOMAIN h, g[n].leaf
        PROVE  n[1] = t /\ g[n].slots = <<>> /\ (d.later => d.op = "materialize" /\ n \in Filling(g, d))
    <3>1. n \in Range(N)
      BY ONLY <1>7, <2>2
    <3>2. QED
      BY ONLY <1>3, <1>4, <1>8, <2>2, <3>1
  <2>3. QED
    BY ONLY <1>3, <1>6, <1>9, <1>10, <2>1, <2>2 DEF Touches
<1>12. QED
  BY ONLY <1>2, <1>11

\* New children and a ready mark do not make a node a leaf.
LEMMA SameKind ==
  ASSUME NEW u, "leaf" \in DOMAIN u, NEW x, NEW v, v = [u EXCEPT !.chs = x] \/ v = [u EXCEPT !.ready = x]
  PROVE  "leaf" \in DOMAIN v /\ v.leaf = u.leaf
OBVIOUS

LEMMA NodeFields ==
  ASSUME NEW n, IsNode(n)
  PROVE  "leaf" \in DOMAIN n
BY DEF IsNode

\* What the handlers of ticket t write before they call update_cow is not a leaf.
LEMMA OpenBased ==
  ASSUME NEW h, Built(h), NEW t, NEW K, K \subseteq DOMAIN h, \A n \in K : n[1] = t,
         NEW f, DOMAIN f = DOMAIN h, \A n \in DOMAIN h \ K : f[n] = h[n], \A n \in K : ~ f[n].leaf
  PROVE  Based(h, f, t)
BY DEF Based

LEMMA HandlerTouches ==
  ASSUME NEW h, NEW cx, NEW t, NEW fr, NEW np, Ready(h, cx, t, fr, np), NEW c, c = cx[t], NEW r, r = Handle(h, c),
         NEW d, AtStage(r.c, d)
  PROVE  Touches(h, r.heap, t, d)
<1>1. /\ Moving(c) /\ IsContext(c) /\ c.sno = t /\ t # 0 /\ ShapeMoving(h, t, c) /\ Built(h)
      /\ c.op = "split" => ShapeSplit(h, t, c)
  BY DEF Ready, Good, Shapes, Shape
<1>2. CASE c.op = "down"
  <2>1. PICK x, f : x = h[c.past].chs /\ f = [h EXCEPT ![c.cur].chs = x]
    OBVIOUS
  <2>2. r = UpdateCow(f, c)
    BY <1>2, <2>1 DEF Handle, HandleDown
  <2>3. Starts(h, cx, f, t, c, {c.cur}, {}, fr, np, Place(c, np) + 1)
    BY <1>2, <2>1, DownStarts
  <2>4. CanUpdate(f, c)
    BY ONLY <2>3 DEF Starts, Begins, Copies
  <2>5. c.cur \in DOMAIN h /\ c.cur[1] = t /\ ~ h[c.cur].leaf /\ IsNode(h[c.cur])
    BY ONLY <1>1 DEF ShapeMoving, Built
  <2>6. /\ DOMAIN f = DOMAIN h /\ (\A n \in DOMAIN h \ {c.cur} : f[n] = h[n])
        /\ f[c.cur] = [h[c.cur] EXCEPT !.chs = x]
    BY ONLY <2>1, <2>5
  <2>7. ~ f[c.cur].leaf
    BY ONLY <2>5, <2>6, SameKind, NodeFields
  <2>8. Based(h, f, t)
    <3>1. PICK K : K = {c.cur}
      OBVIOUS
    <3>2. K \subseteq DOMAIN h /\ (\A n \in K : n[1] = t /\ ~ f[n].leaf) /\ \A n \in DOMAIN h \ K : f[n] = h[n]
      BY ONLY <2>5, <2>6, <2>7, <3>1
    <3>3. QED
      BY ONLY <1>1, <2>6, <3>2, OpenBased
  <2>9. QED
    BY ONLY <1>1, <2>2, <2>4, <2>5, <2>8, AtStage(r.c, d), UpdateTouches
<1>3. CASE c.op = "split"
  <2>1. PICK n, m, a, b, x, y, f, e :
           Divided(h, c, n, m, a, b, x, y, f, e) /\ HandleSplit(h, c) = UpdateCow(f, e)
    BY SplitIs
  <2>2. r = UpdateCow(f, e)
    BY ONLY r = Handle(h, c), <1>3, <2>1 DEF Handle
  <2>3. Starts(h, cx, f, t, e, {n, m}, {}, fr, np, Place(c, np) + 1)
    BY <1>3, <2>1, SplitStarts
  <2>4. CanUpdate(f, e)
    BY ONLY <2>3 DEF Starts, Begins, Copies
  <2>5. /\ n = h[c.cur].chs[c.idx] /\ m = h[c.cur].chs[c.idx + 1] /\ x \in {n, m} /\ y \in {n, m}
        /\ f = [h EXCEPT ![n].chs = a, ![m].chs = b, ![x].ready = TRUE] /\ e = [c EXCEPT !.cur = y]
    BY ONLY <2>1 DEF Divided
  <2>6. e.sno = t /\ e.cur[1] = t
    <3>1. e.sno = t /\ e.cur = y
      BY ONLY <1>1, <2>5 DEF IsContext, Fields
    <3>2. QED
      BY ONLY <2>3, <3>1 DEF Starts, Begins, Copies
  <2>7. n # m /\ n[1] = t /\ m[1] = t /\ n \in DOMAIN h /\ m \in DOMAIN h /\ ~ h[n].leaf /\ ~ h[m].leaf
    <3>1. Opened(h, c) = {n, m}
      BY ONLY <1>3, <2>5 DEF Opened
    <3>2. QED
      BY ONLY <1>1, <1>3, <2>5, <3>1 DEF ShapeSplit
  <2>8. PICK h1, h2 : /\ h1 = [h EXCEPT ![n].chs = a] /\ h2 = [h1 EXCEPT ![m].chs = b]
                      /\ f = [h2 EXCEPT ![x].ready = TRUE]
    BY ONLY <2>5
  <2>9. DOMAIN f = DOMAIN h /\ (\A z \in DOMAIN h \ {n, m} : f[z] = h[z])
    BY ONLY <2>5, <2>7, <2>8
  <2>10. ~ f[n].leaf /\ ~ f[m].leaf
    <3>1. "leaf" \in DOMAIN h[n] /\ "leaf" \in DOMAIN h[m]
      BY ONLY <1>1, <2>7, NodeFields DEF Built
    <3>2. /\ DOMAIN h1 = DOMAIN h /\ h1[n] = [h[n] EXCEPT !.chs = a] /\ h1[m] = h[m]
          /\ DOMAIN h2 = DOMAIN h /\ h2[m] = [h1[m] EXCEPT !.chs = b] /\ h2[n] = h1[n]
      BY ONLY <2>7, <2>8
    <3>3. \A z \in {n, m} : "leaf" \in DOMAIN h2[z] /\ ~ h2[z].leaf
      BY ONLY <2>7, <3>1, <3>2, SameKind
    <3>4. f[x] = [h2[x] EXCEPT !.ready = TRUE] /\ \A z \in {n, m} : z # x => f[z] = h2[z]
      <4>1. f = [h2 EXCEPT ![x].ready = TRUE]
        BY ONLY <2>8
      <4>2. x \in DOMAIN h2 /\ n \in DOMAIN h2 /\ m \in DOMAIN h2
        BY ONLY <2>5, <2>7, <3>2
      <4>3. QED
        BY ONLY <4>1, <4>2
    <3>5. ~ f[x].leaf
      BY ONLY <2>5, <3>3, <3>4, SameKind
    <3>6. QED
      BY ONLY <3>3, <3>4, <3>5
  <2>11. Based(h, f, t)
    <3>1. PICK K : K = {n, m}
      OBVIOUS
    <3>2. K \subseteq DOMAIN h /\ (\A z \in K : z[1] = t /\ ~ f[z].leaf) /\ \A z \in DOMAIN h \ K : f[z] = h[z]
      BY ONLY <2>7, <2>9, <2>10, <3>1
    <3>3. QED
      BY ONLY <1>1, <2>9, <3>2, OpenBased
  <2>12. QED
    BY ONLY <1>1, <2>2, <2>4, <2>6, <2>11, AtStage(r.c, d), UpdateTouches
<1>4. QED
  BY <1>1, <1>2, <1>3 DEF Moving

LEMMA LeafTouches ==
  ASSUME NEW h, NEW t, NEW P, NEW F, NEW o, NEW g, NEW d, LeafMade(h, t, P, F, o, g, d),
         d.op = (IF d.later THEN "materialize" ELSE "done")
  PROVE  Touches(h, g, t, d)
<1>1. DOMAIN g = DOMAIN h \cup F /\ \A n \in DOMAIN h : g[n] = h[n]
  BY DEF LeafMade, LeafGrown
<1>2. \A n \in F : n[1] = t
  BY DEF LeafMade, LeafGrown, Grown
<1>3. \A n \in F : g[n].leaf => g[n].slots = <<>> /\ n \in Filling(g, d)
  BY DEF LeafMade, LeafFilled
<1>4. QED
  BY ONLY <1>1, <1>2, <1>3, d.op = (IF d.later THEN "materialize" ELSE "done") DEF Touches

LEMMA EntryTouches ==
  ASSUME NEW h, NEW cx, NEW c, NEW t, NEW P, NEW fr, NEW np, Enter(h, cx, c, t, P, fr, np),
         NEW r, r = HandleInit(h, c), NEW d, d = r.c
  PROVE  Touches(h, r.heap, t, d)
<1>1. t # 0 /\ c.sno = t /\ c.past = P
  BY DEF Enter, Roots
<1>2. CASE h[P].leaf
  <2>1. PICK F, o : LeafMade(h, t, P, F, o, r.heap, d) /\ d.op = (IF d.later THEN "materialize" ELSE "done")
    BY <1>2, LeafRoot
  <2>2. QED
    BY ONLY <2>1, LeafTouches
<1>3. CASE ~ h[P].leaf
  <2>1. Goes(h, cx, c, t, fr, np)
    <3>1. CASE Len(h[P].keys) < MaxKeys
      BY <1>3, <3>1, InnerRoot
    <3>2. CASE ~ (Len(h[P].keys) < MaxKeys)
      BY <1>3, <3>2, FullRoot
    <3>3. QED
      BY <3>1, <3>2
  <2>2. PICK f, e, F : /\ Starts(h, cx, f, t, e, {}, F, fr, np, 1) /\ HandleInit(h, c) = UpdateCow(f, e)
                       /\ SameTicket(c, e) /\ RootCopied(h, t, P, f, e, F)
    BY ONLY <1>1, <2>1 DEF Goes
  <2>3. CanUpdate(f, e)
    BY ONLY <2>2 DEF Starts, Begins, Copies
  <2>4. r = UpdateCow(f, e)
    BY ONLY <2>2, r = HandleInit(h, c)
  <2>5. e.sno = t
    BY ONLY <1>1, <2>2 DEF SameTicket
  <2>6. PICK V : RootParts(h, t, P, f, e, F, V)
    BY ONLY <2>2 DEF RootCopied
  <2>7. /\ DOMAIN f = DOMAIN h \cup F /\ (\A n \in DOMAIN h : f[n] = h[n])
        /\ e.cur \in F /\ \A n \in F : n[1] = t
    BY ONLY <2>6 DEF RootParts
  <2>8. \A n \in F : ~ f[n].leaf
    BY ONLY <2>2 DEF RootCopied
  <2>9. Based(h, f, t)
    BY ONLY <2>7, <2>8 DEF Based
  <2>10. AtStage(r.c, d)
    <3>1. PICK i, N : Updated(f, e, r, i, N)
      BY ONLY <2>3, <2>4, UpdateCowIs
    <3>2. IsContext(r.c)
      BY ONLY <3>1 DEF Updated, SameTicket
    <3>3. QED
      BY ONLY <3>2, d = r.c DEF AtStage
  <2>11. e.cur[1] = t
    BY ONLY <2>7
  <2>12. QED
    BY ONLY <1>1, <2>3, <2>4, <2>5, <2>9, <2>10, <2>11, UpdateTouches
<1>4. QED
  BY <1>2, <1>3

\* A ticket that only goes on disturbs none of this.
LEMMA RestsAwaited ==
  ASSUME NEW h, NEW cx, NEW cx1, NEW t \in DOMAIN cx, NEW d, NEW w, Awaited(h, cx, w),
         AtStage(cx[t], d), Becomes(cx, cx1, t, d)
  PROVE  Awaited(h, cx1, w)
<1>1. DOMAIN cx1 = DOMAIN cx
  BY DEF Becomes
<1>2. ASSUME NEW u \in DOMAIN cx
      PROVE  /\ cx1[u].op = cx[u].op /\ cx1[u].later = cx[u].later /\ cx1[u].root = cx[u].root
             /\ cx1[u].cur = cx[u].cur /\ cx1[u].idx = cx[u].idx /\ cx1[u].pair = cx[u].pair
  <2>1. CASE u = t
    BY <2>1 DEF Becomes, AtStage
  <2>2. CASE u # t
    BY <2>2 DEF Becomes
  <2>3. QED
    BY <2>1, <2>2
<1>3. Deferred(cx1, w)
  BY <1>1, <1>2 DEF Awaited, Deferred
<1>4. Reserved(h, cx1)
  <2>1. ASSUME NEW n \in DOMAIN h, NEW j \in DOMAIN h[n].slots, h[n].leaf, h[n].slots[j].pending
        PROVE  h[n].slots[j].ver \in DOMAIN cx1 /\ Writes(cx1[h[n].slots[j].ver], n, j)
    <3>1. PICK u : u = h[n].slots[j].ver /\ u \in DOMAIN cx /\ Writes(cx[u], n, j)
      BY <2>1 DEF Awaited, Reserved
    <3>2. Writes(cx1[u], n, j)
      BY <1>2, <3>1 DEF Writes
    <3>3. QED
      BY <1>1, <3>1, <3>2
  <2>2. QED
    BY <2>1 DEF Reserved
<1>5. ASSUME w PROVE Ripens(h, cx1)
  <2>1. ASSUME NEW n \in DOMAIN h, h[n].leaf, n[1] # 0, ~ h[n].ready
        PROVE  n[1] \in DOMAIN cx1 /\ cx1[n[1]].op = "materialize" /\ n \in Filling(h, cx1[n[1]])
    <3>1. PICK u : u = n[1] /\ u \in DOMAIN cx /\ cx[u].op = "materialize" /\ n \in Filling(h, cx[u])
      BY <1>5, <2>1 DEF Awaited, Ripens
    <3>2. Filling(h, cx1[u]) = Filling(h, cx[u])
      <4>1. Targets(cx1[u]) = Targets(cx[u])
        BY ONLY <1>2, <3>1 DEF Targets
      <4>2. cx1[u].cur = cx[u].cur /\ cx1[u].root = cx[u].root
        BY ONLY <1>2, <3>1
      <4>3. QED
        BY ONLY <4>1, <4>2 DEF Filling
    <3>3. QED
      BY <1>1, <1>2, <3>1, <3>2
  <2>2. QED
    BY <2>1 DEF Ripens
<1>6. QED
  BY ONLY <1>3, <1>4, <1>5 DEF Awaited

LEMMA DeferredKept ==
  ASSUME NEW h, NEW cx, NEW cx1, NEW t, NEW d, NEW w, Awaited(h, cx, w), Becomes(cx, cx1, t, d),
         d.later = w, d.op # "materialize"
  PROVE  Deferred(cx1, w)
<1>1. ASSUME NEW u \in DOMAIN cx1 PROVE cx1[u].later = w /\ (cx1[u].op = "materialize" => w)
  <2>1. CASE u = t
    BY <2>1 DEF Becomes
  <2>2. CASE u # t
    <3>1. u \in DOMAIN cx /\ cx1[u] = cx[u]
      BY <2>2 DEF Becomes
    <3>2. QED
      BY <3>1 DEF Awaited, Deferred
  <2>3. QED
    BY <2>1, <2>2
<1>2. QED
  BY <1>1 DEF Deferred

\* Leaves get ready, or what is in them changes.
Ripened(h, g, cx, t) ==
  /\ Alike(h, g) /\ \A n \in DOMAIN h : h[n].ready => g[n].ready
  /\ t \in DOMAIN cx /\ cx[t].op = "materialize" => \A n \in Filling(h, cx[t]) : g[n].ready

LEMMA RipensKept ==
  ASSUME NEW h, NEW g, NEW cx, NEW cx1, NEW t, NEW d, Ripens(h, cx), Shapes(h, cx), Ripened(h, g, cx, t),
         Becomes(cx, cx1, t, d)
  PROVE  Ripens(g, cx1)
<1>1. SUFFICES ASSUME NEW n \in DOMAIN g, g[n].leaf, n[1] # 0, ~ g[n].ready
               PROVE  n[1] \in DOMAIN cx1 /\ cx1[n[1]].op = "materialize" /\ n \in Filling(g, cx1[n[1]])
  BY DEF Ripens
<1>2. n \in DOMAIN h /\ h[n].leaf /\ ~ h[n].ready
  BY <1>1 DEF Ripened, Alike
<1>3. PICK u : u = n[1] /\ u \in DOMAIN cx /\ cx[u].op = "materialize" /\ n \in Filling(h, cx[u])
  BY <1>1, <1>2 DEF Ripens
<1>4. u # t
  BY <1>1, <1>3 DEF Ripened
<1>5. cx1[u] = cx[u] /\ u \in DOMAIN cx1
  BY <1>3, <1>4 DEF Becomes
<1>6. ShapeMaterialize(h, u, cx[u])
  BY <1>3 DEF Shapes, Shape
<1>7. Filling(g, cx[u]) = Filling(h, cx[u])
  <2>1. cx[u].cur # None => g[cx[u].cur].chs = h[cx[u].cur].chs
    BY <1>6 DEF ShapeMaterialize, Ripened, Alike
  <2>2. QED
    BY ONLY <2>1 DEF Filling
<1>8. QED
  BY <1>3, <1>5, <1>7

-----------------------------------------------------------------------------
\* What is left pending in heap g was so in heap h, and ticket t does not write it.
Pends(h, g, cx, t) ==
  \A n \in DOMAIN g : \A j \in DOMAIN g[n].slots : g[n].leaf /\ g[n].slots[j].pending =>
    /\ n \in DOMAIN h /\ h[n].leaf /\ j \in DOMAIN h[n].slots /\ h[n].slots[j] = g[n].slots[j]
    /\ t \in DOMAIN cx => ~ Writes(cx[t], n, j)

LEMMA ReservedKept ==
  ASSUME NEW h, NEW g, NEW cx, NEW cx1, NEW t, NEW d, Reserved(h, cx), Pends(h, g, cx, t), Becomes(cx, cx1, t, d)
  PROVE  Reserved(g, cx1)
<1>1. SUFFICES ASSUME NEW n \in DOMAIN g, NEW j \in DOMAIN g[n].slots, g[n].leaf, g[n].slots[j].pending
               PROVE  g[n].slots[j].ver \in DOMAIN cx1 /\ Writes(cx1[g[n].slots[j].ver], n, j)
  BY DEF Reserved
<1>2. /\ n \in DOMAIN h /\ h[n].leaf /\ j \in DOMAIN h[n].slots /\ h[n].slots[j] = g[n].slots[j]
      /\ t \in DOMAIN cx => ~ Writes(cx[t], n, j)
  BY <1>1 DEF Pends
<1>3. PICK u : u = g[n].slots[j].ver /\ u \in DOMAIN cx /\ Writes(cx[u], n, j)
  BY <1>1, <1>2 DEF Reserved
<1>4. u # t
  BY <1>2, <1>3
<1>5. cx1[u] = cx[u] /\ u \in DOMAIN cx1
  BY <1>3, <1>4 DEF Becomes
<1>6. QED
  BY <1>3, <1>5

\* handle_fat_append publishes its own slot.
LEMMA WrittenAwaited ==
  ASSUME NEW h, NEW cx, NEW cx1, NEW t \in DOMAIN cx, NEW c, c = cx[t], NEW d, NEW w, Awaited(h, cx, w),
         Shapes(h, cx), Built(h), c.op = "append", NEW g, g = HandleAppend(h, c).heap,
         d.op = "done", d.later = c.later, Becomes(cx, cx1, t, d)
  PROVE  Awaited(g, cx1, w)
<1>1. c.cur \in DOMAIN h /\ h[c.cur].leaf /\ c.idx \in DOMAIN h[c.cur].slots
  BY DEF Shapes, Shape, ShapeAppend
<1>2. PICK n, s : n = c.cur /\ s = Slot(c.sno, c.key, c.sno, FALSE)
  OBVIOUS
<1>3. PICK b : b = [h[n].slots EXCEPT ![c.idx] = s]
  OBVIOUS
<1>4. g = [h EXCEPT ![n] = [h[n] EXCEPT !.slots = b]]
  BY ONLY <1>2, <1>3, g = HandleAppend(h, c).heap DEF HandleAppend
<1>5. PICK x : x = [h[n] EXCEPT !.slots = b]
  OBVIOUS
<1>6. DOMAIN g = DOMAIN h /\ g[n] = x /\ \A l \in DOMAIN h : l # n => g[l] = h[l]
  BY ONLY <1>1, <1>2, <1>4, <1>5
<1>7. x.ready = h[n].ready /\ x.slots = b /\ x.leaf = h[n].leaf
  <2>1. IsNode(h[n])
    BY ONLY Built(h), <1>1, <1>2 DEF Built
  <2>2. QED
    BY ONLY <1>5, <2>1 DEF IsNode
<1>8. DOMAIN b = DOMAIN h[n].slots /\ b[c.idx] = s /\ \A j \in DOMAIN b : j # c.idx => b[j] = h[n].slots[j]
  BY ONLY <1>1, <1>2, <1>3
<1>9. Alike(h, g)
  BY <1>1, WriteAlike
<1>10. Ripened(h, g, cx, t)
  <2>1. \A l \in DOMAIN h : h[l].ready => g[l].ready
    BY ONLY <1>6, <1>7
  <2>2. QED
    BY <1>9, <2>1 DEF Ripened
<1>11. Pends(h, g, cx, t)
  <2>1. ASSUME NEW l \in DOMAIN g, NEW j \in DOMAIN g[l].slots, g[l].leaf, g[l].slots[j].pending
        PROVE  /\ l \in DOMAIN h /\ h[l].leaf /\ j \in DOMAIN h[l].slots /\ h[l].slots[j] = g[l].slots[j]
               /\ ~ Writes(cx[t], l, j)
    <3>1. CASE l # n
      BY ONLY <1>2, <1>6, <2>1, <3>1, c = cx[t] DEF Writes
    <3>2. CASE l = n
      <4>1. j \in DOMAIN b /\ g[l].slots[j] = b[j]
        BY ONLY <1>6, <1>7, <2>1, <3>2
      <4>2. j # c.idx
        BY ONLY <1>2, <1>8, <2>1, <4>1 DEF Slot
      <4>3. QED
        BY ONLY <1>1, <1>2, <1>8, <3>2, <4>1, <4>2, c = cx[t] DEF Writes
    <3>3. QED
      BY ONLY <3>1, <3>2
  <2>2. QED
    BY ONLY <2>1 DEF Pends
<1>12. d.later = w
  BY DEF Awaited, Deferred
<1>13. Deferred(cx1, w)
  BY <1>12, DeferredKept
<1>14. Reserved(g, cx1)
  BY <1>11, ReservedKept DEF Awaited
<1>15. w => Ripens(g, cx1)
  BY <1>10, RipensKept DEF Awaited
<1>16. QED
  BY ONLY <1>13, <1>14, <1>15 DEF Awaited

\* handle_materialize makes its leaves ready.
LEMMA FilledAwaited ==
  ASSUME NEW h, NEW cx, NEW cx1, NEW t \in DOMAIN cx, NEW c, c = cx[t], NEW d, NEW w, Awaited(h, cx, w),
         Shapes(h, cx), Built(h), c.op = "materialize", NEW g, g = HandleMaterialize(h, c).heap,
         d.op = "done", d.later = c.later, Becomes(cx, cx1, t, d)
  PROVE  Awaited(g, cx1, w)
<1>1. ShapeMaterialize(h, t, c)
  BY DEF Shapes, Shape
<1>2. PICK N : N = Filling(h, c)
  OBVIOUS
<1>3. PICK V : V = [n \in N |-> [j \in DOMAIN h[n].keys |-> NewValue(h[c.past], c.sno, c.key, c.sno, h[n].keys[j])]]
  OBVIOUS
<1>4. g = Over(h, [n \in N |-> [h[n] EXCEPT !.ready = TRUE, !.vals = V[n]]])
  <2>1. PICK left : left = IF c.cur = None THEN c.root ELSE h[c.cur].chs[c.idx]
    OBVIOUS
  <2>2. N = {left} \cup (IF c.pair THEN {h[c.cur].chs[c.idx + 1]} ELSE {})
    <3>1. CASE c.cur = None
      <4>1. ~ c.pair
        BY ONLY <1>1, <3>1 DEF ShapeMaterialize
      <4>2. QED
        BY ONLY <1>2, <2>1, <3>1, <4>1 DEF Filling
    <3>2. CASE c.cur # None
      <4>1. Targets(c) = {c.idx} \cup (IF c.pair THEN {c.idx + 1} ELSE {})
        BY ONLY DEF Targets
      <4>2. QED
        BY ONLY <1>2, <2>1, <3>2, <4>1 DEF Filling
    <3>3. QED
      BY ONLY <3>1, <3>2
  <2>3. g = Over(h, [n \in N |-> [h[n] EXCEPT !.ready = TRUE, !.vals = [j \in DOMAIN h[n].keys |->
                       NewValue(h[c.past], c.sno, c.key, c.sno, h[n].keys[j])]]])
    BY ONLY <2>1, <2>2, g = HandleMaterialize(h, c).heap DEF HandleMaterialize
  <2>4. QED
    BY ONLY <1>3, <2>3
<1>5. \A n \in N : n \in DOMAIN h /\ h[n].leaf
  BY ONLY <1>1, <1>2 DEF Filling, ShapeMaterialize
<1>6. PICK F : F = [n \in N |-> [h[n] EXCEPT !.ready = TRUE, !.vals = V[n]]]
  OBVIOUS
<1>7. ASSUME NEW n \in N PROVE F[n].ready /\ F[n].slots = h[n].slots
  <2>1. IsNode(h[n])
    BY ONLY <1>5, Built(h), n \in N DEF Built
  <2>2. PICK m, v : m = h[n] /\ v = V[n]
    OBVIOUS
  <2>3. F[n] = [m EXCEPT !.ready = TRUE, !.vals = v]
    BY ONLY <1>6, <2>2, n \in N
  <2>4. QED
    BY ONLY <2>1, <2>2, <2>3 DEF IsNode
<1>8. DOMAIN F = N
  BY ONLY <1>6
<1>9. /\ DOMAIN g = DOMAIN h /\ (\A n \in DOMAIN h : n \notin N => g[n] = h[n])
      /\ \A n \in N : g[n] = F[n]
  BY ONLY <1>4, <1>5, <1>6, <1>8 DEF Over
<1>10. Alike(h, g)
  BY <1>1, FillAlike
<1>11. Ripened(h, g, cx, t)
  <2>1. \A n \in DOMAIN h : h[n].ready => g[n].ready
    BY ONLY <1>7, <1>9
  <2>2. \A n \in Filling(h, cx[t]) : g[n].ready
    BY ONLY <1>2, <1>7, <1>9, c = cx[t]
  <2>3. QED
    BY ONLY <1>10, <2>1, <2>2 DEF Ripened
<1>12. Pends(h, g, cx, t)
  <2>1. \A n \in DOMAIN g : g[n].slots = h[n].slots /\ n \in DOMAIN h
    BY ONLY <1>7, <1>9
  <2>2. \A n \in DOMAIN g : g[n].leaf = h[n].leaf
    BY ONLY <1>9, <1>10 DEF Alike
  <2>3. \A n, j : ~ Writes(cx[t], n, j)
    BY ONLY c = cx[t], c.op = "materialize" DEF Writes
  <2>4. QED
    BY ONLY <2>1, <2>2, <2>3 DEF Pends
<1>13. d.later = w
  BY DEF Awaited, Deferred
<1>14. Deferred(cx1, w)
  BY <1>13, DeferredKept
<1>15. Reserved(g, cx1)
  BY <1>12, ReservedKept DEF Awaited
<1>16. w => Ripens(g, cx1)
  BY <1>11, RipensKept DEF Awaited
<1>17. QED
  BY ONLY <1>14, <1>15, <1>16 DEF Awaited

\* An entry reserves a slot, for a worker when all that is fat is left to workers.
Takes(h, t, c, d, g, leaf) ==
  /\ Built(h) /\ leaf \in DOMAIN h /\ h[leaf].leaf
  /\ g = [h EXCEPT ![leaf] = AppendSlot(h[leaf], Slot(t, c.key, IF c.later THEN Unset ELSE t, c.later))]
  /\ IF c.later THEN Writes(d, leaf, Len(g[leaf].slots)) ELSE d.op = "done"
  /\ d.later = c.later

LEMMA TakenAwaited ==
  ASSUME NEW h, NEW cx, NEW cx1, NEW t, NEW c, NEW d, NEW w, Awaited(h, cx, w), Shapes(h, cx), t \notin DOMAIN cx,
         NEW g, NEW leaf, Takes(h, t, c, d, g, leaf), c.later = w, w \in BOOLEAN, Becomes(cx, cx1, t, d)
  PROVE  Awaited(g, cx1, w)
<1>1. PICK s : s = Slot(t, c.key, IF c.later THEN Unset ELSE t, c.later)
  OBVIOUS
<1>2. s.ver = t /\ s.pending = w
  BY ONLY <1>1, c.later = w DEF Slot
<1>3. g = [h EXCEPT ![leaf] = AppendSlot(h[leaf], s)] /\ leaf \in DOMAIN h /\ h[leaf].leaf /\ IsNode(h[leaf]) /\ Built(h)
  BY ONLY <1>1, Takes(h, t, c, d, g, leaf) DEF Takes, Built
<1>4. PICK a, b : a = h[leaf].slots /\ b = Append(a, s)
  OBVIOUS
<1>5. PICK x : x = [h[leaf] EXCEPT !.slots = b]
  OBVIOUS
<1>6. DOMAIN g = DOMAIN h /\ g[leaf] = x /\ \A n \in DOMAIN h : n # leaf => g[n] = h[n]
  BY ONLY <1>3, <1>4, <1>5 DEF AppendSlot
<1>7. x.ready = h[leaf].ready /\ x.slots = b /\ x.leaf = h[leaf].leaf
  BY ONLY <1>3, <1>5 DEF IsNode
<1>8. PICK l \in Nat : /\ l = Len(a) /\ DOMAIN a = 1 .. l /\ DOMAIN b = 1 .. l + 1 /\ Len(b) = l + 1
                       /\ b[l + 1] = s /\ \A j \in 1 .. l : b[j] = a[j]
  <2>1. PICK S : a \in Seq(S)
    BY ONLY <1>3, <1>4 DEF IsNode, IsSeq
  <2>2. PICK T : T = S \cup {s}
    OBVIOUS
  <2>3. a \in Seq(T) /\ s \in T
    BY ONLY <2>1, <2>2
  <2>4. QED
    BY ONLY <1>4, <2>3
<1>9. Alike(h, g)
  BY ONLY <1>3, AppendAlike
<1>10. Ripened(h, g, cx, t)
  <2>1. \A n \in DOMAIN h : h[n].ready => g[n].ready
    BY ONLY <1>6, <1>7
  <2>2. QED
    BY ONLY <1>9, <2>1, t \notin DOMAIN cx DEF Ripened
<1>11. Deferred(cx1, w)
  <2>1. d.later = w /\ d.op # "materialize"
    BY ONLY Takes(h, t, c, d, g, leaf), c.later = w DEF Takes, Writes
  <2>2. QED
    BY ONLY <2>1, Awaited(h, cx, w), Becomes(cx, cx1, t, d), DeferredKept
<1>12. Reserved(g, cx1)
  <2>1. ASSUME NEW n \in DOMAIN g, NEW j \in DOMAIN g[n].slots, g[n].leaf, g[n].slots[j].pending
        PROVE  g[n].slots[j].ver \in DOMAIN cx1 /\ Writes(cx1[g[n].slots[j].ver], n, j)
    <3>1. CASE n = leaf /\ j = l + 1
      <4>1. g[n].slots[j] = s
        BY ONLY <1>6, <1>7, <1>8, <3>1
      <4>2. c.later /\ Len(g[leaf].slots) = l + 1
        BY ONLY <1>2, <1>6, <1>7, <1>8, <2>1, <4>1, c.later = w, w \in BOOLEAN
      <4>3. Writes(d, n, j)
        BY ONLY <3>1, <4>2, Takes(h, t, c, d, g, leaf) DEF Takes
      <4>4. QED
        BY ONLY <1>2, <4>1, <4>3, Becomes(cx, cx1, t, d) DEF Becomes
    <3>2. CASE ~ (n = leaf /\ j = l + 1)
      <4>1. n \in DOMAIN h /\ h[n].leaf /\ j \in DOMAIN h[n].slots /\ g[n].slots[j] = h[n].slots[j]
        <5>1. CASE n # leaf
          BY ONLY <1>6, <2>1, <5>1
        <5>2. CASE n = leaf
          <6>1. j \in 1 .. l + 1 /\ j # l + 1
            BY ONLY <1>6, <1>7, <1>8, <2>1, <3>2, <5>2
          <6>2. j \in 1 .. l
            BY ONLY <6>1, l \in Nat
          <6>3. QED
            BY ONLY <1>3, <1>4, <1>6, <1>7, <1>8, <5>2, <6>2
        <5>3. QED
          BY ONLY <5>1, <5>2
      <4>2. PICK u : u = h[n].slots[j].ver /\ u \in DOMAIN cx /\ Writes(cx[u], n, j)
        BY ONLY <2>1, <4>1, Awaited(h, cx, w) DEF Awaited, Reserved
      <4>3. cx1[u] = cx[u] /\ u \in DOMAIN cx1
        BY ONLY <4>2, t \notin DOMAIN cx, Becomes(cx, cx1, t, d) DEF Becomes
      <4>4. QED
        BY ONLY <4>1, <4>2, <4>3
    <3>3. QED
      BY ONLY <3>1, <3>2
  <2>2. QED
    BY ONLY <2>1 DEF Reserved
<1>13. w => Ripens(g, cx1)
  BY ONLY <1>10, Awaited(h, cx, w), Shapes(h, cx), Becomes(cx, cx1, t, d), RipensKept DEF Awaited
<1>14. QED
  BY ONLY <1>11, <1>12, <1>13 DEF Awaited

SourceInv == Awaited(heap, ctx, mode.fat = "worker")

\* A ticket copies nodes.
LEMMA MovesSource ==
  ASSUME CowInv, SourceInv, NEW t \in DOMAIN ctx, Ready(heap, ctx, t, first.root, nPipes),
         NEW r, r = Handle(heap, ctx[t]), NEW pos, NEW at, NEW d, d = Advanced(r.c, pos, at),
         heap' = r.heap, ctx' = [ctx EXCEPT ![t] = d], mode' = mode
  PROVE  SourceInv'
<1>1. Continues(ctx[t], r.c)
  BY HandlerContinues
<1>2. AtStage(r.c, d)
  <2>1. IsContext(r.c)
    BY ONLY <1>1 DEF Continues, SameTicket
  <2>2. QED
    BY ONLY <2>1, d = Advanced(r.c, pos, at), AdvancedIs
<1>3. Touches(heap, r.heap, t, d)
  BY <1>2, HandlerTouches
<1>4. Becomes(ctx, ctx', t, d)
  BY TicketIs, ExceptBecomes
<1>5. PICK w : w = (mode.fat = "worker")
  OBVIOUS
<1>6. d.later = w
  <2>1. ctx[t].later = w
    BY <1>5 DEF SourceInv, Awaited, Deferred
  <2>2. QED
    BY ONLY <1>1, <1>2, <2>1 DEF Continues, SameTicket, AtStage
<1>7. Shapes(heap, ctx) /\ Moving(ctx[t])
  BY DEF CowInv, Sound, Good, Ready
<1>8. PICK g, cx1 : g = r.heap /\ cx1 = ctx'
  OBVIOUS
<1>9. Awaited(heap, ctx, w)
  BY <1>5 DEF SourceInv
<1>10. Awaited(g, cx1, w)
  BY ONLY <1>3, <1>4, <1>6, <1>7, <1>8, <1>9, TouchesAwaited
<1>11. Awaited(heap', ctx', mode'.fat = "worker")
  BY ONLY <1>5, <1>8, <1>10, heap' = r.heap, mode' = mode
<1>12. QED
  BY ONLY <1>11 DEF SourceInv

\* A ticket goes on with the heap as it is.
LEMMA RestsSource ==
  ASSUME CowInv, SourceInv, NEW t \in DOMAIN ctx, NEW d, AtStage(ctx[t], d),
         heap' = heap, ctx' = [ctx EXCEPT ![t] = d], mode' = mode
  PROVE  SourceInv'
<1>1. Becomes(ctx, ctx', t, d)
  BY TicketIs, ExceptBecomes
<1>2. PICK w, cx1 : w = (mode.fat = "worker") /\ cx1 = ctx'
  OBVIOUS
<1>3. Awaited(heap, ctx, w)
  BY <1>2 DEF SourceInv
<1>4. Awaited(heap, cx1, w)
  BY ONLY <1>1, <1>2, <1>3, AtStage(ctx[t], d), t \in DOMAIN ctx, RestsAwaited
<1>5. Awaited(heap', ctx', mode'.fat = "worker")
  BY ONLY <1>2, <1>4, heap' = heap, mode' = mode
<1>6. QED
  BY ONLY <1>5 DEF SourceInv

\* Run, in a pipe thread.
LEMMA RunSource ==
  ASSUME CowInv, SourceInv, NEW t \in DOMAIN ctx, Moving(ctx[t]) => Ready(heap, ctx, t, first.root, nPipes),
         NEW pos, NEW at, Store(t, Run(ctx[t]), pos, at)
  PROVE  SourceInv'
<1>1. PICK c, r, d : c = ctx[t] /\ r = Run(c) /\ d = Advanced(r.c, pos, at)
  OBVIOUS
<1>2. heap' = r.heap /\ ctx' = [ctx EXCEPT ![t] = d] /\ mode' = mode
  BY <1>1 DEF Store
<1>3. IsContext(c) /\ c.op \in {"down", "split", "append", "materialize", "done"}
  BY <1>1, TicketIs
<1>4. CASE ~ Moving(c)
  <2>1. r.heap = heap /\ r.c = c
    BY <1>1, <1>3, <1>4 DEF Run, Task, Moving
  <2>2. AtStage(c, d)
    BY ONLY <1>1, <1>3, <2>1, AdvancedIs
  <2>3. QED
    BY <1>1, <1>2, <2>1, <2>2, RestsSource
<1>5. CASE Moving(c)
  <2>1. r = Handle(heap, c)
    BY <1>1, <1>5 DEF Run, Task, Moving
  <2>2. QED
    BY <1>1, <1>2, <1>5, <2>1, MovesSource
<1>6. QED
  BY <1>4, <1>5

LEMMA InnerSource ==
  ASSUME CowInv, SourceInv, NEW t \in DOMAIN ctx, Inner(t)
  PROVE  SourceInv'
<1>1. CanInner(t) /\ Store(t, Run(ctx[t]), ctx[t].pos + 1, "pipe")
  BY DEF Inner
<1>2. Moving(ctx[t]) => Ready(heap, ctx, t, first.root, nPipes)
  BY <1>1, InnerReady
<1>3. QED
  BY <1>1, <1>2, RunSource

LEMMA ExitSource ==
  ASSUME CowInv, SourceInv, NEW t \in DOMAIN ctx, Exit(t)
  PROVE  SourceInv'
<1>1. /\ CanExit(t)
      /\ \/ Store(t, Run(ctx[t]), nPipes, "finished")
         \/ Store(t, Run(ctx[t]), ctx[t].pos, "pop")
  BY DEF Exit
<1>2. Moving(ctx[t]) => Ready(heap, ctx, t, first.root, nPipes)
  BY <1>1, ExitReady
<1>3. QED
  BY <1>1, <1>2, RunSource

LEMMA DispatchSource ==
  ASSUME CowInv, SourceInv, NEW t \in DOMAIN ctx, Dispatch(t)
  PROVE  SourceInv'
<1>1. PICK d : d = Advanced(ctx[t], nPipes, "work")
  OBVIOUS
<1>2. heap' = heap /\ ctx' = [ctx EXCEPT ![t] = d] /\ mode' = mode
  BY <1>1 DEF Dispatch
<1>3. AtStage(ctx[t], d)
  BY <1>1, TicketIs, AdvancedIs
<1>4. QED
  BY <1>2, <1>3, RestsSource

LEMMA FinishSource ==
  ASSUME CowInv, SourceInv, NEW t \in DOMAIN ctx, Finish(t)
  PROVE  SourceInv'
<1>1. PICK c, d : c = ctx[t] /\ d = [c EXCEPT !.at = "finished"]
  OBVIOUS
<1>2. heap' = heap /\ ctx' = [ctx EXCEPT ![t] = d] /\ mode' = mode
  BY <1>1 DEF Finish
<1>3. IsContext(c)
  BY <1>1, TicketIs
<1>4. AtStage(c, d)
  BY ONLY <1>1, <1>3 DEF AtStage, IsContext, Fields
<1>5. QED
  BY <1>1, <1>2, <1>4, RestsSource

LEMMA WorkSource ==
  ASSUME CowInv, SourceInv, NEW t \in DOMAIN ctx, Work(t)
  PROVE  SourceInv'
<1>1. PICK c, r, d : c = ctx[t] /\ r = Handle(heap, c) /\ d = Advanced(r.c, c.pos + 1, "work")
  OBVIOUS
<1>2. CanWork(t) /\ c.op # "done" /\ heap' = r.heap /\ ctx' = [ctx EXCEPT ![t] = d] /\ mode' = mode
  BY <1>1 DEF Work, CanWork, Store
<1>3. IsContext(c) /\ Built(heap) /\ c.op \in {"down", "split", "append", "materialize", "done"}
  BY <1>1, TicketIs
<1>4. Becomes(ctx, ctx', t, d)
  BY <1>2, TicketIs, ExceptBecomes
<1>5. PICK w, g, cx1 : w = (mode.fat = "worker") /\ g = r.heap /\ cx1 = ctx'
  OBVIOUS
<1>6. Awaited(heap, ctx, w) /\ Shapes(heap, ctx)
  BY <1>5 DEF SourceInv, CowInv, Sound, Good
<1>7. ASSUME Awaited(g, cx1, w) PROVE SourceInv'
  <2>1. Awaited(heap', ctx', mode'.fat = "worker")
    BY ONLY <1>2, <1>5, <1>7
  <2>2. QED
    BY ONLY <2>1 DEF SourceInv
<1>8. ASSUME r.c = [c EXCEPT !.op = "done"] PROVE d.op = "done" /\ d.later = c.later
  <2>1. PICK e : e = r.c
    OBVIOUS
  <2>2. IsContext(e) /\ e.op = "done" /\ e.later = c.later
    BY ONLY <1>3, <1>8, <2>1 DEF IsContext, Fields
  <2>3. AtStage(e, d)
    BY ONLY <1>1, <2>1, <2>2, AdvancedIs
  <2>4. QED
    BY ONLY <2>2, <2>3 DEF AtStage
<1>9. CASE c.op = "append"
  <2>1. r = HandleAppend(heap, c)
    BY ONLY <1>1, <1>9 DEF Handle
  <2>2. r.c = [c EXCEPT !.op = "done"] /\ g = HandleAppend(heap, c).heap
    BY ONLY <1>5, <2>1 DEF HandleAppend
  <2>3. Awaited(g, cx1, w)
    BY ONLY <1>1, <1>3, <1>4, <1>5, <1>6, <1>8, <1>9, <2>2, t \in DOMAIN ctx, WrittenAwaited
  <2>4. QED
    BY <1>7, <2>3
<1>10. CASE c.op = "materialize"
  <2>1. r = HandleMaterialize(heap, c)
    BY ONLY <1>1, <1>10 DEF Handle
  <2>2. r.c = [c EXCEPT !.op = "done"]
    BY ONLY <2>1 DEF HandleMaterialize
  <2>3. Awaited(g, cx1, w)
    BY ONLY <1>1, <1>3, <1>4, <1>5, <1>6, <1>8, <1>10, <2>1, <2>2, t \in DOMAIN ctx, FilledAwaited
  <2>4. QED
    BY <1>7, <2>3
<1>11. CASE Moving(c)
  <2>1. Ready(heap, ctx, t, first.root, nPipes)
    BY <1>1, <1>2, <1>11, WorkReady
  <2>2. QED
    BY <1>1, <1>2, <2>1, MovesSource
<1>12. QED
  BY <1>2, <1>3, <1>9, <1>10, <1>11 DEF Moving

LEMMA EntrySource ==
  ASSUME CowInv, SourceInv, NEW k \in Keys, Entry(k)
  PROVE  SourceInv'
<1>1. PICK t, c, r : /\ t = Len(ctx) + 1 /\ c = Context(t, k)
                     /\ r = IF MayAppend(c) THEN TakeSlot(c) ELSE HandleInit(heap, c)
  OBVIOUS
<1>2. Passed(t - 1, 2) /\ heap' = r.heap /\ ctx' = Append(ctx, r.c) /\ mode' = mode
  BY <1>1 DEF Entry
<1>3. PICK w, g, d, cx1 : w = (mode.fat = "worker") /\ g = r.heap /\ d = r.c /\ cx1 = ctx'
  OBVIOUS
<1>4. Awaited(heap, ctx, w) /\ Shapes(heap, ctx) /\ Built(heap) /\ IsSeq(ctx) /\ w \in BOOLEAN
  BY <1>3 DEF SourceInv, CowInv, Sound, Good
<1>5. /\ t \in Nat \ {0} /\ DOMAIN ctx = 1 .. t - 1 /\ t - 1 \in {0} \cup DOMAIN ctx
  BY <1>1, <1>2, EntryPassed
<1>6. t \notin DOMAIN ctx
  BY ONLY <1>5
<1>7. Becomes(ctx, cx1, t, d)
  BY ONLY <1>1, <1>2, <1>3, <1>4, AppendBecomes
<1>8. IsContext(c) /\ c.sno = t /\ c.past = Root(t - 1) /\ c.later = w
  BY <1>1, <1>3, ContextIs
<1>9. Awaited(g, cx1, w)
  <2>1. CASE MayAppend(c)
    <3>1. r = TakeSlot(c)
      BY ONLY <1>1, <2>1
    <3>2. c.past \in DOMAIN heap
      BY <1>5, <1>8, RootInHeap, RootIsRootOf
    <3>3. PICK leaf : leaf = LeafOf(heap, c.past, c.key) /\ leaf \in DOMAIN heap /\ heap[leaf].leaf
      BY <3>2, EntryLeaf
    <3>4. PICK n : n = AppendSlot(heap[leaf], Slot(c.sno, c.key, IF c.later THEN Unset ELSE c.sno, c.later))
      OBVIOUS
    <3>5. /\ r.heap = [heap EXCEPT ![leaf] = n]
          /\ r.c = IF c.later THEN [[c EXCEPT !.root = c.past] EXCEPT !.op = "append", !.cur = leaf, !.idx = Len(n.slots)]
                    ELSE [[c EXCEPT !.root = c.past] EXCEPT !.op = "done"]
      BY ONLY <3>1, <3>3, <3>4 DEF TakeSlot
    <3>6. g[leaf] = n
      BY ONLY <1>3, <3>3, <3>5
    <3>7. d.later = c.later /\ IF c.later THEN Writes(d, leaf, Len(g[leaf].slots)) ELSE d.op = "done"
      <4>1. CASE c.later
        <5>1. PICK p, l : p = c.past /\ l = Len(n.slots)
          OBVIOUS
        <5>2. d = [c EXCEPT !.root = p, !.op = "append", !.cur = leaf, !.idx = l]
          BY ONLY <1>3, <3>5, <4>1, <5>1
        <5>3. d.later = c.later /\ d.op = "append" /\ d.cur = leaf /\ d.idx = l
          BY ONLY <1>8, <5>2 DEF IsContext, Fields
        <5>4. QED
          BY ONLY <3>6, <4>1, <5>1, <5>3 DEF Writes
      <4>2. CASE ~ c.later
        <5>1. PICK p : p = c.past
          OBVIOUS
        <5>2. d = [c EXCEPT !.root = p, !.op = "done"]
          BY ONLY <1>3, <3>5, <4>2, <5>1
        <5>3. d.later = c.later /\ d.op = "done"
          BY ONLY <1>8, <5>2 DEF IsContext, Fields
        <5>4. QED
          BY ONLY <4>2, <5>3
      <4>3. QED
        BY ONLY <4>1, <4>2
    <3>8. Takes(heap, t, c, d, g, leaf)
      BY ONLY <1>3, <1>4, <1>8, <3>3, <3>4, <3>5, <3>7 DEF Takes
    <3>9. QED
      BY ONLY <1>4, <1>6, <1>7, <1>8, <3>8, TakenAwaited
  <2>2. CASE ~ MayAppend(c)
    <3>1. r = HandleInit(heap, c)
      BY ONLY <1>1, <2>2
    <3>2. Enter(heap, ctx, c, t, Root(t - 1), first.root, nPipes)
      BY <1>1, <1>2, RootEnters
    <3>3. Touches(heap, g, t, d)
      BY ONLY <1>3, <3>1, <3>2, EntryTouches
    <3>4. d.later = w
      <4>1. Continues(c, r.c)
        BY ONLY <3>1, <3>2, EntryContinues
      <4>2. QED
        BY ONLY <1>3, <1>8, <4>1 DEF Continues, SameTicket
    <3>5. QED
      BY ONLY <1>4, <1>6, <1>7, <3>3, <3>4, TouchesAwaited
  <2>3. QED
    BY ONLY <2>1, <2>2
<1>10. Awaited(heap', ctx', mode'.fat = "worker")
  BY ONLY <1>2, <1>3, <1>9
<1>11. QED
  BY ONLY <1>10 DEF SourceInv

LEMMA InitSource ==
  ASSUME Init
  PROVE  SourceInv
<1>1. PICK keys \in Contents : first = Build(keys)
  BY DEF Init
<1>2. keys \in Seq(Int)
  BY ContentsAssumption
<1>3. heap = Build(keys).heap /\ ctx = <<>>
  BY <1>1 DEF Init
<1>4. Len(keys) \in Nat
  BY <1>2
<1>5. PICK f, low, top : BuiltAs(keys, f, low, top, Build(keys))
  BY <1>4, BuildIs
<1>6. Plant(keys, f, low, top, heap)
  BY ONLY <1>3, <1>5 DEF BuiltAs
<1>7. /\ DOMAIN heap = {None} \cup Ids(f, top) /\ heap[None] = Leaf(0, <<>>, <<>>)
      /\ \A n \in DOMAIN heap : n # None => heap[n] = PlantAt(keys, f, low, n[2], n[3])
  BY ONLY <1>6 DEF Plant
<1>8. \A n \in DOMAIN heap : n[1] = 0
  BY ONLY <1>7 DEF None, Ids
<1>9. \A n \in DOMAIN heap : heap[n].slots = <<>>
  <2>1. \A v, k, x : Leaf(v, k, x).slots = <<>> /\ Internal(v, k, x).slots = <<>>
    BY ONLY DEF Leaf, Internal
  <2>2. \A l, i : PlantAt(keys, f, low, l, i).slots = <<>>
    BY ONLY <2>1 DEF PlantAt
  <2>3. QED
    BY ONLY <1>7, <2>1, <2>2
<1>10. DOMAIN ctx = {}
  BY ONLY <1>3
<1>11. Deferred(ctx, mode.fat = "worker")
  BY ONLY <1>10 DEF Deferred
<1>12. Reserved(heap, ctx)
  <2>1. \A n \in DOMAIN heap : DOMAIN heap[n].slots = {}
    BY ONLY <1>9
  <2>2. QED
    BY ONLY <2>1 DEF Reserved
<1>13. Ripens(heap, ctx)
  BY ONLY <1>8 DEF Ripens
<1>14. QED
  BY ONLY <1>11, <1>12, <1>13 DEF SourceInv, Awaited

LEMMA StepSource ==
  ASSUME CowInv, SourceInv, [Next]_vars
  PROVE  SourceInv'
<1>1. CASE Commit
  BY <1>1 DEF Commit, SourceInv
<1>2. ASSUME NEW k \in Keys, Entry(k) PROVE SourceInv'
  BY <1>2, EntrySource
<1>3. ASSUME NEW t \in Entered, Step(t) PROVE SourceInv'
  <2>1. t \in DOMAIN ctx
    BY DEF Entered
  <2>2. CASE Inner(t)
    BY <2>1, <2>2, InnerSource
  <2>3. CASE Exit(t)
    BY <2>1, <2>3, ExitSource
  <2>4. CASE Dispatch(t)
    BY <2>1, <2>4, DispatchSource
  <2>5. CASE Work(t)
    BY <2>1, <2>5, WorkSource
  <2>6. CASE Finish(t)
    BY <2>1, <2>6, FinishSource
  <2>7. QED
    BY <1>3, <2>2, <2>3, <2>4, <2>5, <2>6 DEF Step
<1>4. CASE UNCHANGED vars
  BY <1>4 DEF vars, SourceInv
<1>5. QED
  BY <1>1, <1>2, <1>3, <1>4 DEF Next

-----------------------------------------------------------------------------
\* The source of a materialisation is there when the tickets before have done their
\* tasks: no ticket after it has reserved a slot in a leaf that it replaced.
LEMMA SourceThere ==
  ASSUME CowInv, SourceInv, NEW t \in DOMAIN ctx, NEW c, c = ctx[t], c.op = "materialize",
         \A u \in DOMAIN ctx : u < t => ctx[u].op = "done"
  PROVE  SourceReady(heap, c)
<1>1. PICK p : p = c.past
  OBVIOUS
<1>2. /\ p \in DOMAIN heap /\ p \in Retired(ctx)[t] /\ heap[p].ver = p[1] /\ p[1] \in Nat /\ p[1] < t
  BY <1>1, PastIs
<1>3. heap[p].leaf
  BY <1>1, TicketIs DEF Shape, ShapeMaterialize
<1>4. Reserved(heap, ctx) /\ Ripens(heap, ctx)
  BY DEF SourceInv, Awaited, Deferred
<1>5. heap[p].ver = 0 \/ heap[p].ready
  BY ONLY <1>2, <1>3, <1>4, \A u \in DOMAIN ctx : u < t => ctx[u].op = "done" DEF Ripens
<1>6. ASSUME NEW j \in DOMAIN heap[p].slots, heap[p].slots[j].pending PROVE FALSE
  <2>1. PICK u \in DOMAIN ctx : Writes(ctx[u], p, j)
    BY ONLY <1>2, <1>3, <1>4, <1>6 DEF Reserved
  <2>2. ctx[u].op = "append" /\ ctx[u].cur = p
    BY ONLY <2>1 DEF Writes
  <2>3. t \in Nat \ {0} /\ u \in Nat \ {0} /\ u - 1 \in {0} \cup DOMAIN ctx
    BY TicketIs
  <2>4. ~ (u < t) /\ u # t
    BY ONLY <2>2, c = ctx[t], c.op = "materialize", u \in DOMAIN ctx,
            \A v \in DOMAIN ctx : v < t => ctx[v].op = "done"
  <2>5. u - 1 \in Nat /\ t <= u - 1
    BY ONLY <2>3, <2>4
  <2>6. PICK r : r = RootOf(ctx, first.root, u - 1)
    OBVIOUS
  <2>7. p \in Below(Kids(heap), Open(heap, ctx), r)
    BY <2>2, <2>6 DEF CowInv, Sound, Appends, OnPath
  <2>8. /\ Forest(Kids(heap), Retired(ctx), Copied(ctx), Open(heap, ctx))
        /\ Top(Kids(heap), Retired(ctx), Open(heap, ctx), r, u - 1)
    BY <2>3, <2>6 DEF CowInv, Sound, Good, Rooted
  <2>9. p \notin Retired(ctx)[t]
    BY ONLY <2>3, <2>5, <2>7, <2>8, BelowKept
  <2>10. QED
    BY ONLY <1>2, <2>9
<1>7. \A s \in Range(heap[p].slots) : ~ s.pending
  BY ONLY <1>6 DEF Range
<1>8. QED
  BY ONLY <1>1, <1>5, <1>7 DEF SourceReady

\* The ticket to be committed next waits for nobody.
LEMMA NextGoesOn ==
  ASSUME CowInv, SourceInv, NEW t \in DOMAIN ctx, t = committed + 1, ctx[t].at # "finished"
  PROVE  CanInner(t) \/ CanExit(t) \/ CanDispatch(t) \/ CanWork(t) \/ CanFinish(t)
<1>1. PICK c : c = ctx[t]
  OBVIOUS
<1>2. /\ Stage(c, nPipes) /\ t \in Nat \ {0} /\ t - 1 \in {0} \cup DOMAIN ctx /\ nPipes \in Nat /\ nPipes >= 2
      /\ c.op \in {"down", "split", "append", "materialize", "done"} /\ \A u \in DOMAIN ctx : u \in Nat
  BY <1>1, TicketIs
<1>3. Timed(ctx, nPipes, committed) /\ committed \in Nat
  BY DEF CowInv, Sound, Timed
<1>4. ASSUME NEW u \in DOMAIN ctx, u < t PROVE ctx[u].at = "finished" /\ ctx[u].op = "done"
  <2>1. u <= committed
    BY ONLY <1>2, <1>3, <1>4, u \in DOMAIN ctx, t = committed + 1
  <2>2. QED
    BY ONLY <1>3, <2>1, u \in DOMAIN ctx DEF Timed, Stage
<1>5. \A j : Passed(t - 1, j)
  BY ONLY <1>2, <1>4 DEF Passed
<1>6. \A k : Moving(c) => WaitStage(c, k)
  <2>1. SUFFICES ASSUME Moving(c) PROVE \A k : WaitStage(c, k)
    OBVIOUS
  <2>2. heap[c.past].ver \in Nat /\ heap[c.past].ver < t
    BY <1>1, <2>1, PastIs
  <2>3. ~ (heap[c.past].ver > committed)
    BY ONLY <1>3, <2>2, t = committed + 1
  <2>4. QED
    BY ONLY <2>3 DEF WaitStage
<1>7. c.op # "done" /\ ~ Task(c) => Moving(c)
  BY ONLY <1>2 DEF Task, Moving
<1>8. PICK m \in Nat : m = c.pos
  BY ONLY <1>2 DEF Stage
<1>9. CASE c.at = "pipe"
  <2>1. m + 1 < nPipes \/ m + 1 = nPipes
    BY ONLY <1>2, <1>8, <1>9 DEF Stage
  <2>2. CASE m + 1 < nPipes
    BY <1>1, <1>5, <1>8, <1>9, <2>2 DEF CanInner
  <2>3. CASE m + 1 = nPipes
    BY <1>1, <1>6, <1>7, <1>8, <1>9, <2>3 DEF CanExit
  <2>4. QED
    BY <2>1, <2>2, <2>3
<1>10. CASE c.at = "pop"
  <2>1. m + 1 = nPipes
    BY ONLY <1>2, <1>8, <1>10 DEF Stage
  <2>2. ASSUME NEW u \in DOMAIN ctx, ctx[u].at = "work" PROVE FALSE
    <3>1. u # t /\ ~ (u < t) /\ u \in Nat
      BY ONLY <1>1, <1>2, <1>4, <1>10, <2>2, u \in DOMAIN ctx
    <3>2. t < u
      BY ONLY <1>2, <3>1
    <3>3. PICK n \in Nat : n = ctx[u].pos
      BY PosIs
    <3>4. n >= nPipes
      BY ONLY <1>3, <2>2, <3>3, u \in DOMAIN ctx DEF Timed, Stage
    <3>5. m >= nPipes \/ m > n
      BY ONLY <1>1, <1>3, <1>8, <3>2, <3>3, t \in DOMAIN ctx, u \in DOMAIN ctx DEF Timed
    <3>6. QED
      BY ONLY <1>2, <2>1, <3>4, <3>5, m \in Nat, n \in Nat
  <2>3. {u \in Entered : ctx[u].at = "work"} = {}
    BY ONLY <2>2 DEF Entered
  <2>4. Cardinality({}) = 0
    BY ONLY FS_EmptySet
  <2>5. CanDispatch(t)
    BY ONLY <1>1, <1>10, <2>3, <2>4, PoolAssumption DEF CanDispatch
  <2>6. QED
    BY <2>5
<1>11. CASE c.at = "work"
  <2>1. CASE c.op = "done"
    BY <1>1, <1>11, <2>1 DEF CanFinish
  <2>2. CASE c.op # "done"
    <3>1. c.op = "materialize" => SourceReady(heap, c)
      BY <1>1, <1>4, SourceThere
    <3>2. CanWork(t)
      BY ONLY <1>1, <1>6, <1>7, <1>11, <2>2, <3>1 DEF CanWork
    <3>3. QED
      BY <3>2
  <2>3. QED
    BY <2>1, <2>2
<1>12. QED
  BY <1>1, <1>2, <1>9, <1>10, <1>11 DEF Stage

LEMMA InvGoesOn ==
  ASSUME CowInv, SourceInv
  PROVE  NeverStuck
<1>1. SUFFICES ASSUME committed < Len(ctx), ~ CanCommit
               PROVE  \E t \in Entered : CanInner(t) \/ CanExit(t) \/ CanDispatch(t) \/ CanWork(t) \/ CanFinish(t)
  BY DEF NeverStuck
<1>2. IsSeq(ctx) /\ committed \in Nat
  BY DEF CowInv, Sound, Good, Timed
<1>3. PICK l \in Nat : l = Len(ctx) /\ DOMAIN ctx = 1 .. l
  BY ONLY <1>2, LengthIs
<1>4. PICK t : t = committed + 1
  OBVIOUS
<1>5. t \in DOMAIN ctx
  BY ONLY <1>1, <1>2, <1>3, <1>4
<1>6. ctx[t].at # "finished"
  BY <1>1, <1>4 DEF CanCommit
<1>7. QED
  BY <1>4, <1>5, <1>6, NextGoesOn DEF Entered

\* No cycle of waiting: as long as a ticket is not committed, the one to be committed
\* next can go on, in every mode and for every number of pipes, workers and tickets.
\* It waits for no stage (wait_stage looks at older tickets); it is the first that
\* the workers take, so one is idle; and the slots and leaves that its
\* handle_materialize waits for are older tickets' to write (SourceInv), for a later
\* ticket reserves no slot in a leaf that this one has replaced (handle_fat_append).
THEOREM CowNeverStuck == Spec => []NeverStuck
<1>1. Init => SourceInv
  BY InitSource
<1>2. CowInv /\ SourceInv /\ [Next]_vars => SourceInv'
  BY StepSource
<1>3. CowInv /\ SourceInv => NeverStuck
  BY InvGoesOn
<1>4. QED
  BY <1>1, <1>2, <1>3, CowSound, PTL DEF Spec
=============================================================================
