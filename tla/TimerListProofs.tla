-------------------------- MODULE TimerListProofs --------------------------
(***************************************************************************)
(* Proofs about TimerList.  The first part is about doubly linked lists    *)
(* alone: what linking a node in, or unlinking one, does to a well formed  *)
(* list.  The second is the inductive invariant of the module.             *)
(***************************************************************************)
EXTENDS TimerList, TLAPS

(* The list with ends h and l, links p and n, made of the nodes L.         *)
Links(h, l, p, n, L) ==
  /\ h # Null => h \in L /\ l \in L
  /\ \A t \in L :
       /\ p[t] = Null <=> t = h
       /\ n[t] = Null <=> t = l
       /\ p[t] # Null => p[t] \in L /\ n[p[t]] = t
       /\ n[t] # Null => n[t] \in L /\ p[n[t]] = t

(* Every node is reached from the head.                                    *)
Closed(S, h, n) == h \in S /\ \A t \in S : n[t] # Null => n[t] \in S
Reached(h, n, L) ==
  /\ h = Null => L = {}
  /\ \A S \in SUBSET L : Closed(S, h, n) => S = L

Sorted(e, n, L) == \A t \in L : n[t] # Null => e[t] <= e[n[t]]

Pointers == [Timer -> Timer \union {Null}]

-----------------------------------------------------------------------------
(* A list whose two ends coincide has one node.                            *)
LEMMA OneNode ==
  ASSUME NEW L \in SUBSET Timer, NEW h \in Timer, NEW p \in Pointers, NEW n \in Pointers,
         Links(h, h, p, n, L), Reached(h, n, L)
  PROVE  L = {h}
<1>1. {h} \in SUBSET L BY NullAssumption DEF Links
<1>2. Closed({h}, h, n) BY NullAssumption DEF Closed, Links
<1> QED BY <1>1, <1>2 DEF Reached

(* Linking x in front of the head.                                         *)
LEMMA LinkFirst ==
  ASSUME NEW L \in SUBSET Timer, NEW h \in Timer, NEW l \in Timer \union {Null},
         NEW p \in Pointers, NEW n \in Pointers, NEW p2 \in Pointers, NEW n2 \in Pointers,
         NEW x \in Timer \ L, Links(h, l, p, n, L), Reached(h, n, L),
         \A t \in L \union {x} : n2[t] = IF t = x THEN h ELSE n[t],
         \A t \in L \union {x} : p2[t] = IF t = h THEN x ELSE IF t = x THEN Null ELSE p[t]
  PROVE  Links(x, l, p2, n2, L \union {x}) /\ Reached(x, n2, L \union {x})
<1>1. h # Null /\ x # Null /\ h \in L /\ l \in L BY NullAssumption DEF Links
<1>2. Links(x, l, p2, n2, L \union {x}) BY <1>1, NullAssumption DEF Links
<1>3. ASSUME NEW S \in SUBSET (L \union {x}), Closed(S, x, n2)
      PROVE  S = L \union {x}
  <2>1. Closed(S \ {x}, h, n) BY <1>1, <1>3 DEF Closed, Links
  <2>2. S \ {x} = L BY <2>1 DEF Reached
  <2> QED BY <2>2, <1>3 DEF Closed
<1> QED BY <1>1, <1>2, <1>3 DEF Reached

(* Linking x between the neighbours a and b.                               *)
LEMMA LinkBetween ==
  ASSUME NEW L \in SUBSET Timer, NEW h \in Timer \union {Null}, NEW l \in Timer \union {Null},
         NEW p \in Pointers, NEW n \in Pointers, NEW p2 \in Pointers, NEW n2 \in Pointers,
         NEW x \in Timer \ L, Links(h, l, p, n, L), Reached(h, n, L),
         NEW a \in L, NEW b \in L, n[a] = b,
         \A t \in L \ {a} : n2[t] = n[t], n2[a] = x, n2[x] = b,
         \A t \in L \ {b} : p2[t] = p[t], p2[b] = x, p2[x] = a
  PROVE  Links(h, l, p2, n2, L \union {x}) /\ Reached(h, n2, L \union {x})
<1>1. h # Null /\ h \in L /\ a # Null /\ b # Null /\ x # Null /\ x # h
  BY NullAssumption DEF Links, Reached
<1>2. Links(h, l, p2, n2, L \union {x}) BY <1>1, NullAssumption DEF Links
<1>3. ASSUME NEW S \in SUBSET (L \union {x}), Closed(S, h, n2)
      PROVE  S = L \union {x}
  <2>1. ASSUME NEW t \in S \ {x}, n[t] # Null PROVE n[t] \in S \ {x}
    <3>1. CASE t = a BY <3>1, <1>1, <1>3 DEF Closed
    <3>2. CASE t # a BY <3>2, <2>1, <1>3 DEF Closed, Links
    <3> QED BY <3>1, <3>2
  <2>2. Closed(S \ {x}, h, n) BY <2>1, <1>1, <1>3 DEF Closed
  <2>3. S \ {x} = L BY <2>2 DEF Reached
  <2> QED BY <2>3, <1>1, <1>3 DEF Closed
<1> QED BY <1>1, <1>2, <1>3 DEF Reached

(* Linking x behind the last node.                                         *)
LEMMA LinkLast ==
  ASSUME NEW L \in SUBSET Timer, NEW h \in Timer, NEW l \in Timer \union {Null},
         NEW p \in Pointers, NEW n \in Pointers, NEW p2 \in Pointers, NEW n2 \in Pointers,
         NEW x \in Timer \ L, Links(h, l, p, n, L), Reached(h, n, L),
         \A t \in L \ {l} : n2[t] = n[t], n2[l] = x, n2[x] = Null,
         \A t \in L : p2[t] = p[t], p2[x] = l
  PROVE  Links(h, x, p2, n2, L \union {x}) /\ Reached(h, n2, L \union {x})
<1>1. h # Null /\ h \in L /\ l \in L /\ l # Null /\ x # Null /\ x # h
  BY NullAssumption DEF Links
<1>2. Links(h, x, p2, n2, L \union {x}) BY <1>1, NullAssumption DEF Links
<1>3. ASSUME NEW S \in SUBSET (L \union {x}), Closed(S, h, n2)
      PROVE  S = L \union {x}
  <2>1. ASSUME NEW t \in S \ {x}, n[t] # Null PROVE n[t] \in S \ {x}
    BY <2>1, <1>1, <1>3 DEF Closed, Links
  <2>2. Closed(S \ {x}, h, n) BY <2>1, <1>1, <1>3 DEF Closed
  <2>3. S \ {x} = L BY <2>2 DEF Reached
  <2> QED BY <2>3, <1>1, <1>3 DEF Closed
<1> QED BY <1>1, <1>2, <1>3 DEF Reached

(* No node is its own neighbour.                                           *)
LEMMA NotItsOwn ==
  ASSUME NEW L \in SUBSET Timer, NEW h \in Timer, NEW l \in Timer \union {Null},
         NEW p \in Pointers, NEW n \in Pointers,
         Links(h, l, p, n, L), Reached(h, n, L), NEW x \in L
  PROVE  p[x] # x /\ n[x] # x
<1>1. h # Null /\ h \in L /\ x # Null BY NullAssumption DEF Links
<1>2. p[x] = x => n[x] = x BY <1>1 DEF Links
<1>3. ASSUME n[x] = x PROVE FALSE
  <2>1. x # h BY <1>1, <1>3 DEF Links
  <2>2. Closed(L \ {x}, h, n) BY <2>1, <1>1, <1>3 DEF Closed, Links
  <2> QED BY <2>2 DEF Reached
<1> QED BY <1>2, <1>3

(* Unlinking the head of a list with more than one node.                   *)
LEMMA UnlinkHead ==
  ASSUME NEW L \in SUBSET Timer, NEW h \in Timer, NEW l \in Timer \union {Null},
         NEW p \in Pointers, NEW n \in Pointers, NEW p2 \in Pointers, NEW n2 \in Pointers,
         Links(h, l, p, n, L), Reached(h, n, L), n[h] # Null,
         \A t \in L \ {h} : n2[t] = n[t],
         \A t \in L \ {h, n[h]} : p2[t] = p[t], p2[n[h]] = Null
  PROVE  Links(n[h], l, p2, n2, L \ {h}) /\ Reached(n[h], n2, L \ {h})
<1>1. h # Null /\ h \in L /\ l \in L /\ n[h] \in L /\ n[h] # h /\ l # h
  BY NullAssumption DEF Links
<1>2. Links(n[h], l, p2, n2, L \ {h})
  <2> SUFFICES ASSUME NEW t \in L \ {h}
               PROVE  /\ p2[t] = Null <=> t = n[h]
                      /\ n2[t] = Null <=> t = l
                      /\ p2[t] # Null => p2[t] \in L \ {h} /\ n2[p2[t]] = t
                      /\ n2[t] # Null => n2[t] \in L \ {h} /\ p2[n2[t]] = t
    BY <1>1 DEF Links
  <2>1. p2[t] = Null <=> t = n[h] BY <1>1 DEF Links
  <2>2. n2[t] = Null <=> t = l BY <1>1 DEF Links
  <2>3. p2[t] # Null => p2[t] \in L \ {h} /\ n2[p2[t]] = t
    <3>1. CASE t = n[h] BY <3>1
    <3>2. CASE t # n[h]
      <4>1. p2[t] = p[t] BY <3>2
      <4>2. ASSUME p[t] # Null PROVE p[t] \in L /\ n[p[t]] = t BY <4>2 DEF Links
      <4> QED BY <4>1, <4>2, <3>2
    <3> QED BY <3>1, <3>2
  <2>4. n2[t] # Null => n2[t] \in L \ {h} /\ p2[n2[t]] = t
    <3>1. n2[t] = n[t] OBVIOUS
    <3>2. p[n[h]] = h /\ p[h] = Null BY <1>1 DEF Links
    <3>3. ASSUME n[t] # Null PROVE n[t] \in L /\ p[n[t]] = t BY <3>3 DEF Links
    <3> QED BY <3>1, <3>2, <3>3, NullAssumption
  <2> QED BY <2>1, <2>2, <2>3, <2>4
<1>3. ASSUME NEW S \in SUBSET (L \ {h}), Closed(S, n[h], n2)
      PROVE  S = L \ {h}
  <2>1. Closed(S \union {h}, h, n) BY <1>1, <1>3 DEF Closed
  <2> QED BY <2>1, <1>1, <1>3 DEF Reached
<1> QED BY <1>1, <1>2, <1>3 DEF Reached

(* Unlinking the last node of a list with more than one.                   *)
LEMMA UnlinkTail ==
  ASSUME NEW L \in SUBSET Timer, NEW h \in Timer, NEW l \in Timer,
         NEW p \in Pointers, NEW n \in Pointers, NEW p2 \in Pointers, NEW n2 \in Pointers,
         Links(h, l, p, n, L), Reached(h, n, L), h # l,
         \A t \in L \ {l, p[l]} : n2[t] = n[t], n2[p[l]] = Null,
         \A t \in L \ {l} : p2[t] = p[t]
  PROVE  Links(h, p[l], p2, n2, L \ {l}) /\ Reached(h, n2, L \ {l})
<1>1. h # Null /\ h \in L /\ l \in L /\ p[l] \in L /\ p[l] # l
  BY NullAssumption DEF Links
<1>2. Links(h, p[l], p2, n2, L \ {l})
  <2> SUFFICES ASSUME NEW t \in L \ {l}
               PROVE  /\ p2[t] = Null <=> t = h
                      /\ n2[t] = Null <=> t = p[l]
                      /\ p2[t] # Null => p2[t] \in L \ {l} /\ n2[p2[t]] = t
                      /\ n2[t] # Null => n2[t] \in L \ {l} /\ p2[n2[t]] = t
    BY <1>1 DEF Links
  <2>1. p2[t] = Null <=> t = h BY <1>1 DEF Links
  <2>2. n2[t] = Null <=> t = p[l] BY <1>1 DEF Links
  <2>3. p2[t] # Null => p2[t] \in L \ {l} /\ n2[p2[t]] = t
    <3>1. p2[t] = p[t] OBVIOUS
    <3>2. n[p[l]] = l /\ n[l] = Null BY <1>1, NullAssumption DEF Links
    <3>3. ASSUME p[t] # Null PROVE p[t] \in L /\ n[p[t]] = t BY <3>3 DEF Links
    <3> QED BY <3>1, <3>2, <3>3, NullAssumption
  <2>4. n2[t] # Null => n2[t] \in L \ {l} /\ p2[n2[t]] = t BY <1>1 DEF Links
  <2> QED BY <2>1, <2>2, <2>3, <2>4
<1>3. ASSUME NEW S \in SUBSET (L \ {l}), Closed(S, h, n2)
      PROVE  S = L \ {l}
  <2>1. Closed(S \union {l}, h, n)
    <3>1. ASSUME NEW t \in S, n[t] # Null PROVE n[t] \in S \union {l}
      BY <3>1, <1>1, <1>3 DEF Closed, Links
    <3> QED BY <3>1, <1>1, <1>3 DEF Closed, Links
  <2> QED BY <2>1, <1>1, <1>3 DEF Reached
<1> QED BY <1>1, <1>2, <1>3 DEF Reached

(* Unlinking a node with a neighbour on each side.                         *)
LEMMA UnlinkMiddle ==
  ASSUME NEW L \in SUBSET Timer, NEW h \in Timer \union {Null}, NEW l \in Timer \union {Null},
         NEW p \in Pointers, NEW n \in Pointers, NEW p2 \in Pointers, NEW n2 \in Pointers,
         Links(h, l, p, n, L), Reached(h, n, L),
         NEW x \in L, p[x] # Null, n[x] # Null,
         \A t \in L \ {x, p[x]} : n2[t] = n[t], n2[p[x]] = n[x],
         \A t \in L \ {x, n[x]} : p2[t] = p[t], p2[n[x]] = p[x]
  PROVE  Links(h, l, p2, n2, L \ {x}) /\ Reached(h, n2, L \ {x})
<1>1. /\ h # Null /\ h \in L /\ l \in L /\ h # x /\ l # x
      /\ p[x] \in L /\ n[x] \in L
  BY DEF Links, Reached
<1>2. p[x] # x /\ n[x] # x BY <1>1, NotItsOwn
<1>3. Links(h, l, p2, n2, L \ {x})
  <2> SUFFICES ASSUME NEW t \in L \ {x}
               PROVE  /\ p2[t] = Null <=> t = h
                      /\ n2[t] = Null <=> t = l
                      /\ p2[t] # Null => p2[t] \in L \ {x} /\ n2[p2[t]] = t
                      /\ n2[t] # Null => n2[t] \in L \ {x} /\ p2[n2[t]] = t
    BY <1>1, <1>2 DEF Links
  <2>1. p2[t] = Null <=> t = h
    <3>1. CASE t = n[x] BY <3>1, <1>1, <1>2, NullAssumption DEF Links
    <3>2. CASE t # n[x]
      <4>1. p2[t] = p[t] BY <3>2
      <4> QED BY <4>1 DEF Links
    <3> QED BY <3>1, <3>2
  <2>2. n2[t] = Null <=> t = l
    <3>1. CASE t = p[x] BY <3>1, <1>1, <1>2, NullAssumption DEF Links
    <3>2. CASE t # p[x]
      <4>1. n2[t] = n[t] BY <3>2
      <4> QED BY <4>1 DEF Links
    <3> QED BY <3>1, <3>2
  <2>3. p2[t] # Null => p2[t] \in L \ {x} /\ n2[p2[t]] = t
    <3>1. CASE t = n[x]
      BY <3>1, <1>1, <1>2 DEF Links
    <3>2. CASE t # n[x]
      <4>1. p2[t] = p[t] BY <3>2
      <4>2. ASSUME p[t] # Null PROVE p[t] \in L /\ n[p[t]] = t BY <4>2 DEF Links
      <4>3. n[p[x]] = x BY DEF Links
      <4> QED BY <4>1, <4>2, <4>3, <3>2
    <3> QED BY <3>1, <3>2
  <2>4. n2[t] # Null => n2[t] \in L \ {x} /\ p2[n2[t]] = t
    <3>1. CASE t = p[x]
      BY <3>1, <1>1, <1>2 DEF Links
    <3>2. CASE t # p[x]
      <4>1. n2[t] = n[t] BY <3>2
      <4>2. ASSUME n[t] # Null PROVE n[t] \in L /\ p[n[t]] = t BY <4>2 DEF Links
      <4>3. p[n[x]] = x BY DEF Links
      <4> QED BY <4>1, <4>2, <4>3, <3>2
    <3> QED BY <3>1, <3>2
  <2> QED BY <2>1, <2>2, <2>3, <2>4
<1>4. ASSUME NEW S \in SUBSET (L \ {x}), Closed(S, h, n2)
      PROVE  S = L \ {x}
  <2>1. CASE p[x] \in S
    <3>1. ASSUME NEW t \in S, n[t] # Null PROVE n[t] \in S \union {x}
      BY <3>1, <1>1, <1>4 DEF Closed, Links
    <3>2. n[x] \in S BY <2>1, <1>1, <1>2, <1>4 DEF Closed
    <3>3. Closed(S \union {x}, h, n) BY <3>1, <3>2, <1>4 DEF Closed
    <3> QED BY <3>3, <1>4 DEF Reached
  <2>2. CASE p[x] \notin S
    <3>1. Closed(S, h, n) BY <2>2, <1>1, <1>4 DEF Closed
    <3> QED BY <3>1, <1>4 DEF Reached
  <2> QED BY <2>1, <2>2
<1> QED BY <1>1, <1>3, <1>4 DEF Reached

-----------------------------------------------------------------------------
(* The inductive invariant.                                                *)

(* Whoever has a connection has it alone, and its timer is in the list     *)
(* unless Tick took it away from the pool.                                 *)
Ownership ==
  /\ live \intersect freed = {}
  /\ stolen \subseteq freed
  /\ armed \subseteq Listed
  /\ \A t \in handed : t \in Listed \union stolen /\ t \notin armed
  /\ \A w \in Worker : held[w] # Null =>
       /\ held[w] \in Listed \union stolen
       /\ held[w] \notin armed \union handed
       /\ \A v \in Worker : v # w => held[v] # held[w]

(* What the main thread knows of the node it has chosen.                   *)
Position ==
  /\ \A t \in Timer \ live : pre[t] = Null /\ next[t] = Null
  /\ Inserting => arg \in live
  /\ pc = "AddTimer" => pre[arg] = Null /\ next[arg] = Null
  /\ pc = "call" => raced \/ (head # Null /\ expire[head] <= expire[arg])
  /\ pc = "InsertTime" => /\ mid # arg
                          /\ raced \/ (mid \in Listed /\ expire[mid] <= expire[arg])
  /\ pc = "walk" => mid \in Listed /\ (raced \/ expire[mid] <= expire[arg])

IInv ==
  /\ TypeOK /\ Ownership /\ Position
  /\ LinksAgree /\ NoTimerLost /\ AscendingUnlessRaced /\ FaultExplained

(* The part of IInv about the list itself, in the terms of the lemmas.     *)
ListOK ==
  /\ Links(head, tail, pre, next, Listed)
  /\ Reached(head, next, Listed)
  /\ raced \/ Sorted(expire, next, Listed)

(* The parts of ListOK, to be cited one by one.                            *)
LEMMA ListOKMeaning ==
  /\ ListOK <=> LinksAgree /\ NoTimerLost /\ AscendingUnlessRaced
  /\ ListOK' <=> (LinksAgree /\ NoTimerLost /\ AscendingUnlessRaced)'
BY DEF ListOK, LinksAgree, NoTimerLost, AscendingUnlessRaced, Ascending,
       Links, Reached, Closed, Sorted

(* The empty list satisfies the invariant.                                 *)
LEMMA InitOK == Init => IInv
<1> SUFFICES ASSUME Init PROVE IInv OBVIOUS
<1> USE DEF Init, Listed, Inserting
<1>1. TypeOK
  <2>1. 0 \in 0 .. MaxTime + Lease /\ 0 \in Clock BY TimeAssumption DEF Clock
  <2> QED BY <2>1 DEF TypeOK
<1>2. Ownership BY NullAssumption DEF Ownership
<1>3. Position BY DEF Position
<1>4. LinksAgree /\ NoTimerLost /\ AscendingUnlessRaced
  BY DEF LinksAgree, NoTimerLost, AscendingUnlessRaced, Ascending
<1>5. FaultExplained BY DEF FaultExplained
<1> QED BY <1>1, <1>2, <1>3, <1>4, <1>5 DEF IInv

(* Steps that leave the list and its timers alone.                         *)
LEMMA SameList ==
  ASSUME ListOK, Listed' = Listed, UNCHANGED list, raced' = raced
  PROVE  ListOK'
BY DEF ListOK, list

(* DelTimer on a listed timer: the list without it.                        *)
LEMMA DelTimerStep ==
  ASSUME TypeOK, ListOK, NEW t \in Listed, DelLive(t),
         \A u \in Timer \ live : pre[u] = Null /\ next[u] = Null
  PROVE  /\ Links(head', tail', pre', next', Listed \ {t})
         /\ Reached(head', next', Listed \ {t})
         /\ raced \/ Sorted(expire', next', Listed \ {t})
         /\ head' \in Timer \union {Null} /\ tail' \in Timer \union {Null}
         /\ pre' \in Pointers /\ next' \in Pointers
         /\ expire' = [expire EXCEPT ![t] = 0]
         /\ live' = live \ {t} /\ freed' = freed \union {t}
         /\ \A u \in Timer \ Listed : pre'[u] = pre[u] /\ next'[u] = next[u]
         /\ pre'[t] = Null /\ next'[t] = Null
         /\ t # head => head' = head
<1> DEFINE L == Listed
<1>1. /\ L \in SUBSET Timer /\ t \in Timer /\ t # Null
      /\ head \in Timer \union {Null} /\ tail \in Timer \union {Null}
      /\ pre \in Pointers /\ next \in Pointers
  BY NullAssumption DEF TypeOK, Listed, Pointers
<1>2. Links(head, tail, pre, next, L) /\ Reached(head, next, L)
  BY DEF ListOK
<1>3. head # Null /\ head \in L /\ tail \in L
  BY <1>2 DEF Links, Reached
<1>4. /\ expire' = [expire EXCEPT ![t] = 0]
      /\ live' = live \ {t} /\ freed' = freed \union {t}
  BY DEF DelLive, DelOnly, DelHead, DelTail, DelMiddle, Delete
<1> HIDE DEF L
<1>5. CASE DelOnly(t)
  <2>1. L = {t} BY <1>1, <1>2, <1>5, OneNode DEF DelOnly
  <2>2. Listed = {t} BY <2>1 DEF L
  <2> QED BY <1>1, <1>4, <1>5, <2>2 DEF DelOnly, Links, Reached, Closed, Sorted, Pointers
<1>6. CASE DelHead(t)
  <2>1. t = head /\ t # tail BY <1>1, <1>2, <1>6 DEF DelHead, Links, L
  <2>2. next[t] # Null /\ next[t] \in L /\ next[t] # t BY <1>1, <1>2, <2>1, NullAssumption DEF Links, L
  <2>3. /\ head' = next[t] /\ tail' = tail
        /\ pre' = [pre EXCEPT ![next[t]] = Null, ![t] = Null]
        /\ next' = [next EXCEPT ![t] = Null]
    BY <1>6, <2>1 DEF DelHead
  <2>4. pre' \in Pointers /\ next' \in Pointers BY <1>1, <2>3 DEF Pointers
  <2>5. /\ \A u \in L \ {t} : next'[u] = next[u]
        /\ \A u \in L \ {t, next[t]} : pre'[u] = pre[u]
        /\ pre'[next[t]] = Null /\ pre'[t] = Null /\ next'[t] = Null
        /\ \A u \in Timer \ L : pre'[u] = pre[u] /\ next'[u] = next[u]
    BY <1>1, <2>2, <2>3 DEF Pointers, L
  <2>6. Links(next[t], tail, pre', next', L \ {t}) /\ Reached(next[t], next', L \ {t})
    BY <1>1, <1>2, <2>1, <2>2, <2>4, <2>5, UnlinkHead
  <2>7. raced \/ Sorted(expire', next', L \ {t})
    <3>1. ASSUME NEW u \in L \ {t}, next'[u] # Null
          PROVE  next'[u] = next[u] /\ next[u] # t
      BY <3>1, <1>1, <1>2, <2>1, <2>5, NullAssumption DEF Links
    <3> QED BY <3>1, <1>1, <1>2, <1>4 DEF ListOK, Sorted, Links, L, TypeOK
  <2> QED BY <1>1, <1>4, <2>1, <2>2, <2>3, <2>4, <2>5, <2>6, <2>7 DEF L
<1>7. CASE DelTail(t)
  <2>1. t = tail /\ t # head BY <1>1, <1>2, <1>7 DEF DelTail, Links, L
  <2>2. pre[t] # Null /\ pre[t] \in L /\ pre[t] # t BY <1>1, <1>2, <2>1, NullAssumption DEF Links, L
  <2>3. /\ head' = head /\ tail' = pre[t]
        /\ next' = [next EXCEPT ![pre[t]] = Null, ![t] = Null]
        /\ pre' = [pre EXCEPT ![t] = Null]
    BY <1>7, <2>1 DEF DelTail
  <2>4. pre' \in Pointers /\ next' \in Pointers BY <1>1, <2>3 DEF Pointers
  <2>5. /\ \A u \in L \ {t} : pre'[u] = pre[u]
        /\ \A u \in L \ {t, pre[t]} : next'[u] = next[u]
        /\ next'[pre[t]] = Null /\ pre'[t] = Null /\ next'[t] = Null
        /\ \A u \in Timer \ L : pre'[u] = pre[u] /\ next'[u] = next[u]
    BY <1>1, <2>2, <2>3 DEF Pointers, L
  <2>6. Links(head, pre[t], pre', next', L \ {t}) /\ Reached(head, next', L \ {t})
    BY <1>1, <1>2, <1>3, <2>1, <2>2, <2>4, <2>5, UnlinkTail
  <2>7. raced \/ Sorted(expire', next', L \ {t})
    <3>1. ASSUME NEW u \in L \ {t}, next'[u] # Null
          PROVE  next'[u] = next[u] /\ next[u] # t
      BY <3>1, <1>1, <1>2, <2>5 DEF Links
    <3> QED BY <3>1, <1>1, <1>2, <1>4 DEF ListOK, Sorted, Links, L, TypeOK
  <2> QED BY <1>1, <1>4, <2>1, <2>2, <2>3, <2>4, <2>5, <2>6, <2>7 DEF L
<1>8. CASE DelMiddle(t)
  <2>1. t # head /\ t # tail /\ pre[t] # Null /\ next[t] # Null BY <1>8 DEF DelMiddle
  <2>2. pre[t] \in L /\ next[t] \in L /\ next[pre[t]] = t /\ pre[next[t]] = t
    BY <1>1, <1>2, <2>1 DEF Links, L
  <2>3. /\ head' = head /\ tail' = tail
        /\ next' = [next EXCEPT ![pre[t]] = next[t], ![t] = Null]
        /\ pre' = [pre EXCEPT ![next[t]] = pre[t], ![t] = Null]
    BY <1>8 DEF DelMiddle
  <2>4. pre' \in Pointers /\ next' \in Pointers BY <1>1, <2>3 DEF Pointers
  <2>5. pre[t] # t /\ next[t] # t
    BY <1>1, <1>2, <1>3, <2>1, <2>2, NotItsOwn DEF L
  <2>6. /\ \A u \in L \ {t, next[t]} : pre'[u] = pre[u]
        /\ \A u \in L \ {t, pre[t]} : next'[u] = next[u]
        /\ next'[pre[t]] = next[t] /\ pre'[next[t]] = pre[t]
        /\ pre'[t] = Null /\ next'[t] = Null
        /\ \A u \in Timer \ L : pre'[u] = pre[u] /\ next'[u] = next[u]
    BY <1>1, <2>2, <2>3, <2>5 DEF Pointers, L
  <2>7. Links(head, tail, pre', next', L \ {t}) /\ Reached(head, next', L \ {t})
    BY <1>1, <1>2, <1>3, <2>1, <2>2, <2>4, <2>6, UnlinkMiddle DEF L
  <2>8. raced \/ Sorted(expire', next', L \ {t})
    <3> SUFFICES ASSUME ~raced, NEW u \in L \ {t}, next'[u] # Null
                 PROVE  expire'[u] <= expire'[next'[u]]
      BY DEF Sorted
    <3>1. \A v \in L : /\ expire[v] \in Nat
                       /\ next[v] # Null => next[v] \in L /\ expire[v] <= expire[next[v]]
      BY <1>1, <1>2, TimeAssumption DEF ListOK, Sorted, Links, L, TypeOK
    <3>2. \A v \in L \ {t} : expire'[v] = expire[v]
      BY <1>1, <1>4 DEF TypeOK
    <3>3. CASE u = pre[t]
      <4>1. expire[u] <= expire[t] /\ expire[t] <= expire[next[t]]
        BY <3>1, <3>3, <2>1, <2>2, <1>1 DEF L
      <4>2. expire[u] <= expire[next[t]]
        BY <4>1, <3>1, <2>2 DEF L
      <4> QED BY <4>2, <3>2, <3>3, <2>2, <2>5, <2>6
    <3>4. CASE u # pre[t]
      <4>1. next'[u] = next[u] BY <3>4, <2>6
      <4>2. next[u] # t BY <3>4, <1>2, <1>1 DEF Links
      <4> QED BY <4>1, <4>2, <3>1, <3>2
    <3> QED BY <3>3, <3>4
  <2> QED BY <1>1, <1>4, <2>1, <2>2, <2>3, <2>4, <2>6, <2>7, <2>8 DEF L
<1> QED BY <1>5, <1>6, <1>7, <1>8 DEF DelLive

(* Facts every step starts from.                                           *)
LEMMA Basics ==
  ASSUME IInv
  PROVE  /\ TypeOK /\ Ownership /\ Position /\ ListOK /\ FaultExplained
         /\ Null \notin Timer /\ Listed \subseteq live /\ live \subseteq Timer
         /\ head \in Timer \union {Null} /\ tail \in Timer \union {Null}
         /\ pre \in Pointers /\ next \in Pointers
         /\ head # Null => head \in Listed /\ tail \in Listed
BY NullAssumption, ListOKMeaning DEF IInv, TypeOK, Pointers, ListOK, Links, Listed

(* Where the mutex protects nothing of the list: steps that do not touch   *)
(* it or the main thread's place in it.                                    *)
LEMMA TakeStep ==
  ASSUME IInv, NEW w \in Worker, NEW t \in Timer, Take(w, t)
  PROVE  IInv'
<1>1. TypeOK' BY DEF IInv, TypeOK, Take, list, heap, main, ghost, Clock
<1>2. Listed' = Listed BY DEF Take, heap, main, Listed, Inserting
<1>3. Ownership' BY <1>2, NullAssumption DEF IInv, TypeOK, Ownership, Take, heap, ghost
<1>4. Position' BY <1>2 DEF IInv, Position, Take, Inserting, list, heap, main, ghost
<1>5. ListOK' BY <1>2, SameList, Basics DEF Take, ghost
<1>6. FaultExplained' BY DEF IInv, FaultExplained, Take, ghost
<1> QED BY <1>1, <1>3, <1>4, <1>5, <1>6, ListOKMeaning DEF IInv

(* A worker that rearms a connection keeps the invariant.                  *)
LEMMA RearmStep ==
  ASSUME IInv, NEW w \in Worker, Rearm(w)
  PROVE  IInv'
<1>1. TypeOK' BY DEF IInv, TypeOK, Rearm, list, heap, main, ghost, Clock
<1>2. Listed' = Listed BY DEF Rearm, heap, main, Listed, Inserting
<1>3. Ownership'
  BY <1>2, NullAssumption DEF IInv, TypeOK, Ownership, Rearm, heap, ghost, Listed
<1>4. Position' BY <1>2 DEF IInv, Position, Rearm, Inserting, list, heap, main, ghost
<1>5. ListOK' BY <1>2, SameList, Basics DEF Rearm, ghost
<1>6. FaultExplained' BY DEF IInv, FaultExplained, Rearm, ghost
<1> QED BY <1>1, <1>3, <1>4, <1>5, <1>6, ListOKMeaning DEF IInv

(* So does a worker that deletes a timer Tick has deleted.                 *)
LEMMA WorkerCloseAgainStep ==
  ASSUME IInv, ~fault, NEW w \in Worker, WorkerCloseAgain(w)
  PROVE  IInv'
<1>1. TypeOK'
  BY DEF IInv, TypeOK, WorkerCloseAgain, DelNothing, Fault, list, heap, main, owner, ghost, Clock
<1>2. /\ Listed' = Listed /\ UNCHANGED <<list, heap, main, armed, handed, ghost>>
      /\ held' = held \/ held' = [held EXCEPT ![w] = Null]
  BY DEF WorkerCloseAgain, DelNothing, Fault, list, heap, main, owner, ghost, Listed, Inserting
<1>3. Ownership'
  BY <1>2, NullAssumption DEF IInv, TypeOK, Ownership, heap, ghost
<1>4. Position' BY <1>2 DEF IInv, Position, Inserting, list, heap, main, ghost
<1>5. ListOK' BY <1>2, SameList, Basics DEF ghost
<1>6. FaultExplained'
  <2>1. held[w] \in stolen
    BY DEF WorkerCloseAgain, IInv, Ownership, Listed
  <2> QED BY <2>1, <1>2 DEF FaultExplained, ghost
<1> QED BY <1>1, <1>3, <1>4, <1>5, <1>6, ListOKMeaning DEF IInv

(* So does the start of Tick.                                              *)
LEMMA TickBeginStep ==
  ASSUME IInv, TickBegin
  PROVE  IInv'
<1>1. TypeOK' BY DEF IInv, TypeOK, TickBegin, list, heap, owner, ghost, Clock
<1>2. Listed' = Listed BY DEF TickBegin, heap, Listed, Inserting
<1>3. Ownership' BY <1>2 DEF IInv, Ownership, TickBegin, heap, owner, ghost
<1>4. Position' BY <1>2 DEF IInv, Position, TickBegin, Inserting, list, heap, ghost
<1>5. ListOK' BY <1>2, SameList, Basics DEF TickBegin, ghost
<1>6. FaultExplained' BY DEF IInv, FaultExplained, TickBegin, ghost
<1> QED BY <1>1, <1>3, <1>4, <1>5, <1>6, ListOKMeaning DEF IInv

(* So does the end of Tick, at the first timer that has not expired.       *)
LEMMA TickStopStep ==
  ASSUME IInv, TickStop
  PROVE  IInv'
<1>1. TypeOK'
  BY TimeAssumption DEF IInv, TypeOK, TickStop, list, heap, owner, ghost, Clock
<1>2. Listed' = Listed BY DEF TickStop, heap, Listed, Inserting
<1>3. Ownership' BY <1>2 DEF IInv, Ownership, TickStop, heap, owner, ghost
<1>4. Position' BY <1>2 DEF IInv, Position, TickStop, Inserting, list, heap, ghost
<1>5. ListOK' BY <1>2, SameList, Basics DEF TickStop, ghost
<1>6. FaultExplained' BY DEF IInv, FaultExplained, TickStop, ghost
<1> QED BY <1>1, <1>3, <1>4, <1>5, <1>6, ListOKMeaning DEF IInv

(* The main thread looking for the place of a timer.                       *)
LEMMA AddLaterStep ==
  ASSUME IInv, AddLater
  PROVE  IInv'
<1>1. TypeOK' BY DEF IInv, TypeOK, AddLater, list, heap, owner, ghost, Clock
<1>2. Listed' = Listed BY DEF AddLater, heap, Listed, Inserting
<1>3. Ownership' BY <1>2 DEF IInv, Ownership, AddLater, heap, owner, ghost
<1>4. Position'
  <2>1. head \in live /\ arg \in live /\ expire \in [Timer -> Nat]
    BY Basics, TimeAssumption DEF IInv, Position, AddLater, Inserting, TypeOK
  <2>2. expire[head] <= expire[arg] BY <2>1, Basics DEF AddLater
  <2> QED BY <1>2, <2>2 DEF IInv, Position, AddLater, Inserting, list, heap, ghost
<1>5. ListOK' BY <1>2, SameList, Basics DEF AddLater, ghost
<1>6. FaultExplained' BY DEF IInv, FaultExplained, AddLater, ghost
<1> QED BY <1>1, <1>3, <1>4, <1>5, <1>6, ListOKMeaning DEF IInv

(* So does AddTimer when it evaluates head as an argument, unlocked.       *)
LEMMA ReadHeadStep ==
  ASSUME IInv, ReadHead
  PROVE  IInv'
<1>1. TypeOK' BY DEF IInv, TypeOK, ReadHead, list, heap, owner, ghost, Clock
<1>2. Listed' = Listed BY DEF ReadHead, heap, Listed, Inserting
<1>3. Ownership' BY <1>2 DEF IInv, Ownership, ReadHead, heap, owner, ghost
<1>4. Position'
  <2>1. arg \in live /\ arg \notin Listed /\ arg \in Timer
    BY Basics DEF IInv, Position, ReadHead, Inserting, Listed
  <2>2. head # arg /\ (head # Null => head \in Listed) BY <2>1, Basics
  <2> QED BY <1>2, <2>2 DEF IInv, Position, ReadHead, Inserting, list, heap, ghost
<1>5. ListOK' BY <1>2, SameList, Basics DEF ReadHead, ghost
<1>6. FaultExplained' BY DEF IInv, FaultExplained, ReadHead, ghost
<1> QED BY <1>1, <1>3, <1>4, <1>5, <1>6, ListOKMeaning DEF IInv

(* So does InsertTime when it starts from that argument.                   *)
LEMMA InsertBeginStep ==
  ASSUME IInv, ~fault, InsertBegin
  PROVE  IInv'
<1>1. TypeOK'
  BY DEF IInv, TypeOK, InsertBegin, Fault, list, heap, main, owner, ghost, Clock
<1>2. Listed' = Listed BY DEF InsertBegin, Fault, heap, main, Listed, Inserting
<1>3. Ownership'
  BY <1>2 DEF IInv, Ownership, InsertBegin, Fault, heap, owner, ghost
<1>4. Position'
  BY <1>2 DEF IInv, Position, InsertBegin, Fault, Inserting, Listed, list, heap, main, ghost
<1>5. ListOK' BY <1>2, SameList, Basics DEF InsertBegin, Fault, ghost
<1>6. FaultExplained'
  BY Basics DEF IInv, FaultExplained, Position, InsertBegin, Fault, ghost
<1> QED BY <1>1, <1>3, <1>4, <1>5, <1>6, ListOKMeaning DEF IInv

(* So does a round of the loop of InsertTime.                              *)
LEMMA WalkStep ==
  ASSUME IInv, Walk
  PROVE  IInv'
<1>1. TypeOK'
  <2>1. mid \in Timer BY Basics DEF IInv, Position, Walk
  <2> QED BY <2>1 DEF IInv, TypeOK, Walk, list, heap, owner, ghost, Clock
<1>2. Listed' = Listed BY DEF Walk, heap, Listed, Inserting
<1>3. Ownership' BY <1>2 DEF IInv, Ownership, Walk, heap, owner, ghost
<1>4. Position'
  <2>1. mid \in Listed /\ arg \in live /\ expire \in [Timer -> Nat]
    BY TimeAssumption DEF IInv, Position, Walk, Inserting, TypeOK
  <2>2. next[mid] \in Listed BY <2>1, Basics DEF Walk, ListOK, Links
  <2>3. expire[next[mid]] <= expire[arg] BY <2>1, <2>2, Basics DEF Walk
  <2> QED BY <1>2, <2>2, <2>3 DEF IInv, Position, Walk, Inserting, list, heap, ghost
<1>5. ListOK' BY <1>2, SameList, Basics DEF Walk, ghost
<1>6. FaultExplained' BY DEF IInv, FaultExplained, Walk, ghost
<1> QED BY <1>1, <1>3, <1>4, <1>5, <1>6, ListOKMeaning DEF IInv

(* The steps that complete an insertion: Return and the rest of IInv.      *)
LEMMA ReturnStep ==
  ASSUME IInv, Inserting, Return(arg, caller), UNCHANGED <<expire, heap, fault, ghost>>,
         head' \in Timer \union {Null}, tail' \in Timer \union {Null},
         pre' \in Pointers, next' \in Pointers,
         \A u \in Timer \ live : pre'[u] = pre[u] /\ next'[u] = next[u]
  PROVE  /\ Listed = live \ {arg} /\ arg \in live /\ arg \notin Listed
         /\ Listed' = Listed \union {arg} /\ raced' = raced
         /\ TypeOK' /\ Ownership' /\ Position' /\ FaultExplained'
<1>1. Listed = live \ {arg} /\ arg \in live /\ arg \notin Listed /\ arg \in Timer
  BY Basics DEF IInv, Position, Listed
<1>2. Listed' = Listed \union {arg} /\ raced' = raced
  BY <1>1 DEF Return, Listed, Inserting, heap, ghost
<1>3. TypeOK'
  BY <1>1, Basics DEF IInv, TypeOK, Return, heap, ghost, Clock, Pointers
<1>4. Ownership'
  <2>1. /\ armed' \subseteq armed \union {arg} /\ handed' \subseteq handed \union {arg}
        /\ ~ (arg \in armed' /\ arg \in handed') /\ held' = held
    <3>1. arg \notin armed /\ arg \notin handed BY <1>1 DEF IInv, Ownership
    <3> QED BY <3>1 DEF Return
  <2>2. arg \notin stolen /\ live' = live /\ freed' = freed /\ stolen' = stolen
    BY <1>1 DEF IInv, Ownership, heap, ghost
  <2>3. arg \notin armed /\ arg \notin handed /\ \A w \in Worker : held[w] # arg
    BY <1>1, <2>2, Basics DEF IInv, Ownership
  <2>4. /\ \A t \in handed' : t \in Listed' \union stolen' /\ t \notin armed'
        /\ armed' \subseteq Listed'
    BY <1>2, <2>1, <2>2, <2>3 DEF IInv, Ownership
  <2>5. \A w \in Worker : held'[w] # Null =>
           /\ held'[w] \in Listed' \union stolen'
           /\ held'[w] \notin armed' \union handed'
           /\ \A v \in Worker : v # w => held'[v] # held'[w]
    BY <1>2, <2>1, <2>2, <2>3 DEF IInv, Ownership
  <2> QED BY <2>2, <2>4, <2>5 DEF IInv, Ownership
<1>5. Position'
  BY <1>1 DEF IInv, Position, Return, Inserting, heap, ghost
<1>6. FaultExplained' BY DEF IInv, FaultExplained, ghost
<1> QED BY <1>1, <1>2, <1>3, <1>4, <1>5, <1>6

(* So does AddTimer on an empty list.                                      *)
LEMMA AddEmptyStep ==
  ASSUME IInv, AddEmpty
  PROVE  IInv'
<1>1. /\ arg \in Timer /\ arg # Null /\ Inserting /\ pre[arg] = Null /\ next[arg] = Null
      /\ Return(arg, caller)
      /\ head' = arg /\ tail' = arg /\ UNCHANGED <<pre, next, expire, heap, fault, ghost>>
  BY Basics DEF AddEmpty, IInv, Position, Inserting
<1>2. /\ Listed' = Listed \union {arg} /\ raced' = raced
      /\ TypeOK' /\ Ownership' /\ Position' /\ FaultExplained'
  BY <1>1, Basics, ReturnStep
<1>3. Listed' = {arg} BY <1>2, Basics DEF AddEmpty, ListOK, Reached
<1>4. ListOK'
  <2>1. Links(arg, arg, pre, next, {arg}) BY <1>1 DEF Links
  <2>2. Reached(arg, next, {arg}) BY <1>1 DEF Reached, Closed
  <2>3. Sorted(expire, next, {arg}) BY <1>1 DEF Sorted
  <2> QED BY <1>1, <1>3, <2>1, <2>2, <2>3 DEF ListOK
<1> QED BY <1>2, <1>4, ListOKMeaning DEF IInv

(* So does AddTimer before the head.                                       *)
LEMMA AddFirstStep ==
  ASSUME IInv, AddFirst
  PROVE  IInv'
<1>1. /\ Inserting /\ arg \in Timer \ Listed /\ Return(arg, caller) /\ pre[arg] = Null
      /\ head \in Listed /\ head \in Timer /\ head # arg
      /\ arg \in live /\ expire \in [Timer -> Nat] /\ expire[arg] < expire[head]
  BY Basics, TimeAssumption
  DEF AddFirst, IInv, Position, Inserting, Listed, TypeOK
<1>2. /\ head' = arg /\ tail' = tail /\ UNCHANGED <<expire, heap, fault, ghost>>
      /\ next' = [next EXCEPT ![arg] = head]
      /\ pre' = [pre EXCEPT ![head] = arg]
  BY DEF AddFirst
<1>3. /\ pre' \in Pointers /\ next' \in Pointers
      /\ \A t \in Listed : next'[t] = next[t]
      /\ \A t \in Listed \ {head} : pre'[t] = pre[t]
      /\ next'[arg] = head /\ pre'[head] = arg /\ pre'[arg] = Null
      /\ \A u \in Timer \ live : pre'[u] = pre[u] /\ next'[u] = next[u]
  BY <1>1, <1>2, Basics DEF Pointers
<1>4. /\ Listed' = Listed \union {arg} /\ raced' = raced
      /\ TypeOK' /\ Ownership' /\ Position' /\ FaultExplained'
  BY <1>1, <1>2, <1>3, Basics, ReturnStep
<1>5. ListOK'
  <2> DEFINE L == Listed  p2 == pre'  n2 == next'
  <2>1. /\ L \in SUBSET Timer /\ tail \in Timer \union {Null} /\ head \in Timer
        /\ pre \in Pointers /\ next \in Pointers /\ p2 \in Pointers /\ n2 \in Pointers
        /\ arg \in Timer \ L
        /\ Links(head, tail, pre, next, L) /\ Reached(head, next, L)
        /\ \A t \in L \union {arg} : n2[t] = IF t = arg THEN head ELSE next[t]
        /\ \A t \in L \union {arg} :
             p2[t] = IF t = head THEN arg ELSE IF t = arg THEN Null ELSE pre[t]
    BY <1>1, <1>3, Basics DEF ListOK
  <2> HIDE DEF L, p2, n2
  <2>4. Links(arg, tail, p2, n2, L \union {arg}) /\ Reached(arg, n2, L \union {arg})
    BY <2>1, LinkFirst
  <2>2. /\ Links(arg, tail, pre', next', Listed \union {arg})
        /\ Reached(arg, next', Listed \union {arg})
    BY <2>4 DEF L, p2, n2
  <2>3. raced \/ Sorted(expire, next', Listed \union {arg})
    <3>1. \A t \in Listed \union {arg} : expire[t] \in Nat BY <1>1, Basics
    <3>2. raced \/ Sorted(expire, next, Listed) BY Basics DEF ListOK
    <3> QED BY <1>1, <1>3, <3>1, <3>2 DEF Sorted
  <2> QED BY <1>2, <1>4, <2>2, <2>3 DEF ListOK
<1> QED BY <1>4, <1>5, ListOKMeaning DEF IInv

(* So does InsertTime between two nodes.                                   *)
LEMMA InsertBeforeStep ==
  ASSUME IInv, InsertBefore
  PROVE  IInv'
<1> DEFINE post == next[mid]
<1>1. /\ Inserting /\ arg \in Timer \ Listed /\ Return(arg, caller)
      /\ mid \in Listed /\ mid \in Timer /\ mid # arg
      /\ arg \in live /\ expire \in [Timer -> Nat]
      /\ raced \/ expire[mid] <= expire[arg]
  BY Basics, TimeAssumption
  DEF InsertBefore, IInv, Position, Inserting, Listed, TypeOK
<1>2. post \in Listed /\ post \in Timer /\ post # arg /\ post # mid
  <2>1. post \in Listed BY <1>1, Basics DEF InsertBefore, ListOK, Links
  <2>2. head \in Timer BY <1>1, Basics DEF ListOK, Reached
  <2>3. post # mid BY <1>1, <2>2, Basics, NotItsOwn DEF ListOK
  <2> QED BY <1>1, <2>1, <2>3, Basics
<1>3. /\ head' = head /\ tail' = tail /\ UNCHANGED <<expire, heap, fault, ghost>>
      /\ next' = [next EXCEPT ![mid] = arg, ![arg] = post]
      /\ pre' = [pre EXCEPT ![post] = arg, ![arg] = mid]
      /\ expire[arg] < expire[post]
  BY DEF InsertBefore
<1> HIDE DEF post
<1>4. /\ pre' \in Pointers /\ next' \in Pointers
      /\ \A t \in Listed \ {mid} : next'[t] = next[t]
      /\ \A t \in Listed \ {post} : pre'[t] = pre[t]
      /\ next'[mid] = arg /\ next'[arg] = post /\ pre'[post] = arg /\ pre'[arg] = mid
      /\ \A u \in Timer \ live : pre'[u] = pre[u] /\ next'[u] = next[u]
  BY <1>1, <1>2, <1>3, Basics DEF Pointers
<1>5. /\ Listed' = Listed \union {arg} /\ raced' = raced
      /\ TypeOK' /\ Ownership' /\ Position' /\ FaultExplained'
  BY <1>1, <1>3, <1>4, Basics, ReturnStep
<1>6. ListOK'
  <2>1. Listed \in SUBSET Timer /\ next[mid] = post BY Basics DEF post
  <2>2. /\ Links(head, tail, pre', next', Listed \union {arg})
        /\ Reached(head, next', Listed \union {arg})
    BY <1>1, <1>2, <1>4, <2>1, Basics, LinkBetween DEF ListOK
  <2>3. raced \/ Sorted(expire, next', Listed \union {arg})
    <3>1. \A t \in Listed \union {arg} : expire[t] \in Nat BY <1>1, <2>1
    <3>2. raced \/ Sorted(expire, next, Listed) BY Basics DEF ListOK
    <3> SUFFICES ASSUME ~raced, NEW t \in Listed \union {arg}, next'[t] # Null
                 PROVE  expire[t] <= expire[next'[t]]
      BY DEF Sorted
    <3>3. CASE t = arg BY <3>3, <3>1, <1>2, <1>3, <1>4
    <3>4. CASE t = mid BY <3>4, <1>1, <1>4
    <3>5. CASE t \in Listed \ {mid} BY <3>5, <3>2, <1>4 DEF Sorted
    <3> QED BY <3>3, <3>4, <3>5
  <2> QED BY <1>3, <1>5, <2>2, <2>3 DEF ListOK
<1> QED BY <1>5, <1>6, ListOKMeaning DEF IInv

(* So does InsertTime at the tail.                                         *)
LEMMA InsertLastStep ==
  ASSUME IInv, InsertLast
  PROVE  IInv'
<1>1. /\ Inserting /\ arg \in Timer \ Listed /\ Return(arg, caller)
      /\ mid \in Listed /\ mid \in Timer
      /\ arg \in live /\ expire \in [Timer -> Nat]
      /\ raced \/ expire[mid] <= expire[arg]
  BY Basics, TimeAssumption
  DEF InsertLast, IInv, Position, Inserting, Listed, TypeOK
<1>2. mid = tail /\ head \in Timer /\ tail # arg
  BY <1>1, Basics DEF InsertLast, ListOK, Links, Reached
<1>3. /\ head' = head /\ tail' = arg /\ UNCHANGED <<expire, heap, fault, ghost>>
      /\ next' = [next EXCEPT ![tail] = arg, ![arg] = Null]
      /\ pre' = [pre EXCEPT ![arg] = tail]
  BY DEF InsertLast
<1>4. /\ pre' \in Pointers /\ next' \in Pointers
      /\ \A t \in Listed \ {tail} : next'[t] = next[t]
      /\ \A t \in Listed : pre'[t] = pre[t]
      /\ next'[tail] = arg /\ next'[arg] = Null /\ pre'[arg] = tail
      /\ \A u \in Timer \ live : pre'[u] = pre[u] /\ next'[u] = next[u]
  BY <1>1, <1>2, <1>3, Basics DEF Pointers
<1>5. /\ Listed' = Listed \union {arg} /\ raced' = raced
      /\ TypeOK' /\ Ownership' /\ Position' /\ FaultExplained'
  BY <1>1, <1>2, <1>3, <1>4, Basics, ReturnStep
<1>6. ListOK'
  <2>1. Listed \in SUBSET Timer BY Basics
  <2>2. /\ Links(head, arg, pre', next', Listed \union {arg})
        /\ Reached(head, next', Listed \union {arg})
    BY <1>1, <1>2, <1>4, <2>1, Basics, LinkLast DEF ListOK
  <2>3. raced \/ Sorted(expire, next', Listed \union {arg})
    <3>1. raced \/ Sorted(expire, next, Listed) BY Basics DEF ListOK
    <3> QED BY <1>1, <1>2, <1>4, <3>1 DEF Sorted
  <2> QED BY <1>3, <1>5, <2>2, <2>3 DEF ListOK
<1> QED BY <1>5, <1>6, ListOKMeaning DEF IInv

(* So does accept, which makes the timer that is to be added.              *)
LEMMA AcceptStep ==
  ASSUME IInv, NEW t \in Timer, Accept(t)
  PROVE  IInv'
<1>1. /\ pc = "epoll_wait" /\ t \notin live /\ t \notin freed /\ t \notin Listed
      /\ live' = live \union {t} /\ pc' = "AddTimer" /\ arg' = t
      /\ UNCHANGED <<head, tail, pre, next, freed, mid, cur, owner, fault, ghost>>
  BY DEF Accept, Listed, Inserting
<1>2. Listed' = Listed /\ Listed = live
  BY <1>1 DEF Listed, Inserting
<1>3. TypeOK' /\ \A u \in Timer \ {t} : expire'[u] = expire[u]
  <2>1. PICK time \in Clock : expire' = [expire EXCEPT ![t] = time + Lease]
    BY DEF Accept
  <2>2. time + Lease \in 0 .. MaxTime + Lease /\ time + Lease >= Lease
    BY TimeAssumption DEF Clock
  <2>3. caller' = "EstablishConnection" BY DEF Accept
  <2> QED BY <1>1, <2>1, <2>2, <2>3 DEF IInv, TypeOK, owner, ghost
<1>4. Ownership'
  BY <1>1, <1>2 DEF IInv, Ownership, owner, ghost
<1>5. Position'
  BY <1>1, <1>2 DEF IInv, Position, Inserting
<1>6. ListOK'
  <2>1. /\ Links(head, tail, pre, next, Listed) /\ Reached(head, next, Listed)
        /\ raced \/ Sorted(expire, next, Listed)
    BY Basics DEF ListOK
  <2>2. Sorted(expire, next, Listed) => Sorted(expire', next, Listed)
    BY <1>1, <1>3, <2>1, Basics DEF Sorted, Links
  <2> QED BY <1>1, <1>2, <2>1, <2>2 DEF ListOK, ghost
<1>7. FaultExplained' BY <1>1 DEF IInv, FaultExplained, ghost
<1> QED BY <1>3, <1>4, <1>5, <1>6, <1>7, ListOKMeaning DEF IInv

(* Handing a watched connection over to the pool keeps the owners apart.   *)
LEMMA AdjustNothingStep ==
  ASSUME IInv, NEW t \in Timer, AdjustNothing(t)
  PROVE  IInv'
<1>1. /\ pc = "epoll_wait" /\ pc' = "epoll_wait" /\ arg' = Null /\ mid' = Null
      /\ cur' = cur /\ caller' = "Deal" /\ held' = held /\ t \in armed
      /\ armed' = armed \ {t} /\ handed' \in {handed, handed \union {t}}
      /\ UNCHANGED <<list, heap, fault, ghost>>
  BY DEF AdjustNothing, Return
<1>2. Listed' = Listed BY <1>1 DEF Listed, Inserting, heap
<1>3. TypeOK' BY <1>1 DEF IInv, TypeOK, list, heap, ghost, Clock
<1>4. Ownership'
  <2>1. \A w \in Worker : held[w] # t
    BY <1>1, NullAssumption DEF IInv, Ownership
  <2> QED BY <1>1, <1>2, <2>1 DEF IInv, Ownership, heap, ghost
<1>5. Position' BY <1>1, <1>2 DEF IInv, Position, Inserting, list, heap, ghost
<1>6. ListOK' BY <1>1, <1>2, SameList, Basics DEF ghost
<1>7. FaultExplained' BY <1>1 DEF IInv, FaultExplained, ghost
<1> QED BY <1>3, <1>4, <1>5, <1>6, <1>7, ListOKMeaning DEF IInv

(* Taking a timer out of the list to insert it again.                      *)
LEMMA TakenOut ==
  ASSUME IInv, NEW t \in armed, ~Inserting, Inserting', arg' = t,
         armed' = armed \ {t}, UNCHANGED <<heap, handed, held, fault, ghost>>
  PROVE  /\ Listed = live /\ Listed' = Listed \ {t} /\ t \in Listed /\ t \in Timer
         /\ Ownership' /\ FaultExplained'
<1>1. Listed = live /\ t \in Listed /\ t \in Timer
  BY Basics DEF Listed, Ownership
<1>2. Listed' = Listed \ {t} BY <1>1 DEF Listed, heap
<1>3. t \notin handed /\ \A w \in Worker : held[w] # t
  BY <1>1, NullAssumption, Basics DEF Ownership
<1>4. Ownership' BY <1>1, <1>2, <1>3 DEF IInv, Ownership, heap, ghost
<1>5. FaultExplained' BY DEF IInv, FaultExplained, ghost
<1> QED BY <1>1, <1>2, <1>4, <1>5

(* So does AdjustTimer on the head.                                        *)
LEMMA AdjustHeadStep ==
  ASSUME IInv, NEW t \in Timer, AdjustHead(t)
  PROVE  IInv'
<1>1. /\ pc = "epoll_wait" /\ t \in armed /\ next[t] # Null /\ t # tail
      /\ t = head \/ pre[t] = Null
      /\ head' = next[head] /\ pre' = [pre EXCEPT ![next[head]] = Null]
      /\ next' = [next EXCEPT ![t] = Null]
      /\ pc' = "AddTimer" /\ arg' = t /\ caller' = "Deal" /\ armed' = armed \ {t}
      /\ UNCHANGED <<tail, expire, heap, mid, cur, handed, held, fault, ghost>>
  BY DEF AdjustHead, Misplaced
<1>2. /\ Listed = live /\ Listed' = Listed \ {t} /\ t \in Listed
      /\ Ownership' /\ FaultExplained'
  BY <1>1, TakenOut DEF Inserting
<1>3. t = head /\ pre[t] = Null /\ next[t] \in Listed /\ next[t] # t
  <2>1. t = head /\ pre[t] = Null /\ next[t] \in Listed
    BY <1>1, <1>2, Basics DEF ListOK, Links
  <2> QED BY <1>2, <2>1, Basics, NotItsOwn DEF ListOK
<1>4. /\ pre' \in Pointers /\ next' \in Pointers
      /\ \A u \in Listed \ {t} : next'[u] = next[u]
      /\ \A u \in Listed \ {t, next[t]} : pre'[u] = pre[u]
      /\ pre'[next[t]] = Null /\ pre'[t] = Null /\ next'[t] = Null
      /\ \A u \in Timer \ live : pre'[u] = pre[u] /\ next'[u] = next[u]
  BY <1>1, <1>2, <1>3, Basics DEF Pointers
<1>5. TypeOK'
  <2>1. head' \in Timer BY <1>1, <1>2, <1>3, Basics
  <2> QED BY <1>1, <1>4, <2>1 DEF IInv, TypeOK, heap, ghost, Clock, Pointers
<1>6. Position' BY <1>1, <1>2, <1>4 DEF IInv, Position, Inserting, heap
<1>7. ListOK'
  <2>1. /\ Listed \in SUBSET Timer /\ tail \in Timer \union {Null}
        /\ pre \in Pointers /\ next \in Pointers
        /\ Links(t, tail, pre, next, Listed) /\ Reached(t, next, Listed)
    BY <1>3, Basics DEF ListOK
  <2> DEFINE L == Listed  p2 == pre'  n2 == next'
  <2>4. /\ L \in SUBSET Timer /\ t \in Timer /\ p2 \in Pointers /\ n2 \in Pointers
        /\ Links(t, tail, pre, next, L) /\ Reached(t, next, L) /\ next[t] # Null
        /\ \A u \in L \ {t} : n2[u] = next[u]
        /\ \A u \in L \ {t, next[t]} : p2[u] = pre[u]
        /\ p2[next[t]] = Null
    BY <1>1, <1>4, <2>1
  <2> HIDE DEF L, p2, n2
  <2>5. Links(next[t], tail, p2, n2, L \ {t}) /\ Reached(next[t], n2, L \ {t})
    BY <2>1, <2>4, UnlinkHead
  <2>2. Links(next[t], tail, pre', next', Listed \ {t}) /\ Reached(next[t], next', Listed \ {t})
    BY <2>5 DEF L, p2, n2
  <2>3. raced \/ Sorted(expire, next', Listed \ {t})
    BY <1>4, Basics DEF ListOK, Sorted
  <2> QED BY <1>1, <1>2, <1>3, <2>2, <2>3 DEF ListOK, ghost
<1> QED BY <1>2, <1>5, <1>6, <1>7, ListOKMeaning DEF IInv

(* So does AdjustTimer on a node behind the head.                          *)
LEMMA AdjustMiddleStep ==
  ASSUME IInv, NEW t \in Timer, AdjustMiddle(t)
  PROVE  IInv'
<1> DEFINE a == pre[t]  b == next[t]
<1>1. /\ pc = "epoll_wait" /\ t \in armed /\ b # Null /\ t # tail /\ t # head /\ a # Null
      /\ expire[t] >= expire[b]
      /\ next' = [next EXCEPT ![a] = b] /\ pre' = [pre EXCEPT ![b] = a]
      /\ pc' = "InsertTime" /\ arg' = t /\ mid' = b /\ caller' = "Deal" /\ armed' = armed \ {t}
      /\ UNCHANGED <<head, tail, expire, heap, cur, handed, held, fault, ghost>>
  BY DEF AdjustMiddle, Misplaced
<1>2. /\ Listed = live /\ Listed' = Listed \ {t} /\ t \in Listed
      /\ Ownership' /\ FaultExplained'
  BY <1>1, TakenOut DEF Inserting
<1>3. /\ a \in Listed /\ b \in Listed /\ next[a] = t /\ pre[b] = t
      /\ a # t /\ b # t /\ head \in Timer
  <2>1. a \in Listed /\ b \in Listed /\ next[a] = t /\ pre[b] = t /\ head \in Timer
    BY <1>1, <1>2, Basics DEF ListOK, Links, Reached
  <2> QED BY <1>2, <2>1, Basics, NotItsOwn DEF ListOK
<1>4. /\ pre' \in Pointers /\ next' \in Pointers
      /\ \A u \in Listed \ {t, a} : next'[u] = next[u]
      /\ \A u \in Listed \ {t, b} : pre'[u] = pre[u]
      /\ next'[a] = b /\ pre'[b] = a
      /\ \A u \in Timer \ live : pre'[u] = pre[u] /\ next'[u] = next[u]
  BY <1>1, <1>2, <1>3, Basics DEF Pointers
<1>5. TypeOK'
  BY <1>1, <1>3, <1>4, Basics DEF IInv, TypeOK, heap, ghost, Clock, Pointers
<1>6. Position'
  <2>1. expire[b] <= expire[t]
    BY <1>1, <1>2, <1>3, Basics, TimeAssumption DEF TypeOK
  <2> QED BY <1>1, <1>2, <1>3, <1>4, <2>1 DEF IInv, Position, Inserting, heap
<1>7. ListOK'
  <2>1. /\ Listed \in SUBSET Timer /\ tail \in Timer \union {Null}
        /\ pre \in Pointers /\ next \in Pointers
        /\ Links(head, tail, pre, next, Listed) /\ Reached(head, next, Listed)
    BY Basics DEF ListOK
  <2> DEFINE L == Listed  p2 == pre'  n2 == next'
  <2>4. /\ L \in SUBSET Timer /\ t \in L /\ p2 \in Pointers /\ n2 \in Pointers
        /\ Links(head, tail, pre, next, L) /\ Reached(head, next, L)
        /\ pre[t] # Null /\ next[t] # Null
        /\ \A u \in L \ {t, pre[t]} : n2[u] = next[u]
        /\ \A u \in L \ {t, next[t]} : p2[u] = pre[u]
        /\ n2[pre[t]] = next[t] /\ p2[next[t]] = pre[t]
    BY <1>1, <1>2, <1>4, <2>1
  <2> HIDE DEF L, p2, n2
  <2>5. Links(head, tail, p2, n2, L \ {t}) /\ Reached(head, n2, L \ {t})
    BY <1>3, <2>1, <2>4, UnlinkMiddle
  <2>2. Links(head, tail, pre', next', Listed \ {t}) /\ Reached(head, next', Listed \ {t})
    BY <2>5 DEF L, p2, n2
  <2>3. raced \/ Sorted(expire, next', Listed \ {t})
    <3> SUFFICES ASSUME ~raced, NEW u \in Listed \ {t}, next'[u] # Null
                 PROVE  expire[u] <= expire[next'[u]]
      BY DEF Sorted
    <3>1. \A v \in Listed : /\ expire[v] \in Nat
                            /\ next[v] # Null => expire[v] <= expire[next[v]]
      BY Basics, TimeAssumption DEF ListOK, Sorted, TypeOK
    <3>2. CASE u = a
      BY <3>1, <3>2, <1>1, <1>2, <1>3, <1>4, NullAssumption
    <3>3. CASE u # a BY <3>1, <3>3, <1>4
    <3> QED BY <3>2, <3>3
  <2> QED BY <1>1, <1>2, <2>2, <2>3 DEF ListOK, ghost
<1> QED BY <1>2, <1>5, <1>6, <1>7, ListOKMeaning DEF IInv

(* Steps that delete a listed timer.  Ownership holds afterwards because   *)
(* the deleted timer is nobody's any more, or is recorded as stolen.       *)
LEMMA HangUpStep ==
  ASSUME IInv, NEW t \in Timer, HangUp(t)
  PROVE  IInv'
<1>1. /\ pc = "epoll_wait" /\ t \in armed /\ DelLive(t) /\ armed' = armed \ {t}
      /\ UNCHANGED <<main, handed, held, fault, ghost>>
      /\ t \in Listed /\ Listed = live
  BY Basics DEF HangUp, Ownership, Listed, Inserting
<1>2. /\ Links(head', tail', pre', next', Listed \ {t})
      /\ Reached(head', next', Listed \ {t})
      /\ raced \/ Sorted(expire', next', Listed \ {t})
      /\ head' \in Timer \union {Null} /\ tail' \in Timer \union {Null}
      /\ pre' \in Pointers /\ next' \in Pointers
      /\ expire' = [expire EXCEPT ![t] = 0]
      /\ live' = live \ {t} /\ freed' = freed \union {t}
      /\ \A u \in Timer \ Listed : pre'[u] = pre[u] /\ next'[u] = next[u]
      /\ pre'[t] = Null /\ next'[t] = Null
  BY <1>1, Basics, DelTimerStep DEF Position
<1>3. Listed' = Listed \ {t} BY <1>1, <1>2 DEF Listed, Inserting, main
<1>4. TypeOK'
  <2>1. expire' \in [Timer -> 0 .. MaxTime + Lease] /\ \A u \in live' : expire'[u] >= Lease
    BY <1>2, TimeAssumption DEF IInv, TypeOK
  <2> QED BY <1>1, <1>2, <2>1 DEF IInv, TypeOK, main, ghost, Clock, Pointers
<1>5. Ownership'
  <2>1. t \notin handed /\ t \notin stolen /\ \A w \in Worker : held[w] # t
    BY <1>1, Basics DEF Ownership
  <2> QED BY <1>1, <1>2, <1>3, <2>1 DEF IInv, Ownership, ghost
<1>6. Position' BY <1>1, <1>2 DEF IInv, Position, Inserting, main
<1>7. ListOK' BY <1>1, <1>2, <1>3 DEF ListOK, ghost
<1>8. FaultExplained' BY <1>1 DEF IInv, FaultExplained, ghost
<1> QED BY <1>4, <1>5, <1>6, <1>7, <1>8, ListOKMeaning DEF IInv

(* So does DelTimer, called by a worker that closes its connection.        *)
LEMMA WorkerCloseStep ==
  ASSUME IInv, ~fault, NEW w \in Worker, WorkerClose(w)
  PROVE  IInv'
<1> DEFINE t == held[w]
<1>1. /\ t \in Timer /\ t \in live /\ t \in Listed /\ Unlocked /\ DelLive(t)
      /\ held' = [held EXCEPT ![w] = Null]
      /\ UNCHANGED <<main, armed, handed, fault, stolen>>
  BY Basics DEF WorkerClose, DelLive, Ownership
<1>2. /\ Links(head', tail', pre', next', Listed \ {t})
      /\ Reached(head', next', Listed \ {t})
      /\ raced \/ Sorted(expire', next', Listed \ {t})
      /\ head' \in Timer \union {Null} /\ tail' \in Timer \union {Null}
      /\ pre' \in Pointers /\ next' \in Pointers
      /\ expire' = [expire EXCEPT ![t] = 0]
      /\ live' = live \ {t} /\ freed' = freed \union {t}
      /\ \A u \in Timer \ Listed : pre'[u] = pre[u] /\ next'[u] = next[u]
      /\ pre'[t] = Null /\ next'[t] = Null
      /\ t # head => head' = head
  BY <1>1, Basics, DelTimerStep DEF Position
<1>3. /\ raced' = (raced \/ (pc = "call" /\ t = head) \/ (pc = "InsertTime" /\ t = mid))
      /\ raced \in BOOLEAN
  BY Basics DEF WorkerClose, TypeOK
<1>a. raced => raced' BY <1>3
<1>b. pc = "call" /\ t = head => raced' BY <1>3
<1>c. pc = "InsertTime" /\ t = mid => raced' BY <1>3
<1> HIDE DEF t
<1>4. Listed' = Listed \ {t} BY <1>1, <1>2 DEF Listed, Inserting, main
<1>5. TypeOK'
  <2>1. expire' \in [Timer -> 0 .. MaxTime + Lease] /\ \A u \in live' : expire'[u] >= Lease
    BY <1>1, <1>2, TimeAssumption DEF IInv, TypeOK
  <2>2. held' \in [Worker -> Timer \union {Null}] BY <1>1, Basics DEF TypeOK
  <2>3. raced' \in BOOLEAN BY <1>3
  <2> QED BY <1>1, <1>2, <2>1, <2>2, <2>3 DEF IInv, TypeOK, main, Clock, Pointers
<1>6. Ownership'
  <2>1. /\ t \notin handed /\ t \notin stolen /\ t \notin armed
        /\ \A v \in Worker : v # w => held[v] # t
    BY <1>1, Basics DEF Ownership, t
  <2>2. held' \in [Worker -> Timer \union {Null}] /\ held'[w] = Null
        /\ \A v \in Worker : v # w => held'[v] = held[v]
    BY <1>1, Basics DEF TypeOK
  <2> QED BY <1>1, <1>2, <1>4, <2>1, <2>2 DEF IInv, Ownership
<1>7. Position'
  <2>1. \A u \in Timer \ live' : pre'[u] = Null /\ next'[u] = Null
    BY <1>1, <1>2, Basics DEF Position
  <2>2. Inserting => arg \in live /\ arg # t /\ arg \in Timer \ Listed
    BY <1>1, Basics DEF Position, Listed
  <2>3. Inserting' = Inserting BY <1>1 DEF Inserting, main
  <2>4. \A u \in Timer : u # t => expire'[u] = expire[u] BY <1>2, Basics DEF TypeOK
  <2>5. pc = "AddTimer" => pre'[arg] = Null /\ next'[arg] = Null
    BY <1>2, <2>2, Basics DEF Position, Inserting
  <2>6. pc = "call" => raced' \/ (head' # Null /\ expire'[head'] <= expire'[arg])
    <3> SUFFICES ASSUME pc = "call", ~raced' PROVE head' # Null /\ expire'[head'] <= expire'[arg]
      OBVIOUS
    <3>1. ~raced BY <1>a
    <3>2. t # head BY <1>b
    <3>3. /\ head # Null /\ expire[head] <= expire[arg] /\ head' = head
          /\ head \in Timer /\ arg \in Timer /\ arg # t
      BY <3>1, <3>2, <1>2, <2>2, Basics DEF Position, Inserting
    <3> QED BY <3>2, <3>3, <2>4
  <2>7. pc = "InsertTime" =>
          raced' \/ (mid \in Listed' /\ expire'[mid] <= expire'[arg])
    <3> SUFFICES ASSUME pc = "InsertTime", ~raced'
                 PROVE  mid \in Listed' /\ expire'[mid] <= expire'[arg]
      OBVIOUS
    <3>1. ~raced BY <1>a
    <3>2. t # mid BY <1>c
    <3>3. /\ mid \in Listed /\ expire[mid] <= expire[arg]
          /\ mid \in Timer /\ arg \in Timer /\ arg # t
      BY <3>1, <2>2, Basics DEF Position, Inserting
    <3> QED BY <3>2, <3>3, <1>4, <2>4
  <2>8. pc # "walk" BY <1>1 DEF Unlocked
  <2> QED BY <1>1, <1>2, <2>1, <2>2, <2>3, <2>5, <2>6, <2>7, <2>8 DEF IInv, Position, main
<1>8. ListOK'
  <2>1. raced' \/ Sorted(expire', next', Listed \ {t}) BY <1>2, <1>a
  <2> QED BY <1>2, <1>4, <2>1 DEF ListOK
<1>9. FaultExplained' BY <1>1 DEF FaultExplained
<1> QED BY <1>5, <1>6, <1>7, <1>8, <1>9, ListOKMeaning DEF IInv

(* So does Tick when it closes a connection and takes its timer out.       *)
LEMMA TickExpireStep ==
  ASSUME IInv, TickExpire
  PROVE  IInv'
<1> DEFINE t == head  L == Listed
<1>1. /\ pc = "Tick" /\ t \in L /\ t \in Timer /\ L = live /\ tail \in L
      /\ head' = next[t] /\ tail' = tail
      /\ pre' = [u \in Timer |-> IF u = next[t] \/ u = t THEN Null ELSE pre[u]]
      /\ next' = [next EXCEPT ![t] = Null] /\ expire' = [expire EXCEPT ![t] = 0]
      /\ live' = live \ {t} /\ freed' = freed \union {t} /\ armed' = armed \ {t}
      /\ stolen' = IF t \in Busy THEN stolen \union {t} ELSE stolen
      /\ UNCHANGED <<main, handed, held, fault, raced>>
  BY Basics DEF TickExpire, Delete, Listed, Inserting
<1>2. Listed' = L \ {t} BY <1>1 DEF Listed, Inserting, main
<1>3. /\ L \in SUBSET Timer /\ tail \in Timer \union {Null}
      /\ pre \in Pointers /\ next \in Pointers
      /\ Links(t, tail, pre, next, L) /\ Reached(t, next, L)
      /\ raced \/ Sorted(expire, next, L)
  BY Basics DEF ListOK
<1> HIDE DEF t, L
<1>4. /\ pre' \in Pointers /\ next' \in Pointers
      /\ head' \in Timer \union {Null} /\ expire' \in [Timer -> 0 .. MaxTime + Lease]
      /\ \A u \in live' : expire'[u] >= Lease
  BY <1>1, <1>3, TimeAssumption DEF IInv, TypeOK, Pointers
<1>5. TypeOK'
  BY <1>1, <1>4 DEF IInv, TypeOK, main, Clock, Pointers
<1>6. Ownership'
  <2>1. t \in handed => t \in Busy BY DEF Busy
  <2>2. \A w \in Worker : held[w] = t => t \in Busy
    BY <1>1, NullAssumption DEF Busy
  <2>3. live' \intersect freed' = {} /\ stolen' \subseteq freed' /\ armed' \subseteq Listed'
    BY <1>1, <1>2 DEF IInv, Ownership, L
  <2>4. \A u \in handed : u \in Listed' \union stolen' /\ u \notin armed'
    BY <1>1, <1>2, <2>1 DEF IInv, Ownership, L
  <2>5. \A w \in Worker : held[w] # Null =>
          held[w] \in Listed' \union stolen' /\ held[w] \notin armed' \union handed
    BY <1>1, <1>2, <2>2 DEF IInv, Ownership, L
  <2> QED BY <1>1, <2>3, <2>4, <2>5 DEF IInv, Ownership
<1>7. Position'
  <2>1. \A u \in Timer \ live' : pre'[u] = Null /\ next'[u] = Null
    BY <1>1, <1>3 DEF IInv, Position, Pointers
  <2> QED BY <1>1, <2>1 DEF Position, Inserting, main
<1>8. ListOK'
  <2>1. CASE next[t] = Null
    <3>1. t = tail BY <1>1, <1>3, <2>1 DEF Links
    <3>2. L = {t} BY <1>1, <1>3, <3>1, OneNode
    <3> QED BY <1>1, <1>2, <2>1, <3>2 DEF ListOK, Links, Reached, Closed, Sorted
  <2>2. CASE next[t] # Null
    <3>1. next[t] \in L /\ next[t] # t
      BY <1>1, <1>3, <2>2, NullAssumption, NotItsOwn DEF Links
    <3> DEFINE p2 == pre'  n2 == next'
    <3>2. /\ p2 \in Pointers /\ n2 \in Pointers
          /\ \A u \in L \ {t} : n2[u] = next[u]
          /\ \A u \in L \ {t, next[t]} : p2[u] = pre[u]
          /\ p2[next[t]] = Null
      BY <1>1, <1>3, <1>4, <3>1 DEF Pointers
    <3> HIDE DEF p2, n2
    <3>3. Links(next[t], tail, p2, n2, L \ {t}) /\ Reached(next[t], n2, L \ {t})
      BY <1>1, <1>3, <2>2, <3>2, UnlinkHead
    <3>4. raced \/ Sorted(expire', n2, L \ {t})
      <4>1. ASSUME NEW u \in L \ {t}, n2[u] # Null
            PROVE  n2[u] = next[u] /\ next[u] # t
        BY <4>1, <1>1, <1>3, <3>2, NullAssumption DEF Links
      <4> QED BY <4>1, <1>1, <1>3 DEF Sorted, Links, IInv, TypeOK
    <3> QED BY <1>1, <1>2, <3>3, <3>4 DEF ListOK, p2, n2
  <2> QED BY <2>1, <2>2
<1>9. FaultExplained' BY <1>1 DEF IInv, FaultExplained
<1> QED BY <1>5, <1>6, <1>7, <1>8, <1>9, ListOKMeaning DEF IInv

(* Every step keeps the invariant.                                         *)
LEMMA NextStep == IInv /\ [Next]_vars => IInv'
<1> SUFFICES ASSUME IInv, [Next]_vars PROVE IInv' OBVIOUS
<1>1. CASE UNCHANGED vars
  <2>1. Listed' = Listed /\ Inserting' = Inserting
    BY <1>1 DEF vars, heap, main, Listed, Inserting
  <2>2. TypeOK' BY <1>1 DEF vars, IInv, TypeOK, list, heap, main, owner, ghost, Clock
  <2>3. Ownership' BY <1>1, <2>1 DEF vars, IInv, Ownership, heap, owner, ghost
  <2>4. Position' BY <1>1, <2>1 DEF vars, IInv, Position, list, heap, main, ghost
  <2>5. ListOK' BY <1>1, <2>1, SameList, Basics DEF vars, ghost
  <2>6. FaultExplained' BY <1>1 DEF vars, IInv, FaultExplained, ghost
  <2> QED BY <2>2, <2>3, <2>4, <2>5, <2>6, ListOKMeaning DEF IInv
<1>2. CASE ~fault /\ MainStep
  BY <1>2, AddEmptyStep, AddFirstStep, AddLaterStep, ReadHeadStep, InsertBeginStep, WalkStep,
     InsertBeforeStep, InsertLastStep, TickBeginStep, TickExpireStep, TickStopStep,
     AcceptStep, HangUpStep, AdjustNothingStep, AdjustHeadStep, AdjustMiddleStep
  DEF MainStep
<1>3. ASSUME NEW w \in Worker, ~fault, WorkerStep(w) PROVE IInv'
  BY <1>3, TakeStep, RearmStep, WorkerCloseStep, WorkerCloseAgainStep DEF WorkerStep
<1> QED BY <1>1, <1>2, <1>3 DEF Next

(* The inductive invariant holds in every reachable state.                 *)
THEOREM Invariance == Spec => []IInv
BY InitOK, NextStep, PTL DEF Spec

(* The pointers, sets and program counter keep their types, and no timer   *)
(* in use has a deadline earlier than the lease.                           *)
THEOREM TypeCorrect == Spec => []TypeOK
<1>1. IInv => TypeOK BY DEF IInv
<1> QED BY <1>1, Invariance, PTL

(* For any number of timers and workers, the links of the list agree after *)
(* every critical section, whatever calls the threads interleave.          *)
THEOREM LinksAlwaysAgree == Spec => []LinksAgree
<1>1. IInv => LinksAgree BY DEF IInv
<1> QED BY <1>1, Invariance, PTL

(* No allocated timer is ever unreachable from the head of the list.       *)
THEOREM NothingLost == Spec => []NoTimerLost
<1>1. IInv => NoTimerLost BY DEF IInv
<1> QED BY <1>1, Invariance, PTL

(* The list ascends as long as no worker freed a chosen node.              *)
THEOREM AlwaysAscending == Spec => []AscendingUnlessRaced
<1>1. IInv => AscendingUnlessRaced BY DEF IInv
<1> QED BY <1>1, Invariance, PTL

(* The two races the module records are the only ways to freed memory.     *)
THEOREM OnlyTwoRaces == Spec => []FaultExplained
<1>1. IInv => FaultExplained BY DEF IInv
<1> QED BY <1>1, Invariance, PTL

(* In a sorted list no deadline is earlier than the head's.                *)
LEMMA HeadIsEarliest ==
  ASSUME IInv, ~raced, head # Null
  PROVE  \A t \in Listed : expire[head] <= expire[t]
<1> DEFINE S == {t \in Listed : expire[head] <= expire[t]}
<1>1. /\ Links(head, tail, pre, next, Listed) /\ Reached(head, next, Listed)
      /\ Sorted(expire, next, Listed) /\ head \in Listed
      /\ \A t \in Listed : expire[t] \in Nat
  BY Basics, TimeAssumption DEF ListOK, TypeOK
<1>2. ASSUME NEW t \in S, next[t] # Null PROVE next[t] \in S
  BY <1>1, <1>2 DEF Links, Sorted
<1>3. Closed(S, head, next) BY <1>1, <1>2 DEF Closed
<1>4. S = Listed BY <1>1, <1>3 DEF Reached
<1> QED BY <1>4

(* Tick leaves no expired timer behind, as long as the list ascends.       *)
THEOREM TickIsComplete == Spec => TickComplete
<1> DEFINE Complete == pc = "Tick" /\ pc' = "epoll_wait" /\ ~raced
                         => \A t \in Listed' : cur < expire[t]
<1>1. IInv /\ [Next]_vars => [Complete]_vars
  <2> SUFFICES ASSUME IInv, Next, pc = "Tick", pc' = "epoll_wait", ~raced
               PROVE  \A t \in Listed' : cur < expire[t]
    OBVIOUS
  <2>1. TickStop
    BY DEF Next, MainStep, WorkerStep, AddEmpty, AddFirst, AddLater, ReadHead, InsertBegin, Walk,
           InsertBefore, InsertLast, TickBegin, TickExpire, Accept, HangUp, AdjustNothing,
           AdjustHead, AdjustMiddle, Take, Rearm, WorkerClose, WorkerCloseAgain, Fault, main
  <2>2. Listed' = Listed BY <2>1 DEF TickStop, heap, Listed, Inserting
  <2>3. CASE head = Null BY <2>2, <2>3, Basics DEF ListOK, Reached
  <2>4. CASE head # Null
    <3>1. cur < expire[head] BY <2>1, <2>4 DEF TickStop
    <3>2. \A t \in Listed : expire[head] <= expire[t] BY <2>4, HeadIsEarliest
    <3>3. /\ cur \in Nat /\ head \in Listed
          /\ \A t \in Listed : expire[t] \in Nat
      BY <2>4, Basics, TimeAssumption DEF TypeOK, Clock
    <3> QED BY <2>2, <3>1, <3>2, <3>3
  <2> QED BY <2>3, <2>4
<1> QED BY <1>1, Invariance, PTL DEF Spec, TickComplete
=============================================================================
