-------------------------- MODULE Switches_proofs --------------------------
(***************************************************************************)
(* Proofs about Switches, for every set of switches, uplinks and RPCs.     *)
(***************************************************************************)
EXTENDS Switches, TLAPS

\* RPCs that have been given an uplink, and those without a switch.
CallShape ==
  \A o \in SwCall :
    /\ swCall[o].pc = "idle" <=> swCall[o].sw = NoUplink
    /\ swCall[o].pc \in {"build", "insert", "check", "add", "save"} => swCall[o].new \in Uplink

\* One RPC for a switch at a time.
OneCall ==
  \A o, p \in SwCall : swCall[o].sw = swCall[p].sw /\ swCall[o].pc # "idle" => o = p

\* What the row of its switch is while an RPC is under way.
RowAt ==
  \A o \in SwCall :
    /\ swCall[o].pc \in {"build", "insert", "destroy"} => uplink[swCall[o].sw] = Absent
    /\ swCall[o].pc \in {"unset", "clear", "info", "delete"} => uplink[swCall[o].sw] = swCall[o].seen
    /\ swCall[o].pc \in {"check", "add", "save"} => uplink[swCall[o].sw] # Absent

\* What the kernel sees to: an uplink is in one bridge of a kind.
OneBridge ==
  \A s, t \in Switch, u \in Uplink : SameKind(s, t) /\ IsMember(s, u) /\ IsMember(t, u) => s = t

CallFacts == CallShape /\ OneBridge /\ ("overlap" \notin swMishap => OneCall /\ RowAt)
CallInv == SwTypeOK /\ CallFacts

-----------------------------------------------------------------------------
\* An RPC that is about to set an uplink has cleared the old one, unless that failed.
Cleared ==
  "failed" \notin swMishap =>
    \A o \in SwCall : swCall[o].pc \in {"check", "add", "save"} => uplink[swCall[o].sw] = NoUplink

\* The bridge has the uplink of its row, unless the row is about to be cleared; and the
\* one that is about to be written to its row.
NamedIsMember ==
  \A s \in Switch :
    uplink[s] \in Uplink /\ (\A o \in SwCall : ~At(o, "clear", s)) => IsMember(s, uplink[s])
NewIsMember ==
  \A o \in SwCall : swCall[o].pc \in {"insert", "save"} => IsMember(swCall[o].sw, swCall[o].new)

\* Why a bridge has a member: its row says so, or is about to; or RemoveSwitch is about to
\* destroy the bridge.
Explained(s, u) ==
  \/ uplink[s] = u
  \/ \E o \in SwCall :
       /\ swCall[o].sw = s
       /\ swCall[o].pc = "destroy" \/ (swCall[o].pc \in {"insert", "save"} /\ swCall[o].new = u)
MemberIsNamed ==
  \A s \in Switch, u \in Uplink :
    IsMember(s, u) => Explained(s, u) /\ \A o \in SwCall : ~At(o, "clear", s)

HonestInv ==
  "overlap" \notin swMishap =>
    /\ Cleared
    /\ swMishap \subseteq {"left"} => NamedIsMember /\ NewIsMember
    /\ swMishap \subseteq {"raced"} => MemberIsNamed

-----------------------------------------------------------------------------
LEMMA CallInit == SwInit => CallInv
  BY SwNames DEF SwInit, SwIdle, SwCallIdle, CallInv, CallFacts, SwTypeOK, CallShape, OneBridge,
     OneCall, RowAt, IsMember, Absent

LEMMA SwTypeStep == SwTypeOK /\ CallShape /\ [SwNext]_swVars => SwTypeOK'
<1>. SUFFICES ASSUME SwTypeOK, CallShape, [SwNext]_swVars PROVE SwTypeOK'
  OBVIOUS
<1>. USE SwNames DEF SwTypeOK, CallShape
<1>1. ASSUME NEW o \in SwCall, NEW s \in Switch, NEW u \in Uplink, AddSwitch(o, s, u)
      PROVE  SwTypeOK'
  BY <1>1 DEF AddSwitch, Begin, Present
<1>2. ASSUME NEW o \in SwCall, NEW s \in Switch, NEW u \in Uplink, SetSwitchUplink(o, s, u)
      PROVE  SwTypeOK'
  BY <1>2 DEF SetSwitchUplink, Begin, Present
<1>3. ASSUME NEW o \in SwCall, NEW s \in Switch, BuildNew(o, s) PROVE SwTypeOK'
  <2>1. swCall[o].new \in Uplink
    BY <1>3 DEF BuildNew, At
  <2>2. members \cup {<<s, swCall[o].new>>} \subseteq (bridges \cup {s}) \X Uplink
    BY <2>1
  <2>3. members' \subseteq bridges' \X Uplink
    BY <1>3, <2>2 DEF BuildNew, HalfConnected
  <2>4. bridges' \subseteq Switch /\ uplink' = uplink
    BY <1>3 DEF BuildNew
  <2>5. swMishap' \in {swMishap, swMishap \cup {"raced"}, swMishap \cup {"failed"}}
    BY <1>3 DEF BuildNew, Happened
  <2>6. \/ swCall' = [swCall EXCEPT ![o].pc = "insert"]
        \/ swCall' = [swCall EXCEPT ![o] = SwCallIdle]
    BY <1>3 DEF BuildNew, Goto, Return
  <2>7. QED
    BY <2>3, <2>4, <2>5, <2>6 DEF SwCallIdle
<1>4. ASSUME NEW o \in SwCall, NEW s \in Switch, Insert(o, s) PROVE SwTypeOK'
  BY <1>4 DEF Insert, At, Return, SwCallIdle, Present, Happened
<1>5. ASSUME NEW o \in SwCall, NEW s \in Switch, ClearUplink(o, s) PROVE SwTypeOK'
  BY <1>5 DEF ClearUplink, Begin, Present
<1>6. ASSUME NEW o \in SwCall, NEW s \in Switch, Unset(o, s) PROVE SwTypeOK'
  BY <1>6 DEF Unset, At, Found, IsMember, Goto
<1>7. ASSUME NEW o \in SwCall, NEW s \in Switch, UnsetFails(o, s) PROVE SwTypeOK'
  BY <1>7 DEF UnsetFails, At, Goto, Return, SwCallIdle, Happened
<1>8. ASSUME NEW o \in SwCall, NEW s \in Switch, SaveCleared(o, s) PROVE SwTypeOK'
  BY <1>8 DEF SaveCleared, At, SaveUplink, Goto, Return, SwCallIdle, Present, Happened
<1>9. ASSUME NEW o \in SwCall, NEW s \in Switch, CheckMember(o, s) PROVE SwTypeOK'
  BY <1>9 DEF CheckMember, At, Goto, Return, SwCallIdle
<1>10. ASSUME NEW o \in SwCall, NEW s \in Switch, AddMember(o, s) PROVE SwTypeOK'
  <2>1. swCall[o].new \in Uplink
    BY <1>10 DEF AddMember, At
  <2>2. members \cup {<<s, swCall[o].new>>} \subseteq (bridges \cup {s}) \X Uplink
    BY <2>1
  <2>3. members' \subseteq bridges' \X Uplink
    BY <1>10, <2>2 DEF AddMember, HalfConnected
  <2>4. swCall' = [swCall EXCEPT ![o].pc = "save"] \/ swCall' = [swCall EXCEPT ![o] = SwCallIdle]
    BY <1>10 DEF AddMember, Goto, Return
  <2>5. uplink' = uplink /\ bridges' = bridges /\ swMishap' \in {swMishap, swMishap \cup {"left"}}
    BY <1>10 DEF AddMember, Happened
  <2>6. QED
    BY <2>3, <2>4, <2>5 DEF SwCallIdle
<1>11. ASSUME NEW o \in SwCall, NEW s \in Switch, SaveNew(o, s) PROVE SwTypeOK'
  BY <1>11 DEF SaveNew, At, SaveUplink, Return, SwCallIdle, Present, Happened
<1>12. ASSUME NEW o \in SwCall, NEW s \in Switch, SetSwitchInfo(o, s) PROVE SwTypeOK'
  BY <1>12 DEF SetSwitchInfo, Begin, Present
<1>13. ASSUME NEW o \in SwCall, NEW s \in Switch, SaveInfo(o, s) PROVE SwTypeOK'
  BY <1>13 DEF SaveInfo, At, SaveUplink, Return, SwCallIdle, Present
<1>14. ASSUME NEW o \in SwCall, NEW s \in Switch, RemoveSwitch(o, s) PROVE SwTypeOK'
  BY <1>14 DEF RemoveSwitch, Begin, Present
<1>15. ASSUME NEW o \in SwCall, NEW s \in Switch, DeleteRow(o, s) PROVE SwTypeOK'
  BY <1>15 DEF DeleteRow, At, Goto, Return, SwCallIdle, Present
<1>16. ASSUME NEW o \in SwCall, NEW s \in Switch, DestroySwitch(o, s) PROVE SwTypeOK'
  BY <1>16 DEF DestroySwitch, At, Return, SwCallIdle, Happened
<1>17. CASE Restart
  <2>1. PICK got \in SUBSET {m \in Switch \X Uplink : uplink[m[1]] = m[2]} :
          /\ bridges' = Present \cup {s \in bridges \cap NG : s \notin Present}
          /\ members' = got \cup {m \in members : m[1] \in {s \in bridges \cap NG : s \notin Present}}
          /\ swCall' = [o \in SwCall |-> SwCallIdle]
          /\ swMishap' \in {swMishap, swMishap \cup {"cut"}}
          /\ UNCHANGED uplink
    BY <1>17 DEF Restart
  <2>2. members' \subseteq bridges' \X Uplink
    BY <2>1 DEF Present
  <2>3. QED
    BY <2>1, <2>2 DEF Present, SwCallIdle
<1>18. CASE UNCHANGED swVars
  BY <1>18 DEF swVars
<1>19. QED
  BY <1>1, <1>2, <1>3, <1>4, <1>5, <1>6, <1>7, <1>8, <1>9, <1>10, <1>11, <1>12, <1>13, <1>14,
     <1>15, <1>16, <1>17, <1>18 DEF SwNext, SwStep

\* What a restart makes of the members.
LEMMA RestartMembers ==
  ASSUME SwTypeOK, Restart, NEW s \in Switch, NEW u \in Uplink
  PROVE  IsMember(s, u)' <=>
           \/ /\ uplink[s] = u
              /\ ~\E t \in Switch : t # s /\ SameKind(t, s) /\ IsMember(t, u)'
           \/ IsMember(s, u) /\ s \in NG /\ s \notin Present
<1>. DEFINE left == {t \in bridges \cap NG : t \notin Present}
            kept == {m \in members : m[1] \in left}
<1>1. PICK got \in SUBSET {m \in Switch \X Uplink : uplink[m[1]] = m[2]} :
        /\ \A t \in Present : \A w \in Uplink : uplink[t] = w =>
             (<<t, w>> \in got <=>
                ~\E m \in kept \cup got : m[1] # t /\ SameKind(m[1], t) /\ m[2] = w)
        /\ members' = got \cup kept
  BY DEF Restart
<1>2. <<s, u>> \in kept <=> IsMember(s, u) /\ s \in NG /\ s \notin Present
  BY DEF SwTypeOK, IsMember
<1>3. <<s, u>> \in got => uplink[s] = u
  BY <1>1
<1>4. ASSUME uplink[s] = u
      PROVE  <<s, u>> \in got <=> ~\E t \in Switch : t # s /\ SameKind(t, s) /\ IsMember(t, u)'
  <2>1. s \in Present
    BY <1>4, SwNames DEF Present
  <2>2. \A m \in kept \cup got : m = <<m[1], m[2]>> /\ m[1] \in Switch
    BY DEF SwTypeOK
  <2>3. (\E m \in kept \cup got : m[1] # s /\ SameKind(m[1], s) /\ m[2] = u)
          <=> \E t \in Switch : t # s /\ SameKind(t, s) /\ <<t, u>> \in kept \cup got
    BY <2>2
  <2>4. QED
    BY <1>1, <1>4, <2>1, <2>3 DEF IsMember
<1>5. IsMember(s, u)' <=> <<s, u>> \in got \/ <<s, u>> \in kept
  BY <1>1 DEF IsMember
<1>6. QED
  BY <1>2, <1>3, <1>4, <1>5

LEMMA SwCallStep == CallInv /\ [SwNext]_swVars => CallInv'
<1>. SUFFICES ASSUME CallInv, [SwNext]_swVars PROVE CallFacts'
  BY SwTypeStep DEF CallInv, CallFacts
<1>. USE SwNames DEF CallInv, CallFacts, SwTypeOK, CallShape, OneBridge, OneCall, RowAt, IsMember
<1>1. ASSUME NEW o \in SwCall, NEW s \in Switch, NEW u \in Uplink, AddSwitch(o, s, u)
      PROVE  CallFacts'
  BY <1>1 DEF AddSwitch, Begin, Present
<1>2. ASSUME NEW o \in SwCall, NEW s \in Switch, NEW u \in Uplink, SetSwitchUplink(o, s, u)
      PROVE  CallFacts'
  BY <1>2 DEF SetSwitchUplink, Begin, Present
<1>3. ASSUME NEW o \in SwCall, NEW s \in Switch, BuildNew(o, s) PROVE CallFacts'
  <2>1. swCall[o].new \in Uplink /\ swCall[o].sw = s
    BY <1>3 DEF BuildNew, At
  <2>2. OneBridge'
    <3>1. CASE members' = members
      BY <3>1
    <3>2. CASE members' = members \cup {<<s, swCall[o].new>>} /\ ~Taken(s, swCall[o].new)
      BY <2>1, <3>2 DEF Taken, SameKind
    <3>3. QED
      BY <1>3, <3>1, <3>2 DEF BuildNew, HalfConnected
  <2>3. swCall' = [swCall EXCEPT ![o].pc = "insert"] \/ swCall' = [swCall EXCEPT ![o] = SwCallIdle]
    BY <1>3 DEF BuildNew, Goto, Return
  <2>4. /\ uplink' = uplink /\ swCall[o].pc = "build"
        /\ "overlap" \notin swMishap' => "overlap" \notin swMishap
    BY <1>3 DEF BuildNew, At, Happened
  <2>5. QED
    BY <2>1, <2>2, <2>3, <2>4, SMTT(30) DEF SwCallIdle
<1>4. ASSUME NEW o \in SwCall, NEW s \in Switch, Insert(o, s) PROVE CallFacts'
  BY <1>4 DEF Insert, At, Return, SwCallIdle, Present, Happened
<1>5. ASSUME NEW o \in SwCall, NEW s \in Switch, ClearUplink(o, s) PROVE CallFacts'
  BY <1>5 DEF ClearUplink, Begin, Present
<1>6. ASSUME NEW o \in SwCall, NEW s \in Switch, Unset(o, s) PROVE CallFacts'
  BY <1>6 DEF Unset, At, Found, IsMember, Goto
<1>7. ASSUME NEW o \in SwCall, NEW s \in Switch, UnsetFails(o, s) PROVE CallFacts'
  BY <1>7 DEF UnsetFails, At, Goto, Return, SwCallIdle, Happened
<1>8. ASSUME NEW o \in SwCall, NEW s \in Switch, SaveCleared(o, s) PROVE CallFacts'
  BY <1>8, SMTT(30) DEF SaveCleared, At, SaveUplink, Goto, Return, SwCallIdle, Present, Happened
<1>9. ASSUME NEW o \in SwCall, NEW s \in Switch, CheckMember(o, s) PROVE CallFacts'
  BY <1>9, SMTT(30) DEF CheckMember, At, Goto, Return, SwCallIdle
<1>10. ASSUME NEW o \in SwCall, NEW s \in Switch, AddMember(o, s) PROVE CallFacts'
  <2>1. swCall[o].new \in Uplink /\ swCall[o].sw = s
    BY <1>10 DEF AddMember, At
  <2>2. OneBridge'
    <3>1. CASE members' = members
      BY <3>1
    <3>2. CASE members' = members \cup {<<s, swCall[o].new>>} /\ ~Taken(s, swCall[o].new)
      BY <2>1, <3>2 DEF Taken, SameKind
    <3>3. QED
      BY <1>10, <3>1, <3>2 DEF AddMember, HalfConnected
  <2>3. swCall' = [swCall EXCEPT ![o].pc = "save"] \/ swCall' = [swCall EXCEPT ![o] = SwCallIdle]
    BY <1>10 DEF AddMember, Goto, Return
  <2>4. /\ uplink' = uplink /\ swCall[o].pc = "add"
        /\ "overlap" \notin swMishap' => "overlap" \notin swMishap
    BY <1>10 DEF AddMember, At, Happened
  <2>5. QED
    BY <2>1, <2>2, <2>3, <2>4, SMTT(30) DEF SwCallIdle
<1>11. ASSUME NEW o \in SwCall, NEW s \in Switch, SaveNew(o, s) PROVE CallFacts'
  BY <1>11 DEF SaveNew, At, SaveUplink, Return, SwCallIdle, Present, Happened
<1>12. ASSUME NEW o \in SwCall, NEW s \in Switch, SetSwitchInfo(o, s) PROVE CallFacts'
  BY <1>12 DEF SetSwitchInfo, Begin, Present
<1>13. ASSUME NEW o \in SwCall, NEW s \in Switch, SaveInfo(o, s) PROVE CallFacts'
  BY <1>13 DEF SaveInfo, At, SaveUplink, Return, SwCallIdle, Present
<1>14. ASSUME NEW o \in SwCall, NEW s \in Switch, RemoveSwitch(o, s) PROVE CallFacts'
  BY <1>14 DEF RemoveSwitch, Begin, Present
<1>15. ASSUME NEW o \in SwCall, NEW s \in Switch, DeleteRow(o, s) PROVE CallFacts'
  <2>1. CASE "overlap" \in swMishap
    BY <1>15, <2>1 DEF DeleteRow, At, Goto, Return, SwCallIdle
  <2>2. CASE "overlap" \notin swMishap
    <3>1. swCall[o].pc = "delete" /\ swCall[o].sw = s /\ s \in Present
      BY <1>15, <2>2 DEF DeleteRow, At, Present
    <3>2. \/ /\ swCall' = [swCall EXCEPT ![o].pc = "destroy"]
             /\ uplink' = [uplink EXCEPT ![s] = Absent]
          \/ swCall' = [swCall EXCEPT ![o] = SwCallIdle] /\ uplink' = uplink
      BY <1>15, <3>1 DEF DeleteRow, Goto, Return
    <3>3. QED
      BY <1>15, <2>2, <3>1, <3>2, SMTT(30) DEF DeleteRow, SwCallIdle
  <2>3. QED
    BY <2>1, <2>2
<1>16. ASSUME NEW o \in SwCall, NEW s \in Switch, DestroySwitch(o, s) PROVE CallFacts'
  BY <1>16 DEF DestroySwitch, At, Return, SwCallIdle, Happened
<1>17. CASE Restart
  <2>1. OneBridge'
    <3>. SUFFICES ASSUME NEW s \in Switch, NEW t \in Switch, NEW u \in Uplink, SameKind(s, t),
                         IsMember(s, u)', IsMember(t, u)', s # t
                  PROVE  FALSE
      BY DEF OneBridge
    <3>1. SameKind(t, s)
      BY DEF SameKind
    <3>2. IsMember(s, u) /\ IsMember(t, u)
      BY <1>17, <3>1, RestartMembers
    <3>3. QED
      BY <3>2
  <2>2. QED
    BY <1>17, <2>1 DEF Restart, SwCallIdle
<1>18. CASE UNCHANGED swVars
  BY <1>18 DEF swVars
<1>19. QED
  BY <1>1, <1>2, <1>3, <1>4, <1>5, <1>6, <1>7, <1>8, <1>9, <1>10, <1>11, <1>12, <1>13, <1>14,
     <1>15, <1>16, <1>17, <1>18 DEF SwNext, SwStep
-----------------------------------------------------------------------------
LEMMA HonestInit == SwInit => HonestInv
  BY SwNames DEF SwInit, SwIdle, SwCallIdle, HonestInv, Cleared, NamedIsMember, NewIsMember,
     MemberIsNamed, IsMember, Absent

\* What BuildNew and AddMember do, as the proofs below need it.
LEMMA BuildNewDoes ==
  ASSUME CallInv, NEW o \in SwCall, NEW s \in Switch, BuildNew(o, s)
  PROVE  /\ swCall[o].pc = "build" /\ swCall[o].sw = s /\ swCall[o].new \in Uplink
         /\ uplink' = uplink /\ swMishap \subseteq swMishap'
         /\ swCall' = [swCall EXCEPT ![o].pc = "insert"] \/ "failed" \in swMishap'
         /\ \/ swCall' = [swCall EXCEPT ![o].pc = "insert"]
            \/ swCall' = [swCall EXCEPT ![o] = SwCallIdle]
         /\ \/ members' = members /\ "failed" \in swMishap'
            \/ members' = members \cup {<<s, swCall[o].new>>} /\ "failed" \in swMishap'
            \/ /\ \A u \in Uplink : ~IsMember(s, u)
               /\ \/ members' = members /\ "raced" \in swMishap'
                  \/ members' = members \cup {<<s, swCall[o].new>>}
<1>1. s \notin bridges => \A u \in Uplink : ~IsMember(s, u)
  BY DEF CallInv, SwTypeOK, IsMember
<1>2. swCall[o].pc = "build" /\ swCall[o].sw = s
  BY DEF BuildNew, At
<1>3. QED
  BY <1>1, <1>2 DEF BuildNew, HalfConnected, Goto, Return, Happened, CallInv, CallFacts, CallShape

LEMMA AddMemberDoes ==
  ASSUME CallInv, NEW o \in SwCall, NEW s \in Switch, AddMember(o, s)
  PROVE  /\ swCall[o].pc = "add" /\ swCall[o].sw = s /\ swCall[o].new \in Uplink
         /\ uplink' = uplink /\ swMishap \subseteq swMishap'
         /\ \/ /\ swCall' = [swCall EXCEPT ![o].pc = "save"]
               /\ members' = members \cup {<<s, swCall[o].new>>}
            \/ /\ swCall' = [swCall EXCEPT ![o] = SwCallIdle]
               /\ \/ members' = members
                  \/ members' = members \cup {<<s, swCall[o].new>>} /\ "left" \in swMishap'
<1>1. swCall[o].pc = "add" /\ swCall[o].sw = s
  BY DEF AddMember, At
<1>2. QED
  BY <1>1 DEF AddMember, HalfConnected, Goto, Return, Happened, CallInv, CallFacts, CallShape

LEMMA ClearedStep ==
  ASSUME CallInv, HonestInv, [SwNext]_swVars
  PROVE  "overlap" \notin swMishap' => Cleared'
<1>. DEFINE Goal == "overlap" \notin swMishap' => Cleared'
<1>. USE SwNames DEF CallInv, CallFacts, SwTypeOK, CallShape, OneCall, RowAt, HonestInv, Cleared
<1>1. ASSUME NEW o \in SwCall, NEW s \in Switch, NEW u \in Uplink, AddSwitch(o, s, u) PROVE Goal
  BY <1>1 DEF AddSwitch, Begin, Present
<1>2. ASSUME NEW o \in SwCall, NEW s \in Switch, NEW u \in Uplink, SetSwitchUplink(o, s, u)
      PROVE  Goal
  BY <1>2 DEF SetSwitchUplink, Begin, Present
<1>3. ASSUME NEW o \in SwCall, NEW s \in Switch, BuildNew(o, s) PROVE Goal
  BY <1>3, BuildNewDoes DEF SwCallIdle
<1>4. ASSUME NEW o \in SwCall, NEW s \in Switch, Insert(o, s) PROVE Goal
  BY <1>4 DEF Insert, At, Return, SwCallIdle, Present, Happened
<1>5. ASSUME NEW o \in SwCall, NEW s \in Switch, ClearUplink(o, s) PROVE Goal
  BY <1>5 DEF ClearUplink, Begin, Present
<1>6. ASSUME NEW o \in SwCall, NEW s \in Switch, Unset(o, s) PROVE Goal
  BY <1>6 DEF Unset, At, Found, IsMember, Goto
<1>7. ASSUME NEW o \in SwCall, NEW s \in Switch, UnsetFails(o, s) PROVE Goal
  BY <1>7 DEF UnsetFails, At, Goto, Return, SwCallIdle, Happened
<1>8. ASSUME NEW o \in SwCall, NEW s \in Switch, SaveCleared(o, s) PROVE Goal
  BY <1>8 DEF SaveCleared, At, SaveUplink, Goto, Return, SwCallIdle, Present, Happened
<1>9. ASSUME NEW o \in SwCall, NEW s \in Switch, CheckMember(o, s) PROVE Goal
  BY <1>9 DEF CheckMember, At, Goto, Return, SwCallIdle
<1>10. ASSUME NEW o \in SwCall, NEW s \in Switch, AddMember(o, s) PROVE Goal
  BY <1>10, AddMemberDoes DEF SwCallIdle
<1>11. ASSUME NEW o \in SwCall, NEW s \in Switch, SaveNew(o, s) PROVE Goal
  BY <1>11 DEF SaveNew, At, SaveUplink, Return, SwCallIdle, Present, Happened
<1>12. ASSUME NEW o \in SwCall, NEW s \in Switch, SetSwitchInfo(o, s) PROVE Goal
  BY <1>12 DEF SetSwitchInfo, Begin, Present
<1>13. ASSUME NEW o \in SwCall, NEW s \in Switch, SaveInfo(o, s) PROVE Goal
  BY <1>13 DEF SaveInfo, At, SaveUplink, Return, SwCallIdle, Present
<1>14. ASSUME NEW o \in SwCall, NEW s \in Switch, RemoveSwitch(o, s) PROVE Goal
  BY <1>14 DEF RemoveSwitch, Begin, Present
<1>15. ASSUME NEW o \in SwCall, NEW s \in Switch, DeleteRow(o, s) PROVE Goal
  BY <1>15 DEF DeleteRow, At, Goto, Return, SwCallIdle, Present
<1>16. ASSUME NEW o \in SwCall, NEW s \in Switch, DestroySwitch(o, s) PROVE Goal
  BY <1>16 DEF DestroySwitch, At, Return, SwCallIdle, Happened
<1>17. CASE Restart
  BY <1>17 DEF Restart, SwCallIdle
<1>18. CASE UNCHANGED swVars
  BY <1>18 DEF swVars
<1>19. QED
  BY <1>1, <1>2, <1>3, <1>4, <1>5, <1>6, <1>7, <1>8, <1>9, <1>10, <1>11, <1>12, <1>13, <1>14,
     <1>15, <1>16, <1>17, <1>18 DEF SwNext, SwStep

LEMMA UplinkNamedStep ==
  ASSUME CallInv, HonestInv, [SwNext]_swVars
  PROVE  "overlap" \notin swMishap' /\ swMishap' \subseteq {"left"} => NamedIsMember' /\ NewIsMember'
<1>. DEFINE Goal == "overlap" \notin swMishap' /\ swMishap' \subseteq {"left"} =>
                      NamedIsMember' /\ NewIsMember'
<1>. USE SwNames DEF CallInv, CallFacts, SwTypeOK, CallShape, OneBridge, OneCall, RowAt, HonestInv,
                     Cleared, NamedIsMember, NewIsMember, IsMember, At
<1>1. ASSUME NEW o \in SwCall, NEW s \in Switch, NEW u \in Uplink, AddSwitch(o, s, u) PROVE Goal
  BY <1>1 DEF AddSwitch, Begin, Present
<1>2. ASSUME NEW o \in SwCall, NEW s \in Switch, NEW u \in Uplink, SetSwitchUplink(o, s, u)
      PROVE  Goal
  BY <1>2 DEF SetSwitchUplink, Begin, Present
<1>3. ASSUME NEW o \in SwCall, NEW s \in Switch, BuildNew(o, s) PROVE Goal
  <2>. SUFFICES ASSUME swMishap' \subseteq {"left"}, "overlap" \notin swMishap' PROVE Goal
    OBVIOUS
  <2>1. /\ swCall[o].pc = "build" /\ swCall[o].sw = s /\ uplink' = uplink
        /\ members \subseteq members'
        /\ \/ /\ swCall' = [swCall EXCEPT ![o].pc = "insert"]
              /\ members' = members \cup {<<s, swCall[o].new>>}
           \/ swCall' = [swCall EXCEPT ![o] = SwCallIdle]
        /\ swMishap \subseteq {"left"} /\ "overlap" \notin swMishap
    BY <1>3, BuildNewDoes
  <2>2. \A t \in Switch : (\E p \in SwCall : At(p, "clear", t)) => \E p \in SwCall : At(p, "clear", t)'
    BY <2>1
  <2>3. NamedIsMember'
    BY <2>1, <2>2
  <2>4. NewIsMember'
    BY <2>1 DEF SwCallIdle
  <2>5. QED
    BY <2>3, <2>4
<1>4. ASSUME NEW o \in SwCall, NEW s \in Switch, Insert(o, s) PROVE Goal
  BY <1>4 DEF Insert, At, Return, SwCallIdle, Present, Happened
<1>5. ASSUME NEW o \in SwCall, NEW s \in Switch, ClearUplink(o, s) PROVE Goal
  BY <1>5 DEF ClearUplink, Begin, Present
<1>6. ASSUME NEW o \in SwCall, NEW s \in Switch, Unset(o, s) PROVE Goal
  BY <1>6 DEF Unset, At, Found, IsMember, Goto
<1>7. ASSUME NEW o \in SwCall, NEW s \in Switch, UnsetFails(o, s) PROVE Goal
  BY <1>7 DEF UnsetFails, At, Goto, Return, SwCallIdle, Happened
<1>8. ASSUME NEW o \in SwCall, NEW s \in Switch, SaveCleared(o, s) PROVE Goal
  BY <1>8, SMTT(30) DEF SaveCleared, At, SaveUplink, Goto, Return, SwCallIdle, Present, Happened
<1>9. ASSUME NEW o \in SwCall, NEW s \in Switch, CheckMember(o, s) PROVE Goal
  <2>. SUFFICES ASSUME swMishap' \subseteq {"left"}, "overlap" \notin swMishap' PROVE Goal
    OBVIOUS
  <2>1. /\ swCall[o].pc = "check" /\ swCall[o].sw = s /\ UNCHANGED <<uplink, members, swMishap>>
        /\ \/ swCall' = [swCall EXCEPT ![o].pc = "add"]
           \/ swCall' = [swCall EXCEPT ![o] = SwCallIdle]
    BY <1>9 DEF CheckMember, Goto, Return
  <2>2. \A t \in Switch : (\E p \in SwCall : At(p, "clear", t)) => \E p \in SwCall : At(p, "clear", t)'
    BY <2>1
  <2>3. NamedIsMember'
    BY <2>1, <2>2
  <2>4. NewIsMember'
    BY <2>1 DEF SwCallIdle
  <2>5. QED
    BY <2>3, <2>4
<1>10. ASSUME NEW o \in SwCall, NEW s \in Switch, AddMember(o, s) PROVE Goal
  <2>. SUFFICES ASSUME swMishap' \subseteq {"left"}, "overlap" \notin swMishap' PROVE Goal
    OBVIOUS
  <2>1. /\ swCall[o].pc = "add" /\ swCall[o].sw = s /\ uplink' = uplink
        /\ members \subseteq members'
        /\ \/ /\ swCall' = [swCall EXCEPT ![o].pc = "save"]
              /\ members' = members \cup {<<s, swCall[o].new>>}
           \/ swCall' = [swCall EXCEPT ![o] = SwCallIdle]
        /\ swMishap \subseteq {"left"} /\ "overlap" \notin swMishap
    BY <1>10, AddMemberDoes
  <2>2. \A t \in Switch : (\E p \in SwCall : At(p, "clear", t)) => \E p \in SwCall : At(p, "clear", t)'
    BY <2>1
  <2>3. NamedIsMember'
    BY <2>1, <2>2
  <2>4. NewIsMember'
    BY <2>1 DEF SwCallIdle
  <2>5. QED
    BY <2>3, <2>4
<1>11. ASSUME NEW o \in SwCall, NEW s \in Switch, SaveNew(o, s) PROVE Goal
  BY <1>11 DEF SaveNew, At, SaveUplink, Return, SwCallIdle, Present, Happened
<1>12. ASSUME NEW o \in SwCall, NEW s \in Switch, SetSwitchInfo(o, s) PROVE Goal
  BY <1>12 DEF SetSwitchInfo, Begin, Present
<1>13. ASSUME NEW o \in SwCall, NEW s \in Switch, SaveInfo(o, s) PROVE Goal
  BY <1>13 DEF SaveInfo, At, SaveUplink, Return, SwCallIdle, Present
<1>14. ASSUME NEW o \in SwCall, NEW s \in Switch, RemoveSwitch(o, s) PROVE Goal
  BY <1>14 DEF RemoveSwitch, Begin, Present
<1>15. ASSUME NEW o \in SwCall, NEW s \in Switch, DeleteRow(o, s) PROVE Goal
  <2>1. CASE "overlap" \in swMishap
    BY <1>15, <2>1 DEF DeleteRow
  <2>2. CASE "overlap" \notin swMishap
    <3>1. swCall[o].pc = "delete" /\ swCall[o].sw = s /\ s \in Present
      BY <1>15, <2>2 DEF DeleteRow, Present
    <3>2. \/ /\ swCall' = [swCall EXCEPT ![o].pc = "destroy"]
             /\ uplink' = [uplink EXCEPT ![s] = Absent]
          \/ swCall' = [swCall EXCEPT ![o] = SwCallIdle] /\ uplink' = uplink
      BY <1>15, <3>1 DEF DeleteRow, Goto, Return
    <3>3. CASE swCall' = [swCall EXCEPT ![o] = SwCallIdle] /\ uplink' = uplink
      BY <1>15, <2>2, <3>1, <3>3 DEF DeleteRow, SwCallIdle
    <3>4. CASE swCall' = [swCall EXCEPT ![o].pc = "destroy"] /\ uplink' = [uplink EXCEPT ![s] = Absent]
      BY <1>15, <2>2, <3>1, <3>4 DEF DeleteRow
    <3>5. QED
      BY <3>2, <3>3, <3>4
  <2>3. QED
    BY <2>1, <2>2
<1>16. ASSUME NEW o \in SwCall, NEW s \in Switch, DestroySwitch(o, s) PROVE Goal
  <2>1. \A t \in Switch, u \in Uplink : IsMember(t, u)' => IsMember(t, u)
    BY <1>16 DEF DestroySwitch
  <2>2. \A t \in Switch, u \in Uplink : IsMember(t, u) /\ t # s => IsMember(t, u)'
    BY <1>16 DEF DestroySwitch
  <2>3. swCall[o].pc = "destroy" /\ swCall[o].sw = s /\ swCall' = [swCall EXCEPT ![o] = SwCallIdle]
    BY <1>16 DEF DestroySwitch, Return
  <2>4. uplink' = uplink /\ swMishap \subseteq swMishap'
    BY <1>16 DEF DestroySwitch, Happened
  <2>5. QED
    BY <2>1, <2>2, <2>3, <2>4 DEF SwCallIdle
<1>17. CASE Restart
  <2>. SUFFICES ASSUME swMishap' \subseteq {"left"}, "overlap" \notin swMishap'
                PROVE  NamedIsMember' /\ NewIsMember'
    OBVIOUS
  <2>1. swMishap' = swMishap /\ (\A o \in SwCall : swCall[o].pc = "idle") /\ uplink' = uplink
    BY <1>17 DEF Restart
  <2>2. NewIsMember'
    BY <1>17 DEF Restart, SwCallIdle
  <2>3. ASSUME NEW s \in Switch, uplink[s] \in Uplink PROVE IsMember(s, uplink[s])'
    <3>1. IsMember(s, uplink[s])
      BY <2>1, <2>3
    <3>2. ASSUME NEW t \in Switch, t # s, SameKind(t, s) PROVE ~IsMember(t, uplink[s])'
      <4>1. ~IsMember(t, uplink[s])
        BY <2>3, <3>1, <3>2
      <4>2. uplink[t] # uplink[s]
        BY <2>1, <2>3, <4>1
      <4>3. QED
        BY <1>17, <2>1, <2>3, <4>1, <4>2, RestartMembers
    <3>3. QED
      BY <1>17, <2>1, <2>3, <3>2, RestartMembers
  <2>4. QED
    BY <2>1, <2>2, <2>3
<1>18. CASE UNCHANGED swVars
  BY <1>18 DEF swVars
<1>19. QED
  BY <1>1, <1>2, <1>3, <1>4, <1>5, <1>6, <1>7, <1>8, <1>9, <1>10, <1>11, <1>12, <1>13, <1>14,
     <1>15, <1>16, <1>17, <1>18 DEF SwNext, SwStep

LEMMA MemberStep ==
  ASSUME CallInv, HonestInv, [SwNext]_swVars
  PROVE  "overlap" \notin swMishap' /\ swMishap' \subseteq {"raced"} => MemberIsNamed'
<1>. DEFINE Goal == "overlap" \notin swMishap' /\ swMishap' \subseteq {"raced"} => MemberIsNamed'
<1>. USE SwNames DEF CallInv, CallFacts, SwTypeOK, CallShape, OneCall, RowAt, HonestInv, Cleared,
                     MemberIsNamed, Explained, IsMember, At
<1>1. ASSUME NEW o \in SwCall, NEW s \in Switch, NEW u \in Uplink, AddSwitch(o, s, u) PROVE Goal
  BY <1>1 DEF AddSwitch, Begin, Present
<1>2. ASSUME NEW o \in SwCall, NEW s \in Switch, NEW u \in Uplink, SetSwitchUplink(o, s, u)
      PROVE  Goal
  BY <1>2, SMTT(30) DEF SetSwitchUplink, Begin, Present
<1>3. ASSUME NEW o \in SwCall, NEW s \in Switch, BuildNew(o, s) PROVE Goal
  BY <1>3, BuildNewDoes, SMTT(30) DEF SwCallIdle
<1>4. ASSUME NEW o \in SwCall, NEW s \in Switch, Insert(o, s) PROVE Goal
  BY <1>4 DEF Insert, At, Return, SwCallIdle, Present, Happened
<1>5. ASSUME NEW o \in SwCall, NEW s \in Switch, ClearUplink(o, s) PROVE Goal
  BY <1>5 DEF ClearUplink, Begin, Present
<1>6. ASSUME NEW o \in SwCall, NEW s \in Switch, Unset(o, s) PROVE Goal
  BY <1>6, SMTT(30) DEF Unset, At, Found, IsMember, Goto
<1>7. ASSUME NEW o \in SwCall, NEW s \in Switch, UnsetFails(o, s) PROVE Goal
  BY <1>7 DEF UnsetFails, At, Goto, Return, SwCallIdle, Happened
<1>8. ASSUME NEW o \in SwCall, NEW s \in Switch, SaveCleared(o, s) PROVE Goal
  BY <1>8 DEF SaveCleared, At, SaveUplink, Goto, Return, SwCallIdle, Present, Happened
<1>9. ASSUME NEW o \in SwCall, NEW s \in Switch, CheckMember(o, s) PROVE Goal
  BY <1>9 DEF CheckMember, At, Goto, Return, SwCallIdle
<1>10. ASSUME NEW o \in SwCall, NEW s \in Switch, AddMember(o, s) PROVE Goal
  BY <1>10, AddMemberDoes, SMTT(30) DEF SwCallIdle
<1>11. ASSUME NEW o \in SwCall, NEW s \in Switch, SaveNew(o, s) PROVE Goal
  BY <1>11 DEF SaveNew, At, SaveUplink, Return, SwCallIdle, Present, Happened
<1>12. ASSUME NEW o \in SwCall, NEW s \in Switch, SetSwitchInfo(o, s) PROVE Goal
  BY <1>12 DEF SetSwitchInfo, Begin, Present
<1>13. ASSUME NEW o \in SwCall, NEW s \in Switch, SaveInfo(o, s) PROVE Goal
  BY <1>13 DEF SaveInfo, At, SaveUplink, Return, SwCallIdle, Present
<1>14. ASSUME NEW o \in SwCall, NEW s \in Switch, RemoveSwitch(o, s) PROVE Goal
  BY <1>14 DEF RemoveSwitch, Begin, Present
<1>15. ASSUME NEW o \in SwCall, NEW s \in Switch, DeleteRow(o, s) PROVE Goal
  <2>1. CASE "overlap" \in swMishap
    BY <1>15, <2>1 DEF DeleteRow
  <2>2. CASE "overlap" \notin swMishap
    <3>1. swCall[o].pc = "delete" /\ swCall[o].sw = s /\ s \in Present
      BY <1>15, <2>2 DEF DeleteRow, Present
    <3>2. \/ /\ swCall' = [swCall EXCEPT ![o].pc = "destroy"]
             /\ uplink' = [uplink EXCEPT ![s] = Absent]
          \/ swCall' = [swCall EXCEPT ![o] = SwCallIdle] /\ uplink' = uplink
      BY <1>15, <3>1 DEF DeleteRow, Goto, Return
    <3>3. QED
      BY <1>15, <2>2, <3>1, <3>2, SMTT(30) DEF DeleteRow, SwCallIdle
  <2>3. QED
    BY <2>1, <2>2
<1>16. ASSUME NEW o \in SwCall, NEW s \in Switch, DestroySwitch(o, s) PROVE Goal
  <2>1. \A t \in Switch, u \in Uplink : IsMember(t, u)' => IsMember(t, u) /\ (t # s \/ "left" \in swMishap')
    BY <1>16 DEF DestroySwitch, Happened
  <2>2. \A t \in Switch, u \in Uplink : IsMember(t, u) /\ t # s => IsMember(t, u)'
    BY <1>16 DEF DestroySwitch
  <2>3. swCall[o].pc = "destroy" /\ swCall[o].sw = s /\ swCall' = [swCall EXCEPT ![o] = SwCallIdle]
    BY <1>16 DEF DestroySwitch, Return
  <2>4. uplink' = uplink /\ swMishap \subseteq swMishap'
    BY <1>16 DEF DestroySwitch, Happened
  <2>5. QED
    BY <2>1, <2>2, <2>3, <2>4 DEF SwCallIdle
<1>17. CASE Restart
  <2>. SUFFICES ASSUME swMishap' \subseteq {"raced"}, "overlap" \notin swMishap' PROVE MemberIsNamed'
    OBVIOUS
  <2>1. swMishap' = swMishap /\ (\A o \in SwCall : swCall[o].pc = "idle") /\ uplink' = uplink
    BY <1>17 DEF Restart
  <2>2. \A o \in SwCall : swCall'[o].pc = "idle"
    BY <1>17 DEF Restart, SwCallIdle
  <2>3. ASSUME NEW s \in Switch, NEW u \in Uplink, IsMember(s, u)' PROVE uplink[s] = u
    <3>1. uplink[s] = u \/ (IsMember(s, u) /\ s \notin Present)
      BY <1>17, <2>3, RestartMembers
    <3>2. QED
      BY <2>1, <3>1
  <2>4. QED
    BY <2>1, <2>2, <2>3
<1>18. CASE UNCHANGED swVars
  BY <1>18 DEF swVars
<1>19. QED
  BY <1>1, <1>2, <1>3, <1>4, <1>5, <1>6, <1>7, <1>8, <1>9, <1>10, <1>11, <1>12, <1>13, <1>14,
     <1>15, <1>16, <1>17, <1>18 DEF SwNext, SwStep
-----------------------------------------------------------------------------
SwInv == CallInv /\ HonestInv

LEMMA SwPreserved == SwInv /\ [SwNext]_swVars => SwInv'
<1>. SUFFICES ASSUME CallInv, HonestInv, [SwNext]_swVars PROVE CallInv' /\ HonestInv'
  BY DEF SwInv
<1>1. HonestInv'
  BY ClearedStep, UplinkNamedStep, MemberStep DEF HonestInv
<1>2. QED
  BY <1>1, SwCallStep

LEMMA SwInitially == SwInit => SwInv
BY CallInit, HonestInit DEF SwInv

LEMMA SwInductive == SwSpec => []SwInv
BY SwInitially, SwPreserved, PTL DEF SwSpec

\* Every table of the switches, every bridge and every RPC keeps its type; only a bridge that
\* exists has members.
THEOREM SwitchesTyped == SwSpec => []SwTypeOK
<1>1. SwInv => SwTypeOK
  BY DEF SwInv, CallInv
<1>2. QED
  BY <1>1, SwInductive, PTL

\* Rows and bridges agree about every switch that no RPC works on: the bridge has the uplink
\* of the row unless a row was left without its member, a call was cut or a race lost, and it
\* has no other uplink unless something was left behind, a call failed or was cut.
THEOREM RowsAndBridgesAgree == SwSpec => []RowHonest
<1>1. ASSUME SwInv PROVE RowHonest
  <2>1. ASSUME swMishap \subseteq {"left"}, NEW s \in Switch, Untouched(s), uplink[s] \in Uplink
        PROVE  IsMember(s, uplink[s])
    BY <1>1, <2>1 DEF SwInv, HonestInv, NamedIsMember, Untouched, At
  <2>2. ASSUME swMishap \subseteq {"raced"}, NEW m \in members, Untouched(m[1])
        PROVE  uplink[m[1]] = m[2]
    <3>1. m = <<m[1], m[2]>> /\ m[1] \in Switch /\ m[2] \in Uplink
      BY <1>1 DEF SwInv, CallInv, SwTypeOK
    <3>2. Explained(m[1], m[2])
      BY <1>1, <2>2, <3>1 DEF SwInv, HonestInv, MemberIsNamed, IsMember
    <3>3. QED
      BY <2>2, <3>2 DEF Explained, Untouched
  <2>3. QED
    BY <2>1, <2>2 DEF RowHonest
<1>2. QED
  BY <1>1, SwInductive, PTL

\* SetSwitchUplink looks at the rows and at the host too early, and still no uplink gets into
\* the rows of two switches of one kind, unless a failure left a row without its member, a
\* call was cut or an AddSwitch lost a race: the kernel refuses the second member, and the
\* row is written after.
THEOREM UplinkHasOneOwner == SwSpec => []OneUplinkOwner
<1>1. ASSUME SwInv PROVE OneUplinkOwner
  <2>. SUFFICES ASSUME swMishap \subseteq {"left"}, NEW s \in Switch, NEW t \in Switch,
                       s # t, SameKind(s, t), Untouched(s), Untouched(t), uplink[s] \in Uplink,
                       uplink[s] = uplink[t]
                PROVE  FALSE
    BY DEF OneUplinkOwner
  <2>1. IsMember(s, uplink[s]) /\ IsMember(t, uplink[s])
    BY <1>1 DEF SwInv, HonestInv, NamedIsMember, Untouched, At
  <2>2. QED
    BY <1>1, <2>1 DEF SwInv, CallInv, CallFacts, OneBridge
<1>2. QED
  BY <1>1, SwInductive, PTL
=============================================================================
