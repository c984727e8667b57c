--------------------------- MODULE KudoInitProofs ---------------------------
(***************************************************************************)
(* For any versions, namespaces, flags and any number of commands, faults  *)
(* and changes by users: no manager runs without the admission webhook,    *)
(* and an installation that succeeds is complete.  Both inductions rest on *)
(* the order of the calls, proved first.                                   *)
(***************************************************************************)
EXTENDS KudoInit, SequenceTheorems, TLAPS

(* ------------------------- the order of the calls ---------------------- *)

Names == {"operators", "operatorversions", "instances", "namespace", "serviceAccount",
          "roleBinding", "webhook", "secret", "issuer", "certificate", "deleteManager",
          "awaitManager", "createManager", "deleteService", "createService",
          "deleteWebhook"}

Has(s, x) == \E k \in 1 .. Len(s) : s[k] = x

Join(s, t) == s \o t

\* The elements of a concatenation.
LEMMA Elements ==
    ASSUME NEW s \in Seq(Names), NEW t \in Seq(Names)
    PROVE  /\ Len(s) \in Nat /\ Len(t) \in Nat
           /\ Join(s, t) \in Seq(Names)
           /\ Len(Join(s, t)) = Len(s) + Len(t)
           /\ \A k \in 1 .. Len(s) : Join(s, t)[k] = s[k]
           /\ \A k \in 1 .. Len(t) : Join(s, t)[Len(s) + k] = t[k]
<1>1. Len(s) \in Nat /\ Len(t) \in Nat
  BY LenProperties
<1>2. /\ s \o t \in Seq(Names)
      /\ Len(s \o t) = Len(s) + Len(t)
      /\ \A k \in 1 .. Len(s) + Len(t) :
            (s \o t)[k] = IF k <= Len(s) THEN s[k] ELSE t[k - Len(s)]
  BY ConcatProperties
<1>3. ASSUME NEW k \in 1 .. Len(s)
      PROVE  (s \o t)[k] = s[k]
  BY <1>1, <1>2
<1>4. ASSUME NEW k \in 1 .. Len(t)
      PROVE  (s \o t)[Len(s) + k] = t[k]
  <2>1. Len(s) + k \in 1 .. Len(s) + Len(t) /\ ~ (Len(s) + k <= Len(s)) /\ Len(s) + k - Len(s) = k
    BY <1>1
  <2> QED BY <1>2, <2>1
<1> QED BY <1>1, <1>2, <1>3, <1>4 DEF Join

\* It has the calls of both parts.
LEMMA Concatenation ==
    ASSUME NEW s \in Seq(Names), NEW t \in Seq(Names), NEW x
    PROVE  Has(Join(s, t), x) <=> Has(s, x) \/ Has(t, x)
<1>0. /\ Len(s) \in Nat /\ Len(t) \in Nat
      /\ Len(Join(s, t)) = Len(s) + Len(t)
      /\ \A k \in 1 .. Len(s) : Join(s, t)[k] = s[k]
      /\ \A k \in 1 .. Len(t) : Join(s, t)[Len(s) + k] = t[k]
  BY Elements
<1>1. ASSUME Has(Join(s, t), x)
      PROVE  Has(s, x) \/ Has(t, x)
  <2>1. PICK k \in 1 .. Len(Join(s, t)) : Join(s, t)[k] = x
    BY <1>1 DEF Has
  <2>2. CASE k \in 1 .. Len(s)
    BY <2>1, <2>2, <1>0 DEF Has
  <2>3. CASE k \notin 1 .. Len(s)
    <3>1. k - Len(s) \in 1 .. Len(t) /\ Len(s) + (k - Len(s)) = k
      BY <2>3, <1>0
    <3> QED BY <2>1, <3>1, <1>0 DEF Has
  <2> QED BY <2>2, <2>3
<1>2. ASSUME Has(s, x)
      PROVE  Has(Join(s, t), x)
  <2>1. PICK k \in 1 .. Len(s) : s[k] = x
    BY <1>2 DEF Has
  <2>2. k \in 1 .. Len(Join(s, t))
    BY <1>0
  <2> QED BY <2>1, <2>2, <1>0 DEF Has
<1>3. ASSUME Has(t, x)
      PROVE  Has(Join(s, t), x)
  <2>1. PICK k \in 1 .. Len(t) : t[k] = x
    BY <1>3 DEF Has
  <2>2. Len(s) + k \in 1 .. Len(Join(s, t))
    BY <1>0
  <2> QED BY <2>1, <2>2, <1>0 DEF Has
<1> QED BY <1>1, <1>2, <1>3

\* Two parts without a call x, one after the other, are without it, too.
LEMMA Lacking ==
    ASSUME NEW s \in Seq(Names), NEW t \in Seq(Names), NEW x, ~ Has(s, x), ~ Has(t, x)
    PROVE  Join(s, t) \in Seq(Names) /\ ~ Has(Join(s, t), x)
BY Concatenation, Elements

\* What the parts of an installation call, and what they do not.
LEMMA Parts ==
    ASSUME NEW f \in Flag
    PROVE  /\ CRDCalls \in Seq(Names)
           /\ ~ Has(CRDCalls, "createManager") /\ ~ Has(CRDCalls, "deleteWebhook")
           /\ <<"namespace">> \in Seq(Names)
           /\ ~ Has(<<"namespace">>, "createManager") /\ ~ Has(<<"namespace">>, "deleteWebhook")
           /\ AccountCalls(f) \in Seq(Names)
           /\ ~ Has(AccountCalls(f), "createManager") /\ ~ Has(AccountCalls(f), "deleteWebhook")
           /\ WebhookCalls(f) \in Seq(Names) /\ Has(WebhookCalls(f), "webhook")
           /\ ~ Has(WebhookCalls(f), "createManager") /\ ~ Has(WebhookCalls(f), "deleteWebhook")
           /\ <<"deleteWebhook">> \in Seq(Names)
           /\ Len(<<"deleteWebhook">>) = 1 /\ <<"deleteWebhook">>[1] = "deleteWebhook"
           /\ ManagerRemoval \in Seq(Names)
           /\ Len(ManagerRemoval) = 2
           /\ ManagerRemoval[2] = "awaitManager"
           /\ ~ Has(ManagerRemoval, "createManager") /\ ~ Has(ManagerRemoval, "deleteWebhook")
           /\ ManagerCalls \in Seq(Names)
           /\ ~ Has(ManagerCalls, "deleteWebhook")
<1>1. /\ CRDCalls \in Seq(Names)
      /\ ~ Has(CRDCalls, "createManager") /\ ~ Has(CRDCalls, "deleteWebhook")
  <2>1. CRDCalls \in Seq(Names)
    BY DEF CRDCalls, Names
  <2>2. Len(CRDCalls) = 3 /\ \A k \in 1 .. 3 : CRDCalls[k] # "createManager" /\ CRDCalls[k] # "deleteWebhook"
    BY DEF CRDCalls
  <2> QED BY <2>1, <2>2 DEF Has
<1>2. /\ <<"namespace">> \in Seq(Names)
      /\ ~ Has(<<"namespace">>, "createManager") /\ ~ Has(<<"namespace">>, "deleteWebhook")
  <2>1. <<"namespace">> \in Seq(Names)
    BY DEF Names
  <2>2. Len(<<"namespace">>) = 1 /\ \A k \in 1 .. 1 : <<"namespace">>[k] # "createManager" /\ <<"namespace">>[k] # "deleteWebhook"
    OBVIOUS
  <2> QED BY <2>1, <2>2 DEF Has
<1>3. /\ AccountCalls(f) \in Seq(Names)
      /\ ~ Has(AccountCalls(f), "createManager") /\ ~ Has(AccountCalls(f), "deleteWebhook")
  <2>1. CASE IsDefaultAccount(f)
    <3>1. AccountCalls(f) \in Seq(Names)
      BY <2>1 DEF AccountCalls, Names
    <3>2. Len(AccountCalls(f)) = 2 /\ \A k \in 1 .. 2 : AccountCalls(f)[k] # "createManager" /\ AccountCalls(f)[k] # "deleteWebhook"
      BY <2>1 DEF AccountCalls
    <3> QED BY <3>1, <3>2 DEF Has
  <2>2. CASE ~ IsDefaultAccount(f)
    <3>1. AccountCalls(f) \in Seq(Names)
      BY <2>2 DEF AccountCalls, Names
    <3>2. Len(AccountCalls(f)) = 0 /\ \A k \in 1 .. 0 : AccountCalls(f)[k] # "createManager" /\ AccountCalls(f)[k] # "deleteWebhook"
      BY <2>2 DEF AccountCalls
    <3> QED BY <3>1, <3>2 DEF Has
  <2> QED BY <2>1, <2>2
<1>4. /\ WebhookCalls(f) \in Seq(Names) /\ Has(WebhookCalls(f), "webhook")
      /\ ~ Has(WebhookCalls(f), "createManager") /\ ~ Has(WebhookCalls(f), "deleteWebhook")
  <2>1. CASE f.selfSigned
    <3>1. WebhookCalls(f) \in Seq(Names)
      BY <2>1 DEF WebhookCalls, Names
    <3>2. Len(WebhookCalls(f)) = 2
      BY <2>1 DEF WebhookCalls
    <3>3. \A k \in 1 .. 2 : WebhookCalls(f)[k] # "createManager" /\ WebhookCalls(f)[k] # "deleteWebhook"
      BY <2>1 DEF WebhookCalls
    <3>4. 1 \in 1 .. 2 /\ WebhookCalls(f)[1] = "webhook"
      <4>1. WebhookCalls(f) = <<"webhook", "secret">>
        BY <2>1 DEF WebhookCalls
      <4> QED BY <4>1
    <3>5. Has(WebhookCalls(f), "webhook")
      BY <3>2, <3>4 DEF Has
    <3>6. ~ Has(WebhookCalls(f), "createManager") /\ ~ Has(WebhookCalls(f), "deleteWebhook")
      BY <3>2, <3>3 DEF Has
    <3> QED BY <3>1, <3>5, <3>6
  <2>2. CASE ~ f.selfSigned
    <3>1. WebhookCalls(f) \in Seq(Names)
      BY <2>2 DEF WebhookCalls, Names
    <3>2. Len(WebhookCalls(f)) = 3
      BY <2>2 DEF WebhookCalls
    <3>3. \A k \in 1 .. 3 : WebhookCalls(f)[k] # "createManager" /\ WebhookCalls(f)[k] # "deleteWebhook"
      BY <2>2 DEF WebhookCalls
    <3>4. 3 \in 1 .. 3 /\ WebhookCalls(f)[3] = "webhook"
      <4>1. WebhookCalls(f) = <<"issuer", "certificate", "webhook">>
        BY <2>2 DEF WebhookCalls
      <4> QED BY <4>1
    <3>5. Has(WebhookCalls(f), "webhook")
      BY <3>2, <3>4 DEF Has
    <3>6. ~ Has(WebhookCalls(f), "createManager") /\ ~ Has(WebhookCalls(f), "deleteWebhook")
      BY <3>2, <3>3 DEF Has
    <3> QED BY <3>1, <3>5, <3>6
  <2> QED BY <2>1, <2>2
<1>5. /\ <<"deleteWebhook">> \in Seq(Names)
      /\ Len(<<"deleteWebhook">>) = 1 /\ <<"deleteWebhook">>[1] = "deleteWebhook"
  BY DEF Names
<1>6. /\ ManagerRemoval \in Seq(Names)
      /\ Len(ManagerRemoval) = 2 /\ ManagerRemoval[2] = "awaitManager"
      /\ ~ Has(ManagerRemoval, "createManager") /\ ~ Has(ManagerRemoval, "deleteWebhook")
  <2>1. ManagerRemoval \in Seq(Names)
    BY DEF ManagerRemoval, Names
  <2>2. /\ Len(ManagerRemoval) = 2 /\ ManagerRemoval[2] = "awaitManager"
        /\ \A k \in 1 .. 2 : ManagerRemoval[k] # "createManager" /\ ManagerRemoval[k] # "deleteWebhook"
    BY DEF ManagerRemoval
  <2> QED BY <2>1, <2>2 DEF Has
<1>7. ManagerCalls \in Seq(Names) /\ ~ Has(ManagerCalls, "deleteWebhook")
  <2> DEFINE rest == <<"createManager", "deleteService", "createService">>
  <2>1. rest \in Seq(Names)
    BY DEF Names
  <2>2. Len(rest) = 3 /\ \A k \in 1 .. 3 : rest[k] # "deleteWebhook"
    OBVIOUS
  <2>3. ManagerCalls = Join(ManagerRemoval, rest)
    BY DEF ManagerCalls, Join
  <2> HIDE DEF rest
  <2>4. ~ Has(rest, "deleteWebhook")
    BY <2>2 DEF Has
  <2> QED BY <1>6, <2>1, <2>3, <2>4, Lacking
<1> QED BY <1>1, <1>2, <1>3, <1>4, <1>5, <1>6, <1>7

\* The webhook is called before the manager is created, and never deleted.
LEMMA InstallationOrder ==
    ASSUME NEW f \in Flag
    PROVE  /\ Installation(f) \in Seq(Names)
           /\ ~ Has(Installation(f), "deleteWebhook")
           /\ \A k \in 1 .. Len(Installation(f)) :
                 Installation(f)[k] = "createManager" =>
                    \E j \in 1 .. k - 1 : Installation(f)[j] = "webhook"
<1>1. CASE f.crdOnly
  <2>1. Installation(f) = CRDCalls
    BY <1>1 DEF Installation
  <2>2. \A k \in 1 .. Len(Installation(f)) : Installation(f)[k] # "createManager"
    BY <2>1, Parts DEF Has
  <2> QED BY <2>1, <2>2, Parts
<1>2. CASE ~ f.crdOnly
  <2> DEFINE o == <<"namespace">>
             a == Join(CRDCalls, o)
             b == Join(a, AccountCalls(f))
             c == Join(b, WebhookCalls(f))
  <2>1. a \in Seq(Names) /\ ~ Has(a, "createManager") /\ ~ Has(a, "deleteWebhook")
    <3>1. /\ CRDCalls \in Seq(Names) /\ o \in Seq(Names)
          /\ ~ Has(CRDCalls, "createManager") /\ ~ Has(CRDCalls, "deleteWebhook")
          /\ ~ Has(o, "createManager") /\ ~ Has(o, "deleteWebhook")
      BY Parts
    <3> HIDE DEF o
    <3> QED BY <3>1, Lacking
  <2>2. Installation(f) = Join(c, ManagerCalls)
    BY <1>2 DEF Installation, Join
  <2> HIDE DEF a
  <2>3. b \in Seq(Names) /\ ~ Has(b, "createManager") /\ ~ Has(b, "deleteWebhook")
    <3>1. /\ AccountCalls(f) \in Seq(Names)
          /\ ~ Has(AccountCalls(f), "createManager") /\ ~ Has(AccountCalls(f), "deleteWebhook")
      BY Parts
    <3> QED BY <2>1, <3>1, Lacking
  <2> HIDE DEF b
  <2>4. /\ c \in Seq(Names) /\ Has(c, "webhook")
        /\ ~ Has(c, "createManager") /\ ~ Has(c, "deleteWebhook")
    <3>1. /\ WebhookCalls(f) \in Seq(Names) /\ Has(WebhookCalls(f), "webhook")
          /\ ~ Has(WebhookCalls(f), "createManager") /\ ~ Has(WebhookCalls(f), "deleteWebhook")
      BY Parts
    <3> QED BY <2>3, <3>1, Lacking, Concatenation
  <2> HIDE DEF c
  <2>5. Installation(f) \in Seq(Names) /\ ~ Has(Installation(f), "deleteWebhook")
    <3>1. ManagerCalls \in Seq(Names) /\ ~ Has(ManagerCalls, "deleteWebhook")
      BY Parts
    <3> QED BY <2>2, <2>4, <3>1, Lacking
  <2>6. ASSUME NEW k \in 1 .. Len(Installation(f)), Installation(f)[k] = "createManager"
        PROVE  \E j \in 1 .. k - 1 : Installation(f)[j] = "webhook"
    <3>1. PICK j \in 1 .. Len(c) : c[j] = "webhook"
      BY <2>4 DEF Has
    <3>2. Len(c) \in Nat /\ Len(Installation(f)) \in Nat
      BY <2>4, <2>5, LenProperties
    <3>3. \A i \in 1 .. Len(c) : Installation(f)[i] = c[i]
      <4>1. ManagerCalls \in Seq(Names)
        BY Parts
      <4>2. \A i \in 1 .. Len(c) : Join(c, ManagerCalls)[i] = c[i]
        BY <2>4, <4>1, Elements
      <4> QED BY <2>2, <4>2
    <3>4. k \notin 1 .. Len(c)
      <4> SUFFICES ASSUME k \in 1 .. Len(c)
                   PROVE  c[k] # "createManager"
        BY <2>6, <3>3
      <4> QED BY <2>4 DEF Has
    <3>5. j \in 1 .. k - 1
      BY <3>2, <3>4
    <3> QED BY <3>1, <3>3, <3>5
  <2> QED BY <2>5, <2>6
<1> QED BY <1>1, <1>2

\* The same of all calls, but for the third one of an upgrade, which deletes
\* the webhook after the manager has gone.
LEMMA CallOrder ==
    ASSUME NEW f \in Flag, NEW k \in 1 .. Len(Calls(f))
    PROVE  /\ Len(Calls(f)) \in Nat
           /\ Calls(f)[k] = "deleteWebhook" => f.upgrade /\ k = 3
           /\ f.upgrade => Calls(f)[2] = "awaitManager"
           /\ Calls(f)[k] = "createManager" =>
                 /\ f.upgrade => k > 3
                 /\ \E j \in 1 .. k - 1 : Calls(f)[j] = "webhook" /\ (f.upgrade => j > 3)
<1> DEFINE inst == Installation(f)
           pre == Join(ManagerRemoval, <<"deleteWebhook">>)
<1>1. /\ inst \in Seq(Names) /\ Len(inst) \in Nat
      /\ \A i \in 1 .. Len(inst) : inst[i] # "deleteWebhook"
      /\ \A i \in 1 .. Len(inst) :
            inst[i] = "createManager" => \E j \in 1 .. i - 1 : inst[j] = "webhook"
  BY InstallationOrder, LenProperties DEF Has
<1>2. CASE ~ f.upgrade
  <2>1. Calls(f) = inst
    BY <1>2 DEF Calls
  <2> HIDE DEF inst
  <2> QED BY <1>1, <1>2, <2>1
<1>3. CASE f.upgrade
  <2>1. Calls(f) = Join(pre, inst)
    BY <1>3 DEF Calls, Upgrade, Join
  <2> HIDE DEF inst
  <2>2. pre \in Seq(Names) /\ Len(pre) = 3 /\ pre[2] = "awaitManager" /\ pre[3] = "deleteWebhook"
    <3> DEFINE d == <<"deleteWebhook">>
    <3>1. ManagerRemoval \in Seq(Names) /\ Len(ManagerRemoval) = 2 /\ ManagerRemoval[2] = "awaitManager"
      BY Parts
    <3>2. d \in Seq(Names) /\ Len(d) = 1 /\ d[1] = "deleteWebhook"
      BY Parts
    <3> HIDE DEF d
    <3>3. /\ \A i \in 1 .. 2 : Join(ManagerRemoval, d)[i] = ManagerRemoval[i]
          /\ \A i \in 1 .. 1 : Join(ManagerRemoval, d)[2 + i] = d[i]
          /\ Join(ManagerRemoval, d) \in Seq(Names) /\ Len(Join(ManagerRemoval, d)) = 3
      <4>1. /\ Join(ManagerRemoval, d) \in Seq(Names)
            /\ Len(Join(ManagerRemoval, d)) = Len(ManagerRemoval) + Len(d)
            /\ \A i \in 1 .. Len(ManagerRemoval) : Join(ManagerRemoval, d)[i] = ManagerRemoval[i]
            /\ \A i \in 1 .. Len(d) : Join(ManagerRemoval, d)[Len(ManagerRemoval) + i] = d[i]
        BY <3>1, <3>2, Elements
      <4> QED BY <3>1, <3>2, <4>1
    <3>4. 2 \in 1 .. 2 /\ 1 \in 1 .. 1 /\ 2 + 1 = 3
      OBVIOUS
    <3>5. Join(ManagerRemoval, d)[2] = ManagerRemoval[2] /\ Join(ManagerRemoval, d)[2 + 1] = d[1]
      BY <3>3, <3>4
    <3> QED BY <3>1, <3>2, <3>3, <3>4, <3>5 DEF d
  <2>3. pre[1] # "createManager" /\ pre[1] # "deleteWebhook"
    <3> DEFINE d == <<"deleteWebhook">>
    <3>1. d \in Seq(Names) /\ ManagerRemoval \in Seq(Names) /\ Len(ManagerRemoval) = 2
      BY Parts
    <3>2. ManagerRemoval[1] # "createManager" /\ ManagerRemoval[1] # "deleteWebhook"
      BY DEF ManagerRemoval
    <3> HIDE DEF d
    <3>3. Join(ManagerRemoval, d)[1] = ManagerRemoval[1]
      <4>1. /\ Join(ManagerRemoval, d) \in Seq(Names)
            /\ Len(Join(ManagerRemoval, d)) = Len(ManagerRemoval) + Len(d)
            /\ \A i \in 1 .. Len(ManagerRemoval) : Join(ManagerRemoval, d)[i] = ManagerRemoval[i]
            /\ \A i \in 1 .. Len(d) : Join(ManagerRemoval, d)[Len(ManagerRemoval) + i] = d[i]
        BY <3>1, Elements
      <4> QED BY <3>1, <4>1
    <3> QED BY <3>2, <3>3 DEF d
  <2> HIDE DEF pre
  <2>4. /\ Len(Calls(f)) = 3 + Len(inst)
        /\ \A i \in 1 .. 3 : Calls(f)[i] = pre[i]
        /\ \A i \in 1 .. Len(inst) : Calls(f)[3 + i] = inst[i]
    <3>1. /\ Join(pre, inst) \in Seq(Names)
          /\ Len(Join(pre, inst)) = Len(pre) + Len(inst)
          /\ \A i \in 1 .. Len(pre) : Join(pre, inst)[i] = pre[i]
          /\ \A i \in 1 .. Len(inst) : Join(pre, inst)[Len(pre) + i] = inst[i]
      BY <1>1, <2>2, Elements
    <3> QED BY <2>1, <2>2, <3>1
  <2>5. Calls(f)[2] = "awaitManager"
    BY <2>2, <2>4
  <2>6. CASE k <= 3
    <3>1. k = 1 \/ k = 2 \/ k = 3
      BY <1>1, <2>4, <2>6
    <3>2. Calls(f)[k] = pre[k]
      BY <2>4, <3>1
    <3>3. Calls(f)[k] # "createManager" /\ (Calls(f)[k] = "deleteWebhook" => k = 3)
      BY <2>2, <2>3, <3>1, <3>2
    <3> QED BY <1>1, <1>3, <2>4, <2>5, <3>3
  <2>7. CASE k > 3
    <3>1. PICK i \in 1 .. Len(inst) : k = 3 + i
      <4>1. k - 3 \in 1 .. Len(inst) /\ k = 3 + (k - 3)
        BY <1>1, <2>4, <2>7
      <4> QED BY <4>1
    <3>2. Calls(f)[k] = inst[i]
      BY <2>4, <3>1
    <3>3. Calls(f)[k] # "deleteWebhook"
      BY <1>1, <3>2
    <3>4. ASSUME Calls(f)[k] = "createManager"
          PROVE  \E j \in 1 .. k - 1 : Calls(f)[j] = "webhook" /\ j > 3
      <4>1. PICK j \in 1 .. i - 1 : inst[j] = "webhook"
        BY <1>1, <3>2, <3>4
      <4>2. j \in 1 .. Len(inst) /\ 3 + j \in 1 .. k - 1 /\ 3 + j > 3
        BY <1>1, <3>1
      <4>3. Calls(f)[3 + j] = "webhook"
        BY <2>4, <4>1, <4>2
      <4> QED BY <4>2, <4>3
    <3> QED BY <1>1, <1>3, <2>4, <2>5, <2>7, <3>3, <3>4
  <2>8. k <= 3 \/ k > 3
    BY <1>1, <2>4
  <2> QED BY <2>6, <2>7, <2>8
<1> QED BY <1>2, <1>3

\* There is something to call.
LEMMA SomeCall ==
    ASSUME NEW f \in Flag
    PROVE  1 \in 1 .. Len(Calls(f))
<1> DEFINE o == <<"namespace">>
           a == Join(Join(CRDCalls, o), AccountCalls(f))
           b == Join(a, WebhookCalls(f))
           m == Join(ManagerRemoval, <<"deleteWebhook">>)
<1>1. Len(Installation(f)) \in Nat \ {0} /\ Installation(f) \in Seq(Names)
  <2>1. CASE f.crdOnly
    <3>1. Installation(f) = CRDCalls
      BY <2>1 DEF Installation
    <3>2. Len(CRDCalls) = 3
      BY DEF CRDCalls
    <3> QED BY <3>1, <3>2, Parts
  <2>2. CASE ~ f.crdOnly
    <3>1. Installation(f) = Join(b, ManagerCalls)
      BY <2>2 DEF Installation, Join
    <3>2. o \in Seq(Names)
      BY Parts
    <3> HIDE DEF o
    <3>3. Join(CRDCalls, o) \in Seq(Names)
      BY <3>2, Parts, Elements
    <3>4. a \in Seq(Names)
      BY <3>3, Parts, Elements
    <3> HIDE DEF a
    <3>5. b \in Seq(Names) /\ Len(b) = Len(a) + Len(WebhookCalls(f)) /\ Len(a) \in Nat
      BY <3>4, Parts, Elements
    <3>6. Len(WebhookCalls(f)) \in Nat \ {0}
      BY Parts, LenProperties DEF Has
    <3> HIDE DEF b
    <3>7. Join(b, ManagerCalls) \in Seq(Names)
          /\ Len(Join(b, ManagerCalls)) = Len(b) + Len(ManagerCalls) /\ Len(ManagerCalls) \in Nat
      BY <3>5, Parts, Elements
    <3> QED BY <3>1, <3>5, <3>6, <3>7
  <2> QED BY <2>1, <2>2
<1>2. CASE ~ f.upgrade
  BY <1>1, <1>2 DEF Calls
<1>3. CASE f.upgrade
  <2>1. Calls(f) = Join(m, Installation(f))
    BY <1>3 DEF Calls, Upgrade, Join
  <2>2. m \in Seq(Names)
    BY Parts, Elements
  <2> HIDE DEF m
  <2>3. Len(Join(m, Installation(f))) = Len(m) + Len(Installation(f)) /\ Len(m) \in Nat
    BY <1>1, <2>2, Elements
  <2> QED BY <1>1, <2>1, <2>3
<1> QED BY <1>2, <1>3

(* ---------------------- what an installation calls --------------------- *)

\* The calls of an installation, and of all of a command.
InstallationHas(f) ==
    CRDs \cup
    IF f.crdOnly THEN {}
    ELSE {"namespace"}
         \cup (IF IsDefaultAccount(f) THEN {"serviceAccount", "roleBinding"} ELSE {})
         \cup (IF f.selfSigned THEN {"webhook", "secret"} ELSE {"issuer", "certificate", "webhook"})
         \cup {"deleteManager", "awaitManager", "createManager", "deleteService", "createService"}

RemovalHas(f) ==
    IF f.upgrade THEN {"deleteManager", "awaitManager", "deleteWebhook"} ELSE {}

\* In s the call x comes after every call y.
After(s, x, y) == \A j, k \in 1 .. Len(s) : s[j] = x /\ s[k] = y => k < j

\* In s the call x follows y at once.
RightAfter(s, x, y) == \A k \in 1 .. Len(s) : s[k] = x => k > 1 /\ s[k - 1] = y

LEMMA AfterJoined ==
    ASSUME NEW s \in Seq(Names), NEW t \in Seq(Names), NEW x, NEW y,
           After(s, x, y), After(t, x, y), ~ Has(s, x) \/ ~ Has(t, y)
    PROVE  After(Join(s, t), x, y)
<1>0. /\ Len(s) \in Nat /\ Len(t) \in Nat
      /\ Len(Join(s, t)) = Len(s) + Len(t)
      /\ \A k \in 1 .. Len(s) : Join(s, t)[k] = s[k]
      /\ \A k \in 1 .. Len(t) : Join(s, t)[Len(s) + k] = t[k]
  BY Elements
<1> SUFFICES ASSUME NEW j \in 1 .. Len(Join(s, t)), NEW k \in 1 .. Len(Join(s, t)),
                    Join(s, t)[j] = x, Join(s, t)[k] = y
             PROVE  k < j
  BY DEF After
<1>1. ASSUME NEW i \in 1 .. Len(Join(s, t)), i \notin 1 .. Len(s)
      PROVE  i - Len(s) \in 1 .. Len(t) /\ Join(s, t)[i] = t[i - Len(s)]
  <2>1. i - Len(s) \in 1 .. Len(t) /\ Len(s) + (i - Len(s)) = i
    BY <1>0, <1>1
  <2> QED BY <1>0, <2>1
<1>2. CASE j \in 1 .. Len(s) /\ k \in 1 .. Len(s)
  BY <1>0, <1>2 DEF After
<1>3. CASE j \notin 1 .. Len(s) /\ k \in 1 .. Len(s)
  BY <1>0, <1>3
<1>4. CASE j \notin 1 .. Len(s) /\ k \notin 1 .. Len(s)
  <2>1. k - Len(s) < j - Len(s)
    BY <1>1, <1>4 DEF After
  <2> QED BY <1>0, <2>1
<1>5. CASE j \in 1 .. Len(s) /\ k \notin 1 .. Len(s)
  BY <1>0, <1>1, <1>5 DEF Has
<1> QED BY <1>2, <1>3, <1>4, <1>5

LEMMA RightAfterJoined ==
    ASSUME NEW s \in Seq(Names), NEW t \in Seq(Names), NEW x, NEW y,
           RightAfter(s, x, y), RightAfter(t, x, y)
    PROVE  RightAfter(Join(s, t), x, y)
<1>0. /\ Len(s) \in Nat /\ Len(t) \in Nat
      /\ Len(Join(s, t)) = Len(s) + Len(t)
      /\ \A k \in 1 .. Len(s) : Join(s, t)[k] = s[k]
      /\ \A k \in 1 .. Len(t) : Join(s, t)[Len(s) + k] = t[k]
  BY Elements
<1> SUFFICES ASSUME NEW k \in 1 .. Len(Join(s, t)), Join(s, t)[k] = x
             PROVE  k > 1 /\ Join(s, t)[k - 1] = y
  BY DEF RightAfter
<1>1. CASE k \in 1 .. Len(s)
  <2>1. k > 1 /\ s[k - 1] = y
    BY <1>0, <1>1 DEF RightAfter
  <2>2. k - 1 \in 1 .. Len(s)
    BY <1>0, <1>1, <2>1
  <2> QED BY <1>0, <2>1, <2>2
<1>2. CASE k \notin 1 .. Len(s)
  <2> DEFINE i == k - Len(s)
  <2>1. i \in 1 .. Len(t) /\ Len(s) + i = k
    BY <1>0, <1>2
  <2>2. i > 1 /\ t[i - 1] = y
    BY <1>0, <2>1 DEF RightAfter
  <2>3. i - 1 \in 1 .. Len(t) /\ Len(s) + (i - 1) = k - 1 /\ k > 1
    BY <1>0, <2>1, <2>2
  <2> QED BY <1>0, <2>2, <2>3
<1> QED BY <1>1, <1>2

\* One of the two calls is missing.
LEMMA AfterNone ==
    ASSUME NEW s, NEW x, NEW y, ~ Has(s, x) \/ ~ Has(s, y)
    PROVE  After(s, x, y)
BY DEF After, Has

LEMMA RightAfterNone ==
    ASSUME NEW s, NEW x, NEW y, ~ Has(s, x)
    PROVE  RightAfter(s, x, y)
BY DEF RightAfter, Has

\* The calls of the parts.
LEMMA PartsHave ==
    ASSUME NEW f \in Flag, NEW x
    PROVE  /\ Has(CRDCalls, x) <=> x \in CRDs
           /\ Has(<<"namespace">>, x) <=> x = "namespace"
           /\ Has(AccountCalls(f), x) <=>
                 IsDefaultAccount(f) /\ x \in {"serviceAccount", "roleBinding"}
           /\ Has(WebhookCalls(f), x) <=>
                 IF f.selfSigned THEN x \in {"webhook", "secret"}
                 ELSE x \in {"issuer", "certificate", "webhook"}
           /\ Has(ManagerRemoval, x) <=> x \in {"deleteManager", "awaitManager"}
           /\ Has(<<"createManager", "deleteService", "createService">>, x) <=>
                 x \in {"createManager", "deleteService", "createService"}
           /\ Has(<<"deleteWebhook">>, x) <=> x = "deleteWebhook"
           /\ RightAfter(WebhookCalls(f), "secret", "webhook")
           /\ After(<<"createManager", "deleteService", "createService">>,
                    "createService", "deleteService")
<1>1. ASSUME NEW a, NEW b, NEW c
      PROVE  /\ Has(<<a>>, x) <=> x = a
             /\ Has(<<a, b>>, x) <=> x \in {a, b}
             /\ Has(<<a, b, c>>, x) <=> x \in {a, b, c}
  <2>1. Has(<<a>>, x) <=> x = a
    <3>1. Len(<<a>>) = 1 /\ <<a>>[1] = a
      OBVIOUS
    <3> QED BY <3>1 DEF Has
  <2>2. Has(<<a, b>>, x) <=> x \in {a, b}
    <3> DEFINE s == <<a, b>>
    <3>1. Len(s) = 2 /\ s[1] = a /\ s[2] = b
      OBVIOUS
    <3> HIDE DEF s
    <3> QED BY <3>1 DEF Has
  <2>3. Has(<<a, b, c>>, x) <=> x \in {a, b, c}
    <3> DEFINE s == <<a, b, c>>
    <3>1. Len(s) = 3 /\ s[1] = a /\ s[2] = b /\ s[3] = c
      OBVIOUS
    <3> HIDE DEF s
    <3> QED BY <3>1 DEF Has
  <2> QED BY <2>1, <2>2, <2>3
<1>2. Has(<< >>, x) <=> FALSE
  BY DEF Has
<1>3. RightAfter(WebhookCalls(f), "secret", "webhook")
  <2>1. CASE f.selfSigned
    <3> DEFINE s == <<"webhook", "secret">>
    <3>1. Len(s) = 2 /\ s[1] = "webhook" /\ s[2] = "secret"
      OBVIOUS
    <3> HIDE DEF s
    <3>2. RightAfter(s, "secret", "webhook")
      BY <3>1 DEF RightAfter
    <3> QED BY <2>1, <3>2 DEF WebhookCalls, s
  <2>2. CASE ~ f.selfSigned
    <3> DEFINE s == <<"issuer", "certificate", "webhook">>
    <3>1. Len(s) = 3 /\ s[1] = "issuer" /\ s[2] = "certificate" /\ s[3] = "webhook"
      OBVIOUS
    <3> HIDE DEF s
    <3>2. RightAfter(s, "secret", "webhook")
      BY <3>1 DEF RightAfter
    <3> QED BY <2>2, <3>2 DEF WebhookCalls, s
  <2> QED BY <2>1, <2>2
<1>4. After(<<"createManager", "deleteService", "createService">>,
            "createService", "deleteService")
  <2> DEFINE s == <<"createManager", "deleteService", "createService">>
  <2>1. Len(s) = 3 /\ s[1] = "createManager" /\ s[2] = "deleteService" /\ s[3] = "createService"
    OBVIOUS
  <2> HIDE DEF s
  <2>2. After(s, "createService", "deleteService")
    BY <2>1 DEF After
  <2> QED BY <2>2 DEF s
<1>5. Has(CRDCalls, x) <=> x \in CRDs
  BY <1>1, Zenon DEF CRDCalls, CRDs
<1>6. Has(AccountCalls(f), x) <=> IsDefaultAccount(f) /\ x \in {"serviceAccount", "roleBinding"}
  BY <1>1, <1>2, Zenon DEF AccountCalls
<1>7. Has(WebhookCalls(f), x) <=>
          IF f.selfSigned THEN x \in {"webhook", "secret"}
          ELSE x \in {"issuer", "certificate", "webhook"}
  BY <1>1, Zenon DEF WebhookCalls
<1>8. Has(ManagerRemoval, x) <=> x \in {"deleteManager", "awaitManager"}
  BY <1>1, Zenon DEF ManagerRemoval
<1>9. Has(<<"createManager", "deleteService", "createService">>, x) <=>
          x \in {"createManager", "deleteService", "createService"}
  BY <1>1, Zenon
<1> QED BY <1>1, <1>3, <1>4, <1>5, <1>6, <1>7, <1>8, <1>9, Zenon

\* What an installation calls, and in which order.
LEMMA InstallationCalls ==
    ASSUME NEW f \in Flag
    PROVE  /\ Installation(f) \in Seq(Names)
           /\ \A x : Has(Installation(f), x) <=> x \in InstallationHas(f)
           /\ After(Installation(f), "createManager", "deleteManager")
           /\ After(Installation(f), "createService", "deleteService")
           /\ RightAfter(Installation(f), "secret", "webhook")
<1> DEFINE o == <<"namespace">>
           rest == <<"createManager", "deleteService", "createService">>
           a == Join(CRDCalls, o)
           b == Join(a, AccountCalls(f))
           c == Join(b, WebhookCalls(f))
<1>0. /\ CRDCalls \in Seq(Names) /\ o \in Seq(Names) /\ AccountCalls(f) \in Seq(Names)
      /\ WebhookCalls(f) \in Seq(Names) /\ ManagerRemoval \in Seq(Names) /\ rest \in Seq(Names)
  <2>1. rest \in Seq(Names)
    BY DEF Names
  <2> HIDE DEF rest
  <2> QED BY <2>1, Parts
<1>1. /\ \A x : Has(CRDCalls, x) <=> x \in CRDs
      /\ \A x : Has(o, x) <=> x = "namespace"
      /\ \A x : Has(AccountCalls(f), x) <=>
                   IsDefaultAccount(f) /\ x \in {"serviceAccount", "roleBinding"}
      /\ \A x : Has(WebhookCalls(f), x) <=>
                   IF f.selfSigned THEN x \in {"webhook", "secret"}
                   ELSE x \in {"issuer", "certificate", "webhook"}
      /\ \A x : Has(ManagerRemoval, x) <=> x \in {"deleteManager", "awaitManager"}
      /\ \A x : Has(rest, x) <=> x \in {"createManager", "deleteService", "createService"}
      /\ RightAfter(WebhookCalls(f), "secret", "webhook")
      /\ After(rest, "createService", "deleteService")
  BY PartsHave
<1>2. ManagerCalls = Join(ManagerRemoval, rest)
  BY DEF ManagerCalls, Join
<1>3. ~ f.crdOnly => Installation(f) = Join(c, ManagerCalls)
  BY DEF Installation, Join
<1> HIDE DEF o, rest
<1>4. /\ ManagerCalls \in Seq(Names)
      /\ \A x : Has(ManagerCalls, x) <=>
                   x \in {"deleteManager", "awaitManager", "createManager", "deleteService", "createService"}
      /\ After(ManagerCalls, "createManager", "deleteManager")
      /\ After(ManagerCalls, "createService", "deleteService")
      /\ RightAfter(ManagerCalls, "secret", "webhook")
  <2>1. ManagerCalls \in Seq(Names)
    BY <1>0, <1>2, Elements
  <2>2. \A x : Has(ManagerCalls, x) <=> Has(ManagerRemoval, x) \/ Has(rest, x)
    BY <1>0, <1>2, Concatenation
  <2>3. \A x : Has(ManagerCalls, x) <=>
                   x \in {"deleteManager", "awaitManager", "createManager", "deleteService", "createService"}
    BY <1>1, <2>2
  <2>4. /\ After(ManagerRemoval, "createManager", "deleteManager")
        /\ After(rest, "createManager", "deleteManager")
        /\ ~ Has(ManagerRemoval, "createManager")
    BY <1>1, AfterNone
  <2>5. After(ManagerCalls, "createManager", "deleteManager")
    BY <1>0, <1>2, <2>4, AfterJoined
  <2>6. After(ManagerRemoval, "createService", "deleteService") /\ ~ Has(ManagerRemoval, "createService")
    BY <1>1, AfterNone
  <2>7. After(ManagerCalls, "createService", "deleteService")
    BY <1>0, <1>1, <1>2, <2>6, AfterJoined
  <2>8. RightAfter(ManagerCalls, "secret", "webhook")
    BY <2>3, RightAfterNone
  <2> QED BY <2>1, <2>3, <2>5, <2>7, <2>8
<1>5. a \in Seq(Names) /\ \A x : Has(a, x) <=> x \in CRDs \/ x = "namespace"
  <2>1. a \in Seq(Names)
    BY <1>0, Elements
  <2>2. \A x : Has(a, x) <=> Has(CRDCalls, x) \/ Has(o, x)
    BY <1>0, Concatenation
  <2> QED BY <1>1, <2>1, <2>2
<1> HIDE DEF a
<1>6. /\ b \in Seq(Names)
      /\ \A x : Has(b, x) <=> \/ x \in CRDs \/ x = "namespace"
                              \/ IsDefaultAccount(f) /\ x \in {"serviceAccount", "roleBinding"}
  <2>1. b \in Seq(Names)
    BY <1>0, <1>5, Elements
  <2>2. \A x : Has(b, x) <=> Has(a, x) \/ Has(AccountCalls(f), x)
    BY <1>0, <1>5, Concatenation
  <2> QED BY <1>1, <1>5, <2>1, <2>2
<1> HIDE DEF b
<1>7. /\ c \in Seq(Names)
      /\ \A x : Has(c, x) <=> \/ x \in CRDs \/ x = "namespace"
                              \/ IsDefaultAccount(f) /\ x \in {"serviceAccount", "roleBinding"}
                              \/ IF f.selfSigned THEN x \in {"webhook", "secret"}
                                 ELSE x \in {"issuer", "certificate", "webhook"}
      /\ RightAfter(c, "secret", "webhook")
  <2>1. c \in Seq(Names)
    BY <1>0, <1>6, Elements
  <2>2. \A x : Has(c, x) <=> Has(b, x) \/ Has(WebhookCalls(f), x)
    BY <1>0, <1>6, Concatenation
  <2>3. RightAfter(b, "secret", "webhook")
    BY <1>6, RightAfterNone DEF CRDs
  <2>4. RightAfter(c, "secret", "webhook")
    BY <1>0, <1>1, <1>6, <2>3, RightAfterJoined
  <2> QED BY <1>1, <1>6, <2>1, <2>2, <2>4
<1> HIDE DEF c
<1>8. CASE f.crdOnly
  <2>1. Installation(f) = CRDCalls
    BY <1>8 DEF Installation
  <2>2. \A x : Has(Installation(f), x) <=> x \in InstallationHas(f)
    BY <1>1, <1>8, <2>1 DEF InstallationHas
  <2>3. ~ Has(CRDCalls, "createManager") /\ ~ Has(CRDCalls, "createService") /\ ~ Has(CRDCalls, "secret")
    BY <1>1 DEF CRDs
  <2> QED BY <1>0, <2>1, <2>2, <2>3, AfterNone, RightAfterNone
<1>9. CASE ~ f.crdOnly
  <2>1. Installation(f) = Join(c, ManagerCalls)
    BY <1>3, <1>9
  <2>2. Installation(f) \in Seq(Names)
    BY <1>4, <1>7, <2>1, Elements
  <2>3. \A x : Has(Installation(f), x) <=> Has(c, x) \/ Has(ManagerCalls, x)
    BY <1>4, <1>7, <2>1, Concatenation
  <2>4. \A x : Has(Installation(f), x) <=> x \in InstallationHas(f)
    BY <1>4, <1>7, <1>9, <2>3, Zenon DEF InstallationHas
  <2>5. ~ Has(c, "createManager") /\ ~ Has(c, "createService")
    BY <1>7 DEF CRDs
  <2>6. /\ After(c, "createManager", "deleteManager")
        /\ After(c, "createService", "deleteService")
    BY <2>5, AfterNone
  <2>7. /\ After(Installation(f), "createManager", "deleteManager")
        /\ After(Installation(f), "createService", "deleteService")
    BY <1>4, <1>7, <2>1, <2>5, <2>6, AfterJoined
  <2>8. RightAfter(Installation(f), "secret", "webhook")
    BY <1>4, <1>7, <2>1, RightAfterJoined
  <2> QED BY <2>2, <2>4, <2>7, <2>8
<1> QED BY <1>8, <1>9

\* The same of all calls; the manager and its service are created after the
\* last time they are deleted, and the webhook is.
LEMMA CommandCalls ==
    ASSUME NEW f \in Flag
    PROVE  /\ Calls(f) \in Seq(Names)
           /\ \A x : Has(Calls(f), x) <=> x \in RemovalHas(f) \cup InstallationHas(f)
           /\ After(Calls(f), "createManager", "deleteManager")
           /\ After(Calls(f), "createService", "deleteService")
           /\ After(Calls(f), "webhook", "deleteWebhook")
           /\ RightAfter(Calls(f), "secret", "webhook")
<1> DEFINE d == <<"deleteWebhook">>
           pre == Join(ManagerRemoval, d)
           inst == Installation(f)
<1>1. /\ inst \in Seq(Names)
      /\ \A x : Has(inst, x) <=> x \in InstallationHas(f)
      /\ After(inst, "createManager", "deleteManager")
      /\ After(inst, "createService", "deleteService")
      /\ RightAfter(inst, "secret", "webhook")
  BY InstallationCalls
<1>2. "deleteWebhook" \notin InstallationHas(f)
  BY DEF InstallationHas, CRDs
<1>3. After(inst, "webhook", "deleteWebhook")
  BY <1>1, <1>2, AfterNone
<1>4. CASE ~ f.upgrade
  <2>1. Calls(f) = inst
    BY <1>4 DEF Calls
  <2>2. RemovalHas(f) = {}
    BY <1>4 DEF RemovalHas
  <2> HIDE DEF inst
  <2>3. \A x : Has(Calls(f), x) <=> x \in RemovalHas(f) \cup InstallationHas(f)
    BY <1>1, <2>1, <2>2
  <2> QED BY <1>1, <1>3, <2>1, <2>3
<1>5. CASE f.upgrade
  <2>1. Calls(f) = Join(pre, inst)
    BY <1>5 DEF Calls, Upgrade, Join
  <2>2. RemovalHas(f) = {"deleteManager", "awaitManager", "deleteWebhook"}
    BY <1>5 DEF RemovalHas
  <2> HIDE DEF inst
  <2>3. /\ ManagerRemoval \in Seq(Names) /\ d \in Seq(Names)
        /\ \A x : Has(ManagerRemoval, x) <=> x \in {"deleteManager", "awaitManager"}
        /\ \A x : Has(d, x) <=> x = "deleteWebhook"
    BY Parts, PartsHave
  <2> HIDE DEF d
  <2>4. pre \in Seq(Names)
    BY <2>3, Elements
  <2>5. \A x : Has(pre, x) <=> Has(ManagerRemoval, x) \/ Has(d, x)
    BY <2>3, Concatenation
  <2>6. \A x : Has(pre, x) <=> x \in RemovalHas(f)
    BY <2>2, <2>3, <2>5
  <2> HIDE DEF pre
  <2>7. ~ Has(pre, "createManager") /\ ~ Has(pre, "createService") /\ ~ Has(pre, "webhook") /\ ~ Has(pre, "secret")
    BY <2>2, <2>6
  <2>8. /\ After(pre, "createManager", "deleteManager")
        /\ After(pre, "createService", "deleteService")
        /\ After(pre, "webhook", "deleteWebhook")
        /\ RightAfter(pre, "secret", "webhook")
    BY <2>7, AfterNone, RightAfterNone
  <2>9. \A x : Has(Calls(f), x) <=> Has(pre, x) \/ Has(inst, x)
    BY <1>1, <2>1, <2>4, Concatenation
  <2>10. \A x : Has(Calls(f), x) <=> x \in RemovalHas(f) \cup InstallationHas(f)
    BY <1>1, <2>6, <2>9
  <2>11. Calls(f) \in Seq(Names)
    BY <1>1, <2>1, <2>4, Elements
  <2>12. /\ After(Calls(f), "createManager", "deleteManager")
         /\ After(Calls(f), "createService", "deleteService")
         /\ After(Calls(f), "webhook", "deleteWebhook")
    BY <1>1, <1>3, <2>1, <2>4, <2>7, <2>8, AfterJoined
  <2>13. RightAfter(Calls(f), "secret", "webhook")
    BY <1>1, <2>1, <2>4, <2>8, RightAfterJoined
  <2> QED BY <2>10, <2>11, <2>12, <2>13
<1> QED BY <1>4, <1>5

\* In s the call y follows every call x at once.
Followed(s, x, y) == \A k \in 1 .. Len(s) : s[k] = x => k < Len(s) /\ s[k + 1] = y

LEMMA FollowedJoined ==
    ASSUME NEW s \in Seq(Names), NEW t \in Seq(Names), NEW x, NEW y,
           Followed(s, x, y), Followed(t, x, y)
    PROVE  Followed(Join(s, t), x, y)
<1>0. /\ Len(s) \in Nat /\ Len(t) \in Nat
      /\ Len(Join(s, t)) = Len(s) + Len(t)
      /\ \A k \in 1 .. Len(s) : Join(s, t)[k] = s[k]
      /\ \A k \in 1 .. Len(t) : Join(s, t)[Len(s) + k] = t[k]
  BY Elements
<1> SUFFICES ASSUME NEW k \in 1 .. Len(Join(s, t)), Join(s, t)[k] = x
             PROVE  k < Len(Join(s, t)) /\ Join(s, t)[k + 1] = y
  BY DEF Followed
<1>1. CASE k \in 1 .. Len(s)
  <2>1. k < Len(s) /\ s[k + 1] = y
    BY <1>0, <1>1 DEF Followed
  <2>2. k + 1 \in 1 .. Len(s) /\ k < Len(s) + Len(t)
    BY <1>0, <1>1, <2>1
  <2> QED BY <1>0, <2>1, <2>2
<1>2. CASE k \notin 1 .. Len(s)
  <2> DEFINE i == k - Len(s)
  <2>1. i \in 1 .. Len(t) /\ Len(s) + i = k
    BY <1>0, <1>2
  <2>2. i < Len(t) /\ t[i + 1] = y
    BY <1>0, <2>1 DEF Followed
  <2>3. i + 1 \in 1 .. Len(t) /\ Len(s) + (i + 1) = k + 1 /\ k < Len(s) + Len(t)
    BY <1>0, <2>1, <2>2
  <2> QED BY <1>0, <2>2, <2>3
<1> QED BY <1>1, <1>2

\* Without the first of the two calls.
LEMMA FollowedNone ==
    ASSUME NEW s, NEW x, NEW y, ~ Has(s, x)
    PROVE  Followed(s, x, y)
BY DEF Followed, Has

\* A self-signed installation calls for the secret right after the webhook, and
\* for more after that: passing over both calls leaves one to go on with.
LEMMA SecretFollows ==
    ASSUME NEW f \in Flag, f.selfSigned,
           NEW k \in 1 .. Len(Calls(f)), Calls(f)[k] = "webhook"
    PROVE  Calls(f)[k + 1] = "secret" /\ k + 2 \in 1 .. Len(Calls(f))
<1> DEFINE o == <<"namespace">>
           d == <<"deleteWebhook">>
           w == WebhookCalls(f)
           a == Join(CRDCalls, o)
           b == Join(a, AccountCalls(f))
           c == Join(b, w)
           inst == Join(c, ManagerCalls)
           pre == Join(ManagerRemoval, d)
<1>1. ~ f.crdOnly /\ Has(Calls(f), "webhook")
  <2>1. Has(Calls(f), "webhook")
    BY DEF Has
  <2>2. "webhook" \in RemovalHas(f) \cup InstallationHas(f)
    BY <2>1, CommandCalls
  <2> QED BY <2>1, <2>2 DEF RemovalHas, InstallationHas, CRDs
<1>2. Installation(f) = inst
  BY <1>1 DEF Installation, Join
<1>3. Calls(f) = IF f.upgrade THEN Join(pre, inst) ELSE inst
  BY <1>2 DEF Calls, Upgrade, Join
<1>4. /\ CRDCalls \in Seq(Names) /\ o \in Seq(Names) /\ AccountCalls(f) \in Seq(Names)
      /\ w \in Seq(Names) /\ ManagerRemoval \in Seq(Names) /\ ManagerCalls \in Seq(Names)
      /\ d \in Seq(Names)
  BY Parts
<1>5. /\ ~ Has(CRDCalls, "webhook") /\ ~ Has(o, "webhook") /\ ~ Has(AccountCalls(f), "webhook")
      /\ ~ Has(ManagerRemoval, "webhook") /\ ~ Has(d, "webhook")
      /\ ~ Has(CRDCalls, "secret") /\ ~ Has(o, "secret") /\ ~ Has(AccountCalls(f), "secret")
      /\ ~ Has(ManagerRemoval, "secret") /\ ~ Has(d, "secret")
  BY PartsHave DEF CRDs
<1>6. Followed(w, "webhook", "secret")
  <2>1. Len(w) = 2 /\ w[1] = "webhook" /\ w[2] = "secret"
    <3>1. w = <<"webhook", "secret">>
      BY DEF WebhookCalls
    <3> HIDE DEF w
    <3> QED BY <3>1
  <2> HIDE DEF w
  <2> QED BY <2>1 DEF Followed
<1>7. ~ Has(ManagerCalls, "webhook") /\ ~ Has(ManagerCalls, "secret") /\ Len(ManagerCalls) \in Nat \ {0}
  <2> DEFINE rest == <<"createManager", "deleteService", "createService">>
  <2>1. rest \in Seq(Names) /\ Len(rest) = 3
    BY DEF Names
  <2>2. ManagerCalls = Join(ManagerRemoval, rest)
    BY DEF ManagerCalls, Join
  <2>3. ~ Has(rest, "webhook") /\ ~ Has(rest, "secret")
    BY PartsHave
  <2> HIDE DEF rest
  <2>4. Len(ManagerCalls) = Len(ManagerRemoval) + 3 /\ Len(ManagerRemoval) \in Nat
    <3>0. ManagerRemoval \in Seq(Names)
      BY <1>4
    <3>1. /\ Len(Join(ManagerRemoval, rest)) = Len(ManagerRemoval) + Len(rest)
          /\ Len(ManagerRemoval) \in Nat
      BY <2>1, <3>0, Elements
    <3> QED BY <2>1, <2>2, <3>1
  <2> QED BY <1>4, <1>5, <2>1, <2>2, <2>3, <2>4, Lacking
<1> HIDE DEF o, d, w
<1>8. a \in Seq(Names) /\ ~ Has(a, "webhook")
  BY <1>4, <1>5, Lacking
<1> HIDE DEF a
<1>9. b \in Seq(Names) /\ ~ Has(b, "webhook")
  BY <1>4, <1>5, <1>8, Lacking
<1> HIDE DEF b
<1>10. c \in Seq(Names) /\ Followed(c, "webhook", "secret")
  <2>1. Followed(b, "webhook", "secret")
    BY <1>9, FollowedNone
  <2> QED BY <1>4, <1>6, <1>9, <2>1, FollowedJoined, Elements
<1> HIDE DEF c
<1>11. inst \in Seq(Names) /\ Followed(inst, "webhook", "secret")
  <2>1. Followed(ManagerCalls, "webhook", "secret")
    BY <1>7, FollowedNone
  <2> QED BY <1>4, <1>10, <2>1, FollowedJoined, Elements
<1>12. ASSUME NEW j \in 1 .. Len(inst), inst[j] = "secret"
       PROVE  j < Len(inst)
  <2>1. /\ Len(inst) = Len(c) + Len(ManagerCalls) /\ Len(c) \in Nat
        /\ \A i \in 1 .. Len(ManagerCalls) : inst[Len(c) + i] = ManagerCalls[i]
    BY <1>4, <1>10, Elements
  <2>2. CASE j \in 1 .. Len(c)
    BY <1>7, <2>1, <2>2
  <2>3. CASE j \notin 1 .. Len(c)
    <3>1. j - Len(c) \in 1 .. Len(ManagerCalls) /\ Len(c) + (j - Len(c)) = j
      BY <1>7, <2>1, <2>3
    <3>2. inst[j] = ManagerCalls[j - Len(c)]
      BY <2>1, <3>1
    <3> QED BY <1>7, <1>12, <3>1, <3>2 DEF Has
  <2> QED BY <2>2, <2>3
<1> HIDE DEF inst
<1>13. pre \in Seq(Names) /\ ~ Has(pre, "webhook") /\ ~ Has(pre, "secret")
  BY <1>4, <1>5, Lacking
<1> HIDE DEF pre
<1>14. Calls(f) \in Seq(Names) /\ Followed(Calls(f), "webhook", "secret")
  <2>1. Followed(pre, "webhook", "secret")
    BY <1>13, FollowedNone
  <2>2. Join(pre, inst) \in Seq(Names) /\ Followed(Join(pre, inst), "webhook", "secret")
    BY <1>11, <1>13, <2>1, FollowedJoined, Elements
  <2> QED BY <1>3, <1>11, <2>2
<1>15. ASSUME NEW j \in 1 .. Len(Calls(f)), Calls(f)[j] = "secret"
       PROVE  j < Len(Calls(f))
  <2>1. CASE ~ f.upgrade
    <3>1. Calls(f) = inst
      BY <1>3, <2>1
    <3> QED BY <1>12, <1>15, <3>1
  <2>2. CASE f.upgrade
    <3>1. Calls(f) = Join(pre, inst)
      BY <1>3, <2>2
    <3>2. /\ Len(Calls(f)) = Len(pre) + Len(inst) /\ Len(pre) \in Nat /\ Len(inst) \in Nat
          /\ \A i \in 1 .. Len(pre) : Calls(f)[i] = pre[i]
          /\ \A i \in 1 .. Len(inst) : Calls(f)[Len(pre) + i] = inst[i]
      <4>1. /\ Len(Join(pre, inst)) = Len(pre) + Len(inst)
            /\ Len(pre) \in Nat /\ Len(inst) \in Nat
            /\ \A i \in 1 .. Len(pre) : Join(pre, inst)[i] = pre[i]
            /\ \A i \in 1 .. Len(inst) : Join(pre, inst)[Len(pre) + i] = inst[i]
        BY <1>11, <1>13, Elements
      <4> QED BY <3>1, <4>1
    <3>3. j \notin 1 .. Len(pre)
      <4> SUFFICES ASSUME j \in 1 .. Len(pre)
                   PROVE  FALSE
        OBVIOUS
      <4>1. pre[j] = "secret"
        BY <1>15, <3>2
      <4> QED BY <1>13, <4>1 DEF Has
    <3>4. j - Len(pre) \in 1 .. Len(inst) /\ Len(pre) + (j - Len(pre)) = j
      BY <3>2, <3>3
    <3>5. inst[j - Len(pre)] = "secret"
      BY <1>15, <3>2, <3>4
    <3>6. j - Len(pre) < Len(inst)
      BY <1>12, <3>4, <3>5
    <3> QED BY <3>2, <3>6
  <2> QED BY <2>1, <2>2
<1>16. Len(Calls(f)) \in Nat
  BY <1>14, LenProperties
<1>17. k < Len(Calls(f)) /\ Calls(f)[k + 1] = "secret"
  BY <1>14 DEF Followed
<1>18. k + 1 \in 1 .. Len(Calls(f))
  BY <1>16, <1>17
<1>19. k + 1 < Len(Calls(f))
  BY <1>15, <1>17, <1>18
<1> QED BY <1>16, <1>17, <1>19

(* ---------------------------- the invariant ---------------------------- *)

Typed ==
    /\ flags \in Flag
    /\ webhook \in WebhookType \cup {None}
    /\ manager \in [Namespaces -> ManagerType \cup {None}]

Position == at = "install" => n \in 1 .. Len(Calls(flags))

\* Once it has been called for, the webhook is there until the next command, or
\* its certificates have failed.
WebhookFirst ==
    at = "install" => \A k \in 1 .. n - 1 :
        Calls(flags)[k] = "webhook" /\ (flags.upgrade => k > 3)
            => webhook # None \/ flags.ns \in unguarded

\* An upgrade deletes the webhook when the manager has gone.
ManagerGoneFirst ==
    at = "install" /\ flags.upgrade /\ n = 3 => manager[flags.ns] = None

IInv == Typed /\ Position /\ WebhookFirst /\ ManagerGoneFirst /\ ManagerBehindWebhook

LEMMA ANewCA == NewCA \in SelfSignedCAs
<1> DEFINE fresh == {c \in SelfSignedCAs :
                        /\ webhook # None => webhook.ca # c
                        /\ \A ns \in Namespaces : secret[ns] # c}
<1>1. \E c \in SelfSignedCAs : fresh # {} => c \in fresh
  <2>1. CASE fresh = {}
    BY <2>1, KudoResourcesAssumption
  <2>2. CASE fresh # {}
    BY <2>2
  <2> QED BY <2>1, <2>2
<1>2. NewCA = CHOOSE c \in SelfSignedCAs : fresh # {} => c \in fresh
  BY DEF NewCA
<1> HIDE DEF fresh
<1> QED BY <1>1, <1>2

LEMMA FlagsTyped == Repair \in Flag /\ (\A f \in Flags : f \in Flag)
BY KudoInitAssumption

\* A command that ends leaves the invariant to the cluster.
LEMMA AfterEnd ==
    ASSUME IInv, NEW r, End(r), UNCHANGED <<webhook, manager, unguarded>>
    PROVE  IInv'
BY FlagsTyped DEF IInv, Typed, Position, WebhookFirst, ManagerGoneFirst, ManagerBehindWebhook, End

\* What a call has to take care of for the calls after it.
LEMMA CallDone ==
    ASSUME IInv, at = "install", Done,
           webhook' \in WebhookType \cup {None},
           manager' \in [Namespaces -> ManagerType \cup {None}],
           ManagerBehindWebhook',
           Calls(flags)[n] = "webhook" => webhook' # None,
           Calls(flags)[n] = "awaitManager" => manager'[flags.ns] = None,
           webhook # None => webhook' # None \/ (flags.upgrade /\ n = 3),
           flags.ns \in unguarded => webhook' # None \/ flags.ns \in unguarded'
    PROVE  IInv'
<1> DEFINE calls == Calls(flags)
<1>0. flags \in Flag /\ n \in 1 .. Len(calls)
  BY DEF IInv, Typed, Position
<1>1. Len(calls) \in Nat /\ (flags.upgrade => calls[2] = "awaitManager")
  BY <1>0, CallOrder
<1>2. CASE n < Len(calls) /\ n' = n + 1 /\ UNCHANGED <<flags, at>>
  <2>1. Typed' /\ Calls(flags)' = calls
    BY <1>0, <1>2 DEF Typed, Calls
  <2> HIDE DEF calls
  <2>2. Position'
    BY <1>0, <1>1, <1>2, <2>1 DEF Position, calls
  <2>3. ASSUME NEW k \in 1 .. n' - 1, calls[k] = "webhook", flags.upgrade => k > 3
        PROVE  webhook' # None \/ flags.ns \in unguarded'
    <3>1. CASE k = n
      BY <2>3, <3>1 DEF calls
    <3>2. CASE k # n
      <4>1. k \in 1 .. n - 1 /\ ~ (flags.upgrade /\ n = 3)
        BY <1>0, <1>1, <1>2, <2>3, <3>2
      <4>2. webhook # None \/ flags.ns \in unguarded
        BY <2>3, <4>1 DEF IInv, WebhookFirst, calls
      <4> QED BY <4>1, <4>2
    <3> QED BY <3>1, <3>2
  <2>4. WebhookFirst'
    BY <1>2, <2>1, <2>3 DEF WebhookFirst
  <2>5. ManagerGoneFirst'
    <3> SUFFICES ASSUME flags.upgrade, n' = 3
                 PROVE  manager'[flags.ns] = None
      BY <1>2 DEF ManagerGoneFirst
    <3>1. n = 2
      BY <1>0, <1>1, <1>2
    <3> QED BY <1>1, <3>1 DEF calls
  <2> QED BY <2>1, <2>2, <2>4, <2>5 DEF IInv
<1>3. CASE at' # "install" /\ flags' \in Flag
  BY <1>3 DEF IInv, Typed, Position, WebhookFirst, ManagerGoneFirst
<1> QED BY <1>0, <1>2, <1>3, FlagsTyped DEF Done

\* Most calls concern neither webhook nor manager.
LEMMA OtherCall ==
    ASSUME IInv, at = "install", Done, UNCHANGED <<webhook, manager, unguarded>>,
           Calls(flags)[n] \notin {"webhook", "awaitManager"}
    PROVE  IInv'
<1>1. ManagerBehindWebhook'
  BY DEF IInv, ManagerBehindWebhook
<1>2. webhook' \in WebhookType \cup {None} /\ manager' \in [Namespaces -> ManagerType \cup {None}]
  BY DEF IInv, Typed
<1> QED BY <1>1, <1>2, CallDone

\* The cluster changes managers and webhook, but starts and removes neither.
LEMMA ClusterStep ==
    ASSUME IInv, UNCHANGED <<at, flags, n, unguarded>>,
           webhook' \in WebhookType \cup {None},
           manager' \in [Namespaces -> ManagerType \cup {None}],
           webhook # None => webhook' # None,
           \A ns \in Namespaces : manager[ns] = None => manager'[ns] = None
    PROVE  IInv'
<1>1. Typed' /\ Calls(flags)' = Calls(flags)
  BY DEF IInv, Typed, Calls
<1>2. Position' /\ WebhookFirst'
  BY <1>1 DEF IInv, Position, WebhookFirst
<1>3. flags.ns \in Namespaces
  BY DEF IInv, Typed, Flag
<1>4. ManagerGoneFirst'
  BY <1>3 DEF IInv, ManagerGoneFirst
<1>5. ManagerBehindWebhook'
  BY DEF IInv, ManagerBehindWebhook
<1> QED BY <1>1, <1>2, <1>4, <1>5 DEF IInv

(* ------------------------------ every step ----------------------------- *)

\* An installation begins with its first call.
LEMMA ProceedStep == IInv /\ Proceed => IInv'
<1> SUFFICES ASSUME IInv, Proceed
             PROVE  IInv'
  OBVIOUS
<1>1. UNCHANGED <<webhook, manager, flags, unguarded>> /\ at' = "install" /\ n' = 1
  BY DEF Proceed, cluster, runtime
<1>2. Typed' /\ Calls(flags)' = Calls(flags)
  BY <1>1 DEF IInv, Typed, Calls
<1>3. Position'
  BY <1>1, <1>2, SomeCall DEF IInv, Typed, Position
<1>4. WebhookFirst' /\ ManagerGoneFirst'
  BY <1>1 DEF WebhookFirst, ManagerGoneFirst
<1>5. ManagerBehindWebhook'
  BY <1>1 DEF IInv, ManagerBehindWebhook
<1> QED BY <1>2, <1>3, <1>4, <1>5 DEF IInv

LEMMA EndingStep ==
    IInv /\ (VerifyExisting \/ Refuse \/ DryRun \/ CallRefused \/ InstallPanics
             \/ DeleteTimeout \/ WatchUntilReady \/ Interrupted) => IInv'
<1> USE DEF cluster, runtime
<1>1. ASSUME IInv, VerifyExisting
      PROVE  IInv'
  <2>1. PICK result \in BOOLEAN :
            End(IF VerifyInstallation(flags, result) /\ ~ VerifyPanics(flags)
                THEN "success" ELSE "error")
    BY <1>1 DEF VerifyExisting
  <2> QED BY <1>1, <2>1, AfterEnd DEF VerifyExisting
<1>2. ASSUME IInv, Refuse
      PROVE  IInv'
  BY <1>2, AfterEnd DEF Refuse
<1>3. ASSUME IInv, DryRun
      PROVE  IInv'
  <2>1. CASE End("success") /\ UNCHANGED unguarded
    BY <1>3, <2>1, AfterEnd DEF DryRun
  <2>2. CASE at' = "wait" /\ UNCHANGED <<flags, history>>
    BY <1>3, <2>2 DEF DryRun, history, IInv, Typed, Position, WebhookFirst, ManagerGoneFirst,
                      ManagerBehindWebhook
  <2> QED BY <1>3, <2>1, <2>2 DEF DryRun
<1>4. ASSUME IInv, CallRefused
      PROVE  IInv'
  BY <1>4, AfterEnd DEF CallRefused, Failed
<1>5. ASSUME IInv, InstallPanics
      PROVE  IInv'
  BY <1>5, AfterEnd DEF InstallPanics
<1>6. ASSUME IInv, DeleteTimeout
      PROVE  IInv'
  BY <1>6, AfterEnd DEF DeleteTimeout, Failed
<1>7. ASSUME IInv, WatchUntilReady
      PROVE  IInv'
  BY <1>7, AfterEnd DEF WatchUntilReady
<1>8. ASSUME IInv, Interrupted
      PROVE  IInv'
  BY <1>8, AfterEnd DEF Interrupted
<1> QED BY <1>1, <1>2, <1>3, <1>4, <1>5, <1>6, <1>7, <1>8

\* The calls for other objects.
LEMMA OtherCallStep ==
    IInv /\ ((\E c \in CRDs : ApplyCRD(c)) \/ InstallNamespace \/ InstallServiceAccount
             \/ InstallRoleBinding \/ InstallCerts \/ InstallWebhookSecret
             \/ UninstallService \/ InstallService) => IInv'
<1> USE DEF runtime, Call
<1>1. ASSUME IInv, NEW c \in CRDs, ApplyCRD(c)
      PROVE  IInv'
  BY <1>1, OtherCall DEF ApplyCRD, CRDs
<1>2. ASSUME IInv, InstallNamespace
      PROVE  IInv'
  BY <1>2, OtherCall DEF InstallNamespace
<1>3. ASSUME IInv, InstallServiceAccount
      PROVE  IInv'
  BY <1>3, OtherCall DEF InstallServiceAccount
<1>4. ASSUME IInv, InstallRoleBinding
      PROVE  IInv'
  BY <1>4, OtherCall DEF InstallRoleBinding
<1>5. ASSUME IInv, InstallCerts
      PROVE  IInv'
  BY <1>5, OtherCall DEF InstallCerts
<1>6. ASSUME IInv, InstallWebhookSecret
      PROVE  IInv'
  BY <1>6, OtherCall DEF InstallWebhookSecret
<1>7. ASSUME IInv, UninstallService
      PROVE  IInv'
  BY <1>7, OtherCall DEF UninstallService
<1>8. ASSUME IInv, InstallService
      PROVE  IInv'
  BY <1>8, OtherCall DEF InstallService
<1> QED BY <1>1, <1>2, <1>3, <1>4, <1>5, <1>6, <1>7, <1>8

\* What an installed webhook is.
LEMMA AWebhook ==
    ASSUME NEW f \in Flag, NEW c \in SelfSignedCAs \cup {None}
    PROVE  WebhookOf(f, c) \in WebhookType /\ WebhookOf(f, c) # None
<1>1. WebhookOf(f, c) \in WebhookType
  BY DEF WebhookOf, Webhook, WebhookType, Flag
<1> QED BY <1>1, KudoResourcesAssumption

LEMMA InstallWebhookStep == IInv /\ InstallAdmissionWebhook => IInv'
<1> SUFFICES ASSUME IInv, InstallAdmissionWebhook
             PROVE  IInv'
  OBVIOUS
<1>1. /\ at = "install" /\ Done /\ UNCHANGED manager
      /\ Calls(flags)[n] = "webhook"
      /\ ca' = (IF flags.selfSigned THEN NewCA ELSE None)
      /\ webhook' = IF webhook = None THEN WebhookOf(flags, ca') ELSE webhook
  BY DEF InstallAdmissionWebhook, Call, runtime
<1>2. ca' \in SelfSignedCAs \cup {None} /\ flags \in Flag
  BY <1>1, ANewCA DEF IInv, Typed
<1>3. webhook' \in WebhookType \cup {None} /\ webhook' # None
  BY <1>1, <1>2, AWebhook DEF IInv, Typed
<1>4. ManagerBehindWebhook'
  BY <1>3 DEF ManagerBehindWebhook
<1>5. manager' \in [Namespaces -> ManagerType \cup {None}]
  BY <1>1 DEF IInv, Typed
<1> QED BY <1>1, <1>3, <1>4, <1>5, CallDone

\* Without certificates the namespace counts as unguarded.
LEMMA NoCertificatesStep == IInv /\ NoCertificates => IInv'
<1> SUFFICES ASSUME IInv, NoCertificates
             PROVE  IInv'
  OBVIOUS
<1>1. /\ at = "install" /\ Calls(flags)[n] = "webhook" /\ flags.selfSigned
      /\ n' = n + Len(WebhookCalls(flags))
      /\ unguarded' = IF webhook = None THEN unguarded \cup {flags.ns} ELSE unguarded
      /\ UNCHANGED <<webhook, manager, flags, at>>
  BY DEF NoCertificates, Call, cluster, runtime
<1>2. n' = n + 2
  <2>1. Len(<<"webhook", "secret">>) = 2
    OBVIOUS
  <2> QED BY <1>1, <2>1 DEF WebhookCalls
<1>3. /\ flags \in Flag /\ n \in 1 .. Len(Calls(flags))
      /\ Calls(flags)[n + 1] = "secret" /\ n + 2 \in 1 .. Len(Calls(flags))
      /\ flags.upgrade => Calls(flags)[2] = "awaitManager"
  BY <1>1, SecretFollows, CallOrder DEF IInv, Typed, Position
<1>4. Typed' /\ Calls(flags)' = Calls(flags)
  BY <1>1 DEF IInv, Typed, Calls
<1>5. Position'
  BY <1>1, <1>2, <1>3, <1>4 DEF Position
<1>6. WebhookFirst'
  BY <1>1 DEF WebhookFirst
<1>7. ManagerGoneFirst'
  <2>1. ~ (flags.upgrade /\ n + 2 = 3)
    <3> SUFFICES ASSUME flags.upgrade, n + 2 = 3
                 PROVE  FALSE
      OBVIOUS
    <3>1. n + 1 = 2
      BY <1>3
    <3> QED BY <1>3, <3>1
  <2> QED BY <1>1, <1>2, <2>1 DEF ManagerGoneFirst
<1>8. ManagerBehindWebhook'
  BY <1>1 DEF IInv, ManagerBehindWebhook
<1> QED BY <1>4, <1>5, <1>6, <1>7, <1>8 DEF IInv

\* Where the webhook is deleted, the manager of this namespace has gone, and
\* those of other namespaces are exempt.
LEMMA UninstallWebhookStep == IInv /\ UninstallWebHook => IInv'
<1> SUFFICES ASSUME IInv, UninstallWebHook
             PROVE  IInv'
  OBVIOUS
<1>1. /\ at = "install" /\ Done /\ UNCHANGED manager
      /\ Calls(flags)[n] = "deleteWebhook" /\ webhook' = None
      /\ unguarded' = unguarded \cup {ns \in Namespaces \ {flags.ns} : manager[ns] # None}
  BY DEF UninstallWebHook, Call, runtime
<1>2. flags.upgrade /\ n = 3
  BY <1>1, CallOrder DEF IInv, Typed, Position
<1>3. manager[flags.ns] = None
  BY <1>1, <1>2 DEF IInv, ManagerGoneFirst
<1>4. ManagerBehindWebhook'
  BY <1>1, <1>3 DEF ManagerBehindWebhook
<1>5. /\ webhook' \in WebhookType \cup {None}
      /\ manager' \in [Namespaces -> ManagerType \cup {None}]
  BY <1>1 DEF IInv, Typed
<1> QED BY <1>1, <1>2, <1>4, <1>5, CallDone

LEMMA UninstallManagerStep == IInv /\ UninstallStatefulSet => IInv'
<1> SUFFICES ASSUME IInv, UninstallStatefulSet
             PROVE  IInv'
  OBVIOUS
<1>1. /\ at = "install" /\ Done /\ UNCHANGED <<webhook, unguarded>>
      /\ Calls(flags)[n] = "deleteManager"
      /\ manager' = [manager EXCEPT ![flags.ns] =
                        IF @ = None THEN None ELSE [@ EXCEPT !.deleting = TRUE]]
  BY DEF UninstallStatefulSet, Call, runtime
<1>2. /\ manager' \in [Namespaces -> ManagerType \cup {None}]
      /\ \A ns \in Namespaces : manager[ns] = None => manager'[ns] = None
  BY <1>1 DEF IInv, Typed, ManagerType, Flag
<1>3. ManagerBehindWebhook'
  BY <1>1, <1>2 DEF IInv, ManagerBehindWebhook
<1>4. webhook' \in WebhookType \cup {None}
  BY <1>1 DEF IInv, Typed
<1> QED BY <1>1, <1>2, <1>3, <1>4, CallDone

LEMMA WaitForDeleteStep == IInv /\ WaitForDelete => IInv'
<1> SUFFICES ASSUME IInv, WaitForDelete
             PROVE  IInv'
  OBVIOUS
<1>1. /\ at = "install" /\ Done /\ UNCHANGED <<webhook, manager, unguarded>>
      /\ Calls(flags)[n] = "awaitManager" /\ manager[flags.ns] = None
  BY DEF WaitForDelete, Call, cluster, runtime
<1>2. ManagerBehindWebhook'
  BY <1>1 DEF IInv, ManagerBehindWebhook
<1>3. /\ webhook' \in WebhookType \cup {None}
      /\ manager' \in [Namespaces -> ManagerType \cup {None}]
      /\ manager'[flags.ns] = None
  BY <1>1 DEF IInv, Typed
<1> QED BY <1>1, <1>2, <1>3, CallDone

\* Where the manager is created, the webhook has been called for.
LEMMA InstallManagerStep == IInv /\ InstallStatefulSet => IInv'
<1> SUFFICES ASSUME IInv, InstallStatefulSet
             PROVE  IInv'
  OBVIOUS
<1>1. /\ at = "install" /\ Done /\ UNCHANGED <<webhook, unguarded>>
      /\ Calls(flags)[n] = "createManager"
      /\ manager' = [manager EXCEPT ![flags.ns] = Manager(flags)]
  BY DEF InstallStatefulSet, Call, runtime
<1>2. flags \in Flag /\ n \in 1 .. Len(Calls(flags))
  BY <1>1 DEF IInv, Typed, Position
<1>3. \E j \in 1 .. n - 1 : Calls(flags)[j] = "webhook" /\ (flags.upgrade => j > 3)
  BY <1>1, <1>2, CallOrder
<1>4. webhook # None \/ flags.ns \in unguarded
  BY <1>1, <1>3 DEF IInv, WebhookFirst
<1>5. ManagerBehindWebhook'
  BY <1>1, <1>4 DEF IInv, ManagerBehindWebhook
<1>6. /\ webhook' \in WebhookType \cup {None}
      /\ manager' \in [Namespaces -> ManagerType \cup {None}]
  BY <1>1, <1>2 DEF IInv, Typed, Manager, ManagerType, Flag
<1> QED BY <1>1, <1>4, <1>5, <1>6, CallDone

LEMMA ClusterSteps == IInv /\ Cluster => IInv'
<1> SUFFICES ASSUME IInv, Cluster
             PROVE  IInv'
  OBVIOUS
<1>0. webhook \in WebhookType \cup {None} /\ manager \in [Namespaces -> ManagerType \cup {None}]
  BY DEF IInv, Typed
<1> USE DEF runtime, process, history
<1>1. CASE Establish
  BY <1>0, <1>1, ClusterStep DEF Establish
<1>2. CASE InjectCA
  <2>1. webhook # None /\ webhook' = [webhook EXCEPT !.ca = CertManagerCA]
    BY <1>2 DEF InjectCA
  <2>2. webhook' \in WebhookType
    BY <1>0, <2>1 DEF WebhookType
  <2>3. webhook' # None
    BY <2>2, KudoResourcesAssumption
  <2>4. UNCHANGED <<at, flags, n, unguarded, manager>>
    BY <1>2 DEF InjectCA
  <2> QED BY <1>0, <2>2, <2>3, <2>4, ClusterStep
<1>3. ASSUME NEW ns \in Namespaces, IssueCertificate(ns)
      PROVE  IInv'
  BY <1>0, <1>3, ClusterStep DEF IssueCertificate
<1>4. ASSUME NEW ns \in Namespaces, ManagerReady(ns)
      PROVE  IInv'
  <2>1. manager[ns] # None /\ manager' = [manager EXCEPT ![ns].ready = TRUE]
    BY <1>4 DEF ManagerReady
  <2>2. /\ manager' \in [Namespaces -> ManagerType \cup {None}]
        /\ \A o \in Namespaces : manager[o] = None => manager'[o] = None
    BY <1>0, <2>1 DEF ManagerType
  <2>3. UNCHANGED <<at, flags, n, unguarded, webhook>>
    BY <1>4 DEF ManagerReady
  <2> QED BY <1>0, <2>2, <2>3, ClusterStep
<1>5. ASSUME NEW ns \in Namespaces, ManagerGone(ns) \/ NamespaceGone(ns)
      PROVE  IInv'
  <2>1. manager' = [manager EXCEPT ![ns] = None]
    BY <1>5 DEF ManagerGone, NamespaceGone
  <2>2. /\ manager' \in [Namespaces -> ManagerType \cup {None}]
        /\ \A o \in Namespaces : manager[o] = None => manager'[o] = None
    BY <1>0, <2>1
  <2>3. UNCHANGED <<at, flags, n, unguarded, webhook>>
    BY <1>5 DEF ManagerGone, NamespaceGone
  <2> QED BY <1>0, <2>2, <2>3, ClusterStep
<1> QED BY <1>1, <1>2, <1>3, <1>4, <1>5 DEF Cluster

LEMMA UserSteps == IInv /\ Users => IInv'
<1> SUFFICES ASSUME IInv, Users
             PROVE  IInv'
  OBVIOUS
<1>0. webhook \in WebhookType \cup {None} /\ manager \in [Namespaces -> ManagerType \cup {None}]
  BY DEF IInv, Typed
<1> USE DEF runtime, process
<1>1. ASSUME NEW f \in Flags, Start(f)
      PROVE  IInv'
  <2>1. /\ flags' = f /\ f \in Flag /\ at' = "verify"
        /\ UNCHANGED <<webhook, manager, unguarded>>
    BY <1>1, FlagsTyped DEF Start, cluster, history
  <2> QED BY <2>1 DEF IInv, Typed, Position, WebhookFirst, ManagerGoneFirst, ManagerBehindWebhook
<1>2. CASE DeleteCRDs
  BY <1>0, <1>2, ClusterStep DEF DeleteCRDs, Edit
<1>3. ASSUME NEW ns \in Namespaces, CreateNamespace(ns) \/ DeleteNamespace(ns)
      PROVE  IInv'
  BY <1>0, <1>3, ClusterStep DEF CreateNamespace, DeleteNamespace, Edit
<1>4. ASSUME NEW a \in Namespaces \X Accounts, GrantAdmin(a)
      PROVE  IInv'
  BY <1>0, <1>4, ClusterStep DEF GrantAdmin, Edit
<1> QED BY <1>1, <1>2, <1>3, <1>4 DEF Users

(* ------------------------------- theorems ------------------------------ *)

LEMMA Initially == Init => IInv
<1> SUFFICES ASSUME Init
             PROVE  IInv
  OBVIOUS
<1>1. /\ flags = Repair /\ webhook = None /\ at = "idle"
      /\ manager = [ns \in Namespaces |-> None]
  BY DEF Init
<1> QED BY <1>1, FlagsTyped
        DEF IInv, Typed, Position, WebhookFirst, ManagerGoneFirst, ManagerBehindWebhook

LEMMA Inductive == IInv /\ [Next]_vars => IInv'
<1>1. ASSUME IInv, UNCHANGED vars
      PROVE  IInv'
  <2>1. UNCHANGED <<at, flags, n, unguarded, webhook, manager>>
    BY <1>1 DEF vars, cluster, runtime, process, history
  <2>2. webhook' \in WebhookType \cup {None} /\ manager' \in [Namespaces -> ManagerType \cup {None}]
    BY <1>1, <2>1 DEF IInv, Typed
  <2> QED BY <1>1, <2>1, <2>2, ClusterStep
<1>2. ASSUME IInv, Command
      PROVE  IInv'
  BY <1>2, EndingStep, ProceedStep, OtherCallStep, InstallWebhookStep, NoCertificatesStep,
     UninstallWebhookStep,
     UninstallManagerStep, WaitForDeleteStep, InstallManagerStep DEF Command
<1> QED BY <1>1, <1>2, EndingStep, ClusterSteps, UserSteps DEF Next

\* No command, wherever it is interrupted, and nothing that users and the
\* cluster do leaves a manager running without the admission webhook, with two
\* exceptions until the webhook is installed again: the managers of other
\* namespaces when an upgrade removes it, and the manager of an installation
\* whose self-signed certificates failed.
THEOREM ManagersBehindWebhook == Spec => []ManagerBehindWebhook
<1>1. IInv => ManagerBehindWebhook
  BY DEF IInv
<1> QED BY <1>1, Initially, Inductive, PTL DEF Spec

(* ------------------------ complete installations ----------------------- *)

\* Neither parts of another installation nor users have interfered.
Undisturbed == at = "install" /\ ~ leftover /\ ~ disturbed

ClusterTyped ==
    /\ crds \in [CRDs -> Versions \cup {None}]
    /\ namespace \in [Namespaces -> {"absent", "active", "terminating"}]
    /\ secret \in [Namespaces -> SelfSignedCAs \cup {CertManagerCA, None}]

Unreported == at \in {"verify", "install"} => report = "none"

\* The CA of the webhook is at hand for the secret.
CAHeld == at = "install" => (Calls(flags)[n] = "secret" => ca \in SelfSignedCAs)

\* The webhook is the one that this installation has made.
WebhookOwn ==
    Undisturbed /\ webhook # None /\ (flags.upgrade => n > 3) =>
        \E k \in 1 .. n - 1 : Calls(flags)[k] = "webhook"

\* What verification has found, and what nothing but users would change.
Admitted(f) ==
    /\ binding \in {None, Account(f)}
    /\ ~ f.crdOnly => /\ namespace[f.ns] # "terminating"
                      /\ IsDefaultAccount(f) \/ AccountValid(f)

\* What a call leaves behind.
Effect(f, x) ==
    /\ x \in CRDs => crds[x] = f.version
    /\ x = "namespace" => namespace[f.ns] = "active"
    /\ x = "serviceAccount" => AccountExists(f)
    /\ x = "roleBinding" => HasClusterAdmin(f)
    /\ x = "webhook" => webhook # None /\ webhook.ns = f.ns /\ webhook.inject = ~ f.selfSigned
    /\ x = "secret" => secret[f.ns] # None
    /\ x = "issuer" => f.ns \in issuer
    /\ x = "certificate" => f.ns \in certificate
    /\ x = "createManager" =>
          manager[f.ns] # None /\ manager[f.ns].version = f.version /\ ~ manager[f.ns].deleting
    /\ x = "createService" => f.ns \in service

\* Where its certificates failed, a command has called for neither.
PassedOver(x) == uncertified /\ x \in {"webhook", "secret"}

\* The calls before the next one have had their effects, and have them still.
Effective ==
    Undisturbed => /\ Admitted(flags)
                   /\ \A k \in 1 .. n - 1 :
                         PassedOver(Calls(flags)[k]) \/ Effect(flags, Calls(flags)[k])

CInv == IInv /\ ClusterTyped /\ Unreported /\ CAHeld /\ WebhookOwn /\ Effective

\* A call that takes back what another one does.
Undoes(x, y) ==
    \/ x = "deleteManager" /\ y = "createManager"
    \/ x = "deleteService" /\ y = "createService"
    \/ x = "deleteWebhook" /\ y = "webhook"

\* An installation that ends without an error leaves behind what it is about.
EndsComplete ==
    at = "install" /\ report' = "success" /\ ~ leftover /\ ~ disturbed
        => \A f \in Flags : f = flags =>
              /\ CRDsComplete(f)'
              /\ ~ f.crdOnly => /\ ManagerComplete(f)'
                                /\ ~ uncertified => WebhookComplete(f)'

\* The next call, and those before it.
LEMMA NextCall ==
    ASSUME IInv, at = "install"
    PROVE  /\ flags \in Flag /\ n \in 1 .. Len(Calls(flags)) /\ Len(Calls(flags)) \in Nat
           /\ Calls(flags)[n] \in RemovalHas(flags) \cup InstallationHas(flags)
           /\ \A k \in 1 .. n - 1 : ~ Undoes(Calls(flags)[n], Calls(flags)[k])
           /\ Calls(flags)[n] = "webhook" /\ flags.upgrade => n > 3
           /\ flags.upgrade /\ n = 3 => Calls(flags)[n] = "deleteWebhook"
           /\ \A k \in 1 .. Len(Calls(flags)) :
                 Calls(flags)[k] = "secret" => k > 1 /\ Calls(flags)[k - 1] = "webhook"
<1> DEFINE calls == Calls(flags)
<1>1. flags \in Flag /\ n \in 1 .. Len(calls)
  BY DEF IInv, Typed, Position
<1>2. /\ calls \in Seq(Names)
      /\ \A x : Has(calls, x) <=> x \in RemovalHas(flags) \cup InstallationHas(flags)
      /\ After(calls, "createManager", "deleteManager")
      /\ After(calls, "createService", "deleteService")
      /\ After(calls, "webhook", "deleteWebhook")
      /\ RightAfter(calls, "secret", "webhook")
  BY <1>1, CommandCalls
<1>3. \A k \in 1 .. Len(calls) : calls[k] = "deleteWebhook" => k = 3
  BY <1>1, CallOrder
<1> HIDE DEF calls
<1>4. Len(calls) \in Nat
  BY <1>2, LenProperties
<1>5. calls[n] \in RemovalHas(flags) \cup InstallationHas(flags)
  BY <1>1, <1>2 DEF Has
<1>6. ASSUME NEW k \in 1 .. n - 1
      PROVE  ~ Undoes(calls[n], calls[k])
  <2>1. k \in 1 .. Len(calls) /\ ~ (n < k)
    BY <1>1, <1>4
  <2> QED BY <1>1, <1>2, <2>1 DEF Undoes, After
<1>7. flags.upgrade => 3 \in 1 .. Len(calls) /\ calls[3] = "deleteWebhook"
  <2>1. flags.upgrade => Has(calls, "deleteWebhook")
    BY <1>2 DEF RemovalHas
  <2> QED BY <1>3, <2>1 DEF Has
<1>8. calls[n] = "webhook" /\ flags.upgrade => n > 3
  BY <1>1, <1>2, <1>4, <1>7 DEF After
<1> QED BY <1>1, <1>2, <1>4, <1>5, <1>6, <1>7, <1>8 DEF RightAfter, calls

\* With the effects of all calls an installation is complete.  Those for the
\* webhook and the secret are missing if they were passed over.
LEMMA AllEffects ==
    ASSUME NEW f \in Flag, ClusterTyped', Admitted(f)', NEW over \in BOOLEAN,
           \A k \in 1 .. Len(Calls(f)) :
              \/ over /\ Calls(f)[k] \in {"webhook", "secret"}
              \/ Effect(f, Calls(f)[k])'
    PROVE  /\ CRDsComplete(f)'
           /\ ~ f.crdOnly => ManagerComplete(f)' /\ (~ over => WebhookComplete(f)')
<1>1. \A x \in InstallationHas(f) : (over /\ x \in {"webhook", "secret"}) \/ Effect(f, x)'
  <2>1. \A x \in InstallationHas(f) : \E k \in 1 .. Len(Calls(f)) : Calls(f)[k] = x
    BY CommandCalls DEF Has
  <2> QED BY <2>1
<1>2. CRDsComplete(f)'
  <2>1. \A c \in CRDs : c \in InstallationHas(f) /\ c \notin {"webhook", "secret"}
    BY DEF InstallationHas, CRDs
  <2>2. \A c \in CRDs : crds'[c] = f.version
    BY <1>1, <2>1 DEF Effect
  <2> QED BY <2>2 DEF ClusterTyped, CRDsComplete
<1>3. ASSUME ~ f.crdOnly
      PROVE  ManagerComplete(f)' /\ (~ over => WebhookComplete(f)')
  <2>1. /\ {"namespace", "webhook", "createManager", "createService"} \subseteq InstallationHas(f)
        /\ IsDefaultAccount(f) => {"serviceAccount", "roleBinding"} \subseteq InstallationHas(f)
        /\ f.selfSigned => "secret" \in InstallationHas(f)
        /\ ~ f.selfSigned => {"issuer", "certificate"} \subseteq InstallationHas(f)
    BY <1>3 DEF InstallationHas
  <2>2. AccountValid(f)'
    <3>1. CASE IsDefaultAccount(f)
      <4>1. AccountExists(f)' /\ HasClusterAdmin(f)'
        BY <1>1, <2>1, <3>1 DEF Effect
      <4> QED BY <4>1 DEF AccountValid
    <3>2. CASE ~ IsDefaultAccount(f)
      BY <1>3, <3>2 DEF Admitted
    <3> QED BY <3>1, <3>2
  <2>3. namespace'[f.ns] = "active"
    BY <1>1, <2>1 DEF Effect
  <2>4. ASSUME ~ over
        PROVE  WebhookComplete(f)'
    <3>1. webhook' # None /\ webhook'.ns = f.ns /\ webhook'.inject = ~ f.selfSigned
      BY <1>1, <2>1, <2>4 DEF Effect
    <3>2. IF f.selfSigned THEN secret'[f.ns] # None ELSE f.ns \in issuer' /\ f.ns \in certificate'
      BY <1>1, <2>1, <2>4 DEF Effect
    <3> QED BY <3>1, <3>2 DEF WebhookComplete
  <2>5. /\ manager'[f.ns] # None
        /\ manager'[f.ns].version = f.version /\ ~ manager'[f.ns].deleting
    BY <1>1, <2>1 DEF Effect
  <2>6. f.ns \in service'
    BY <1>1, <2>1 DEF Effect
  <2> QED BY <2>2, <2>3, <2>4, <2>5, <2>6 DEF ManagerComplete
<1> QED BY <1>2, <1>3

\* What a call has to take care of: it has its effect, takes back only what it
\* has to, and keeps what verification has found.
LEMMA CallEffective ==
    ASSUME CInv, IInv', ClusterTyped', at = "install", Done,
           NEW f \in Flag, f = flags, NEW call, call = Calls(f)[n],
           Undisturbed => PassedOver(call) \/ Effect(f, call)',
           \A x : ~ Undoes(call, x) /\ Effect(f, x) => Effect(f, x)',
           Admitted(f) => Admitted(f)',
           call = "webhook" /\ f.selfSigned => ca' \in SelfSignedCAs,
           call = "deleteWebhook" => webhook' = None,
           webhook' # None => webhook # None \/ call = "webhook"
    PROVE  CInv' /\ EndsComplete
<1> DEFINE calls == Calls(f)
<1>1. /\ IInv /\ WebhookOwn /\ Effective
      /\ n \in 1 .. Len(calls) /\ Len(calls) \in Nat
      /\ \A k \in 1 .. n - 1 : ~ Undoes(calls[n], calls[k])
      /\ flags.upgrade /\ n = 3 => calls[n] = "deleteWebhook"
      /\ \A k \in 1 .. Len(calls) : calls[k] = "secret" => k > 1 /\ calls[k - 1] = "webhook"
  BY NextCall DEF CInv
<1>2. Undisturbed => \A k \in 1 .. n : PassedOver(calls[k]) \/ Effect(f, calls[k])'
  <2> SUFFICES ASSUME Undisturbed, NEW k \in 1 .. n
               PROVE  PassedOver(calls[k]) \/ Effect(f, calls[k])'
    OBVIOUS
  <2>1. CASE k = n
    <3>1. calls[k] = call
      BY <2>1
    <3> QED BY <3>1
  <2>2. CASE k # n
    <3>1. k \in 1 .. n - 1
      BY <1>1, <2>2
    <3>2. PassedOver(calls[k]) \/ Effect(f, calls[k])
      BY <1>1, <3>1 DEF Effective
    <3>3. ~ Undoes(calls[n], calls[k])
      BY <1>1, <3>1
    <3> QED BY <3>2, <3>3
  <2> QED BY <2>1, <2>2
<1>3. Undisturbed => Admitted(f)'
  BY <1>1 DEF Effective
<1>4. Unreported /\ at = "install" /\ report = "none"
  BY DEF CInv, Unreported
<1>5. CASE n < Len(calls) /\ n' = n + 1 /\ UNCHANGED <<flags, at, report, leftover, uncertified, disturbed>>
  <2>1. Calls(flags)' = calls /\ (Undisturbed' <=> Undisturbed)
    BY <1>5 DEF Undisturbed, Calls
  <2>2. \A k \in 1 .. n' - 1 : k \in 1 .. n
    BY <1>1, <1>5
  <2>3. Effective'
    BY <1>2, <1>3, <1>5, <2>1, <2>2 DEF Effective, PassedOver
  <2>4. WebhookOwn'
    <3> SUFFICES ASSUME Undisturbed, webhook' # None, f.upgrade => n + 1 > 3
                 PROVE  \E k \in 1 .. n' - 1 : calls[k] = "webhook"
      BY <1>5, <2>1 DEF WebhookOwn
    <3>1. CASE calls[n] = "webhook"
      <4>1. n \in 1 .. n' - 1
        BY <1>1, <1>5
      <4> QED BY <3>1, <4>1
    <3>2. CASE calls[n] # "webhook"
      <4>1. webhook # None
        BY <3>2
      <4>2. ~ (f.upgrade /\ n = 3)
        BY <1>1
      <4>3. f.upgrade => n > 3
        BY <1>1, <4>2
      <4>4. PICK k \in 1 .. n - 1 : calls[k] = "webhook"
        BY <1>1, <4>1, <4>3 DEF WebhookOwn
      <4>5. k \in 1 .. n' - 1
        BY <1>1, <1>5
      <4> QED BY <4>4, <4>5
    <3> QED BY <3>1, <3>2
  <2>5. CAHeld'
    <3> SUFFICES ASSUME calls[n + 1] = "secret"
                 PROVE  ca' \in SelfSignedCAs
      BY <1>5, <2>1 DEF CAHeld
    <3>1. n + 1 \in 1 .. Len(calls) /\ (n + 1) - 1 = n
      BY <1>1, <1>5
    <3>2. calls[n] = "webhook"
      BY <1>1, <3>1
    <3>3. f.selfSigned
      <4>1. "secret" \in RemovalHas(f) \cup InstallationHas(f)
        BY <3>1, CommandCalls DEF Has
      <4> QED BY <4>1 DEF RemovalHas, InstallationHas, CRDs
    <3> QED BY <3>2, <3>3
  <2>6. Unreported' /\ EndsComplete
    BY <1>4, <1>5 DEF Unreported, EndsComplete
  <2> QED BY <2>3, <2>4, <2>5, <2>6 DEF CInv
<1>6. CASE n = Len(calls) /\ at' \notin {"verify", "install"}
  <2>1. Unreported' /\ CAHeld' /\ WebhookOwn' /\ Effective'
    BY <1>6 DEF Unreported, CAHeld, WebhookOwn, Effective, Undisturbed
  <2>2. Undisturbed => /\ CRDsComplete(f)'
                       /\ ~ f.crdOnly => /\ ManagerComplete(f)'
                                         /\ ~ uncertified => WebhookComplete(f)'
    <3> DEFINE over == uncertified = TRUE
    <3>1. Undisturbed => \A k \in 1 .. Len(calls) :
             (over /\ calls[k] \in {"webhook", "secret"}) \/ Effect(f, calls[k])'
      BY <1>2, <1>6 DEF PassedOver
    <3> QED BY <1>3, <3>1, AllEffects
  <2>3. EndsComplete
    BY <2>2 DEF EndsComplete, Undisturbed
  <2> QED BY <2>1, <2>3 DEF CInv
<1>7. \/ n < Len(calls) /\ n' = n + 1 /\ UNCHANGED <<flags, at, report, leftover, uncertified, disturbed>>
      \/ n = Len(calls) /\ at' \notin {"verify", "install"}
  BY DEF Done
<1> HIDE DEF calls
<1> QED BY <1>5, <1>6, <1>7

\* A step that is not one of the command itself.
LEMMA OthersEffective ==
    ASSUME CInv, IInv', ClusterTyped', UNCHANGED <<at, flags, n, ca, report>>,
           NEW f \in Flag, f = flags,
           \/ disturbed' = (at = "install")
           \/ /\ UNCHANGED <<leftover, uncertified, disturbed>>
              /\ \A x \in RemovalHas(f) \cup InstallationHas(f) :
                    Admitted(f) /\ Effect(f, x) => Effect(f, x)'
              /\ Admitted(f) => Admitted(f)'
              /\ webhook' # None => webhook # None
    PROVE  CInv' /\ EndsComplete
<1>1. CAHeld /\ Unreported /\ WebhookOwn /\ Effective /\ Calls(flags)' = Calls(flags)
  BY DEF CInv, Calls
<1>2. CAHeld' /\ Unreported'
  BY <1>1 DEF CAHeld, Unreported
<1>3. CASE disturbed' = (at = "install")
  <2>1. ~ Undisturbed'
    BY <1>3 DEF Undisturbed
  <2> QED BY <1>1, <1>2, <2>1 DEF CInv, WebhookOwn, Effective, EndsComplete, Unreported
<1>4. CASE /\ UNCHANGED <<leftover, uncertified, disturbed>>
           /\ \A x \in RemovalHas(f) \cup InstallationHas(f) :
                 Admitted(f) /\ Effect(f, x) => Effect(f, x)'
           /\ Admitted(f) => Admitted(f)'
           /\ webhook' # None => webhook # None
  <2>1. Undisturbed' <=> Undisturbed
    BY <1>4 DEF Undisturbed
  <2>2. WebhookOwn'
    BY <1>1, <1>4, <2>1 DEF WebhookOwn
  <2>3. Effective'
    <3>1. at = "install" =>
             \A k \in 1 .. n - 1 : Calls(f)[k] \in RemovalHas(f) \cup InstallationHas(f)
      <4> SUFFICES ASSUME at = "install", NEW k \in 1 .. n - 1
                   PROVE  Calls(f)[k] \in RemovalHas(f) \cup InstallationHas(f)
        OBVIOUS
      <4>1. n \in 1 .. Len(Calls(f)) /\ Len(Calls(f)) \in Nat
        BY NextCall DEF CInv
      <4>2. k \in 1 .. Len(Calls(f))
        BY <4>1
      <4> QED BY <4>2, CommandCalls DEF Has
    <3> QED BY <1>1, <1>4, <2>1, <3>1 DEF Effective, Undisturbed, PassedOver
  <2>4. EndsComplete
    BY <1>1 DEF EndsComplete, Unreported
  <2> QED BY <1>2, <2>2, <2>3, <2>4 DEF CInv
<1> QED BY <1>3, <1>4

\* A command that ends without one more call.
LEMMA EndEffective ==
    ASSUME CInv, IInv', UNCHANGED cluster, at' \in {"idle", "wait"},
           at = "install" => report' # "success"
    PROVE  CInv' /\ EndsComplete
BY DEF CInv, cluster, prereqs, certmgr, ClusterTyped, Unreported, CAHeld, WebhookOwn,
       Effective, Undisturbed, EndsComplete

\* Each call has its effect, and keeps those of the calls before it.
LEMMA CallsEffective ==
    ASSUME CInv, IInv',
           \/ \E c \in CRDs : ApplyCRD(c)
           \/ InstallNamespace \/ InstallServiceAccount \/ InstallRoleBinding
           \/ InstallCerts \/ InstallWebhookSecret \/ WaitForDelete
           \/ UninstallService \/ InstallService
    PROVE  CInv' /\ EndsComplete
<1> USE DEF prereqs, certmgr, runtime, cluster
<1>0. /\ ClusterTyped /\ flags \in Flag /\ flags.ns \in Namespaces
      /\ IInv /\ CAHeld /\ Effective
  BY DEF CInv, IInv, Typed, Flag
<1> SUFFICES ASSUME NEW f \in Flag, f = flags, NEW call, call = Calls(f)[n]
             PROVE  CInv' /\ EndsComplete
  BY <1>0
<1>1. ASSUME NEW c \in CRDs, ApplyCRD(c)
      PROVE  CInv' /\ EndsComplete
  <2>1. at = "install" /\ Done /\ call = c /\ crds' = [crds EXCEPT ![c] = flags.version]
    BY <1>1 DEF ApplyCRD, Call
  <2>2. UNCHANGED <<namespace, accounts, admins, binding, issuer, certificate, secret,
                    webhook, manager, service>>
    BY <1>1 DEF ApplyCRD
  <2>3. ClusterTyped' /\ crds'[c] = f.version /\ \A d \in CRDs \ {c} : crds'[d] = crds[d]
    BY <1>0, <2>1, <2>2 DEF ClusterTyped, Flag
  <2>4. \A x : Effect(f, x) => Effect(f, x)'
    BY <2>2, <2>3 DEF Effect, AccountExists, HasClusterAdmin, Account
  <2>5. Effect(f, call)'
    BY <2>1, <2>3 DEF Effect, CRDs
  <2>6. Admitted(f) => Admitted(f)'
    BY <2>2 DEF Admitted, AccountValid, AccountExists, HasClusterAdmin, Account
  <2>7. call # "webhook" /\ call # "deleteWebhook"
    BY <2>1 DEF CRDs
  <2> QED BY <2>1, <2>2, <2>3, <2>4, <2>5, <2>6, <2>7, CallEffective
<1>2. ASSUME InstallNamespace
      PROVE  CInv' /\ EndsComplete
  <2>1. /\ at = "install" /\ Done /\ call = "namespace"
        /\ namespace' = [namespace EXCEPT ![f.ns] = IF @ = "absent" THEN "active" ELSE @]
        /\ UNCHANGED <<crds, accounts, admins, binding, issuer, certificate, secret,
                       webhook, manager, service>>
    BY <1>2 DEF InstallNamespace, Call
  <2>2. /\ ClusterTyped'
        /\ namespace[f.ns] # "terminating" => namespace'[f.ns] = "active"
        /\ namespace[f.ns] = "active" => namespace'[f.ns] = "active"
        /\ namespace'[f.ns] = "terminating" => namespace[f.ns] = "terminating"
    BY <1>0, <2>1 DEF ClusterTyped
  <2>3. \A x : Effect(f, x) => Effect(f, x)'
    BY <2>1, <2>2 DEF Effect, AccountExists, HasClusterAdmin, Account
  <2>4. ~ f.crdOnly
    <3>1. "namespace" \in RemovalHas(f) \cup InstallationHas(f)
      BY <1>0, <2>1, NextCall
    <3> QED BY <3>1 DEF RemovalHas, InstallationHas, CRDs
  <2>5. Undisturbed => Effect(f, call)'
    <3>1. Undisturbed => namespace[f.ns] # "terminating"
      BY <1>0, <2>4 DEF Effective, Admitted
    <3> QED BY <2>1, <2>2, <3>1 DEF Effect, CRDs
  <2>6. Admitted(f) => Admitted(f)'
    BY <2>1, <2>2 DEF Admitted, AccountValid, AccountExists, HasClusterAdmin, Account
  <2> QED BY <2>1, <2>2, <2>3, <2>5, <2>6, CallEffective
<1>3. ASSUME InstallServiceAccount \/ InstallRoleBinding
      PROVE  CInv' /\ EndsComplete
  <2>1. /\ at = "install" /\ Done
        /\ UNCHANGED <<crds, namespace, admins, issuer, certificate, secret,
                       webhook, manager, service>>
        /\ \/ call = "serviceAccount" /\ accounts' = accounts \cup {Account(f)} /\ UNCHANGED binding
           \/ /\ call = "roleBinding" /\ UNCHANGED accounts
              /\ binding' = IF binding = None THEN Account(f) ELSE binding
    BY <1>3 DEF InstallServiceAccount, InstallRoleBinding, Call, Account
  <2>2. ClusterTyped'
    BY <1>0, <2>1 DEF ClusterTyped
  <2>3. Account(f)' = Account(f)
    BY DEF Account
  <2>4. /\ AccountExists(f) => AccountExists(f)'
        /\ HasClusterAdmin(f) => HasClusterAdmin(f)'
        /\ call = "serviceAccount" => AccountExists(f)'
        /\ call = "roleBinding" /\ binding \in {None, Account(f)} => HasClusterAdmin(f)'
        /\ binding \in {None, Account(f)} => binding' \in {None, Account(f)}
    <3>1. CASE call = "serviceAccount" /\ accounts' = accounts \cup {Account(f)} /\ UNCHANGED binding
      BY <2>1, <2>3, <3>1 DEF AccountExists, HasClusterAdmin
    <3>2. CASE /\ call = "roleBinding" /\ UNCHANGED accounts
               /\ binding' = IF binding = None THEN Account(f) ELSE binding
      BY <2>1, <2>3, <3>2 DEF AccountExists, HasClusterAdmin
    <3> QED BY <2>1, <3>1, <3>2
  <2>5. \A x : Effect(f, x) => Effect(f, x)'
    BY <2>1, <2>4 DEF Effect
  <2>6. Undisturbed => binding \in {None, Account(f)}
    BY <1>0 DEF Effective, Admitted
  <2>7. Undisturbed => Effect(f, call)'
    BY <2>1, <2>4, <2>6 DEF Effect, CRDs
  <2>8. Admitted(f) => Admitted(f)'
    BY <2>1, <2>3, <2>4 DEF Admitted, AccountValid
  <2> QED BY <2>1, <2>2, <2>5, <2>7, <2>8, CallEffective
<1>4. ASSUME InstallCerts
      PROVE  CInv' /\ EndsComplete
  <2>1. /\ at = "install" /\ Done
        /\ UNCHANGED <<crds, namespace, accounts, admins, binding, secret, webhook, manager, service>>
        /\ issuer \subseteq issuer' /\ certificate \subseteq certificate'
        /\ \/ call = "issuer" /\ f.ns \in issuer'
           \/ call = "certificate" /\ f.ns \in certificate'
    BY <1>4 DEF InstallCerts, Call
  <2>2. ClusterTyped'
    BY <1>0, <2>1 DEF ClusterTyped
  <2>3. \A x : Effect(f, x) => Effect(f, x)'
    BY <2>1 DEF Effect, AccountExists, HasClusterAdmin, Account
  <2>4. Effect(f, call)'
    BY <2>1 DEF Effect, CRDs
  <2>5. Admitted(f) => Admitted(f)'
    BY <2>1 DEF Admitted, AccountValid, AccountExists, HasClusterAdmin, Account
  <2> QED BY <2>1, <2>2, <2>3, <2>4, <2>5, CallEffective
<1>5. ASSUME InstallWebhookSecret
      PROVE  CInv' /\ EndsComplete
  <2>1. /\ at = "install" /\ Done /\ call = "secret"
        /\ UNCHANGED <<crds, namespace, accounts, admins, binding, issuer, certificate,
                       webhook, manager, service>>
        /\ secret' = [secret EXCEPT ![f.ns] = IF @ = None THEN ca ELSE @]
    BY <1>5 DEF InstallWebhookSecret, Call
  <2>2. ca \in SelfSignedCAs /\ ca # None
    BY <1>0, <2>1, KudoResourcesAssumption DEF CAHeld
  <2>3. ClusterTyped' /\ secret'[f.ns] # None
    BY <1>0, <2>1, <2>2 DEF ClusterTyped
  <2>4. \A x : Effect(f, x) => Effect(f, x)'
    BY <2>1, <2>3 DEF Effect, AccountExists, HasClusterAdmin, Account
  <2>5. Effect(f, call)'
    BY <2>1, <2>3 DEF Effect, CRDs
  <2>6. Admitted(f) => Admitted(f)'
    BY <2>1 DEF Admitted, AccountValid, AccountExists, HasClusterAdmin, Account
  <2> QED BY <2>1, <2>3, <2>4, <2>5, <2>6, CallEffective
<1>6. ASSUME WaitForDelete \/ UninstallService \/ InstallService
      PROVE  CInv' /\ EndsComplete
  <2>1. /\ at = "install" /\ Done
        /\ UNCHANGED <<crds, namespace, accounts, admins, binding, issuer, certificate, secret,
                       webhook, manager>>
        /\ \/ call = "awaitManager" /\ UNCHANGED service
           \/ call = "deleteService"
           \/ call = "createService" /\ service' = service \cup {f.ns}
    BY <1>6 DEF WaitForDelete, UninstallService, InstallService, Call
  <2>2. ClusterTyped'
    BY <1>0, <2>1 DEF ClusterTyped
  <2>3. \A x : ~ Undoes(call, x) /\ Effect(f, x) => Effect(f, x)'
    BY <2>1 DEF Effect, AccountExists, HasClusterAdmin, Account, Undoes
  <2>4. Effect(f, call)'
    BY <2>1 DEF Effect, CRDs
  <2>5. Admitted(f) => Admitted(f)'
    BY <2>1 DEF Admitted, AccountValid, AccountExists, HasClusterAdmin, Account
  <2> QED BY <2>1, <2>2, <2>3, <2>4, <2>5, CallEffective
<1> QED BY <1>1, <1>2, <1>3, <1>4, <1>5, <1>6

\* The webhook: it is there already only if this installation has made it.
LEMMA WebhookEffective ==
    ASSUME CInv, IInv', InstallAdmissionWebhook \/ UninstallWebHook
    PROVE  CInv' /\ EndsComplete
<1> USE DEF prereqs, certmgr, runtime
<1>0. /\ ClusterTyped /\ flags \in Flag
      /\ IInv /\ WebhookOwn /\ Effective
  BY DEF CInv, IInv, Typed
<1> SUFFICES ASSUME NEW f \in Flag, f = flags, NEW call, call = Calls(f)[n]
             PROVE  CInv' /\ EndsComplete
  BY <1>0
<1>1. /\ at = "install" /\ Done
      /\ UNCHANGED <<crds, namespace, accounts, admins, binding, issuer, certificate, secret,
                     manager, service>>
      /\ \/ /\ call = "webhook" /\ ca' = (IF f.selfSigned THEN NewCA ELSE None)
            /\ webhook' = IF webhook = None THEN WebhookOf(f, ca') ELSE webhook
         \/ call = "deleteWebhook" /\ webhook' = None
  BY DEF InstallAdmissionWebhook, UninstallWebHook, Call
<1>2. ClusterTyped'
  BY <1>0, <1>1 DEF ClusterTyped
<1>3. Admitted(f) => Admitted(f)'
  BY <1>1 DEF Admitted, AccountValid, AccountExists, HasClusterAdmin, Account
<1>4. \A x : ~ Undoes(call, x) /\ Effect(f, x) => Effect(f, x)'
  BY <1>1 DEF Effect, AccountExists, HasClusterAdmin, Account, Undoes
<1>5. CASE call = "deleteWebhook"
  <2>1. Effect(f, call)'
    BY <1>5 DEF Effect, CRDs
  <2> QED BY <1>1, <1>2, <1>3, <1>4, <1>5, <2>1, CallEffective
<1>6. CASE call = "webhook"
  <2>1. f.selfSigned => ca' \in SelfSignedCAs
    BY <1>1, <1>6, ANewCA
  <2>2. ASSUME Undisturbed, ~ PassedOver("webhook")
        PROVE  webhook' # None /\ webhook'.ns = f.ns /\ webhook'.inject = ~ f.selfSigned
    <3>1. CASE webhook = None
      <4>1. webhook' = WebhookOf(f, ca') /\ ca' \in SelfSignedCAs \cup {None}
        BY <1>1, <1>6, <2>1, <3>1
      <4>2. webhook' # None
        BY <4>1, AWebhook
      <4> QED BY <4>1, <4>2 DEF WebhookOf, Webhook, Flag
    <3>2. CASE webhook # None
      <4>1. f.upgrade => n > 3
        BY <1>0, <1>1, <1>6, NextCall
      <4>2. \E k \in 1 .. n - 1 : Calls(f)[k] = "webhook"
        BY <1>0, <2>2, <3>2, <4>1 DEF WebhookOwn
      <4>3. Effect(f, "webhook")
        BY <1>0, <2>2, <3>2, <4>2 DEF Effective, PassedOver
      <4> QED BY <1>1, <1>6, <3>2, <4>3 DEF Effect
    <3> QED BY <3>1, <3>2
  <2>3. Undisturbed => PassedOver(call) \/ Effect(f, call)'
    BY <1>6, <2>2 DEF Effect, CRDs
  <2> QED BY <1>1, <1>2, <1>3, <1>4, <1>6, <2>1, <2>3, CallEffective
<1> QED BY <1>1, <1>5, <1>6

\* Without certificates both calls are passed over.
LEMMA NoCertificatesEffective ==
    ASSUME CInv, IInv', NoCertificates
    PROVE  CInv' /\ EndsComplete
<1> USE DEF prereqs, certmgr, runtime, cluster
<1>0. /\ ClusterTyped /\ Unreported /\ Effective /\ flags \in Flag
      /\ IInv
  BY DEF CInv, IInv, Typed
<1>1. /\ at = "install" /\ Calls(flags)[n] = "webhook" /\ flags.selfSigned
      /\ n' = n + Len(WebhookCalls(flags)) /\ uncertified'
      /\ UNCHANGED <<crds, namespace, accounts, admins, binding, issuer, certificate, secret,
                     webhook, manager, service, flags, at, report, leftover, disturbed>>
  BY DEF NoCertificates, Call
<1>2. n' = n + 2
  <2>1. Len(<<"webhook", "secret">>) = 2
    OBVIOUS
  <2> QED BY <1>1, <2>1 DEF WebhookCalls
<1>3. /\ n \in 1 .. Len(Calls(flags))
      /\ Calls(flags)[n + 1] = "secret" /\ n + 2 \in 1 .. Len(Calls(flags))
      /\ \A k \in 1 .. Len(Calls(flags)) :
            Calls(flags)[k] = "secret" => Calls(flags)[k - 1] = "webhook"
  BY <1>0, <1>1, SecretFollows, NextCall
<1>4. Calls(flags)' = Calls(flags) /\ (Undisturbed' <=> Undisturbed)
  BY <1>1 DEF Undisturbed, Calls
<1>5. ClusterTyped'
  BY <1>0, <1>1 DEF ClusterTyped
<1>6. Unreported' /\ EndsComplete
  BY <1>0, <1>1 DEF Unreported, EndsComplete
<1>7. CAHeld'
  <2>1. Calls(flags)[n + 2] = "secret" => Calls(flags)[(n + 2) - 1] = "webhook"
    BY <1>3
  <2>2. (n + 2) - 1 = n + 1
    BY <1>3
  <2> QED BY <1>1, <1>2, <1>3, <1>4, <2>1, <2>2 DEF CAHeld
<1>8. WebhookOwn'
  <2>1. n \in 1 .. n' - 1
    BY <1>2, <1>3
  <2> QED BY <1>1, <1>4, <2>1 DEF WebhookOwn
<1>9. Effective'
  <2>1. \A k \in 1 .. n' - 1 : k \in 1 .. n - 1 \/ k = n \/ k = n + 1
    BY <1>2, <1>3
  <2>2. Admitted(flags) => Admitted(flags)'
    BY <1>1 DEF Admitted, AccountValid, AccountExists, HasClusterAdmin, Account, IsDefaultAccount
  <2>3. \A x : Effect(flags, x) => Effect(flags, x)'
    BY <1>1 DEF Effect, AccountExists, HasClusterAdmin, Account
  <2>4. \A x : PassedOver(x) => PassedOver(x)'
    BY <1>1 DEF PassedOver
  <2>5. PassedOver("webhook")' /\ PassedOver("secret")'
    BY <1>1 DEF PassedOver
  <2>6. ASSUME Undisturbed, NEW k \in 1 .. n' - 1
        PROVE  PassedOver(Calls(flags)[k])' \/ Effect(flags, Calls(flags)[k])'
    <3>1. CASE k \in 1 .. n - 1
      <4>1. PassedOver(Calls(flags)[k]) \/ Effect(flags, Calls(flags)[k])
        BY <1>0, <2>6, <3>1 DEF Effective
      <4>2. Calls(flags)'[k] = Calls(flags)[k]
        BY <1>4
      <4> QED BY <1>1, <2>3, <2>4, <4>1, <4>2
    <3>2. CASE k = n \/ k = n + 1
      <4>1. Calls(flags)[k] \in {"webhook", "secret"}
        BY <1>1, <1>3, <3>2
      <4> QED BY <1>4, <2>5, <4>1
    <3> QED BY <2>1, <3>1, <3>2
  <2> QED BY <1>0, <1>1, <1>4, <2>2, <2>6 DEF Effective
<1> QED BY <1>5, <1>6, <1>7, <1>8, <1>9 DEF CInv

\* The manager: the deletion of an old one comes before the creation.
LEMMA ManagerEffective ==
    ASSUME CInv, IInv', UninstallStatefulSet \/ InstallStatefulSet
    PROVE  CInv' /\ EndsComplete
<1> USE DEF prereqs, certmgr
<1>0. /\ ClusterTyped /\ flags \in Flag /\ flags.ns \in Namespaces
      /\ manager \in [Namespaces -> ManagerType \cup {None}]
  BY DEF CInv, IInv, Typed, Flag
<1> SUFFICES ASSUME NEW f \in Flag, f = flags, NEW call, call = Calls(f)[n]
             PROVE  CInv' /\ EndsComplete
  BY <1>0
<1>1. /\ at = "install" /\ Done
      /\ UNCHANGED <<crds, namespace, accounts, admins, binding, issuer, certificate, secret,
                     webhook, service>>
      /\ \/ call = "deleteManager"
         \/ call = "createManager" /\ manager' = [manager EXCEPT ![f.ns] = Manager(f)]
  BY DEF UninstallStatefulSet, InstallStatefulSet, Call
<1>2. ClusterTyped'
  BY <1>0, <1>1 DEF ClusterTyped
<1>3. Admitted(f) => Admitted(f)'
  BY <1>1 DEF Admitted, AccountValid, AccountExists, HasClusterAdmin, Account
<1>4. call = "createManager" =>
         manager'[f.ns] # None /\ manager'[f.ns].version = f.version /\ ~ manager'[f.ns].deleting
  <2> SUFFICES ASSUME call = "createManager"
               PROVE  /\ manager'[f.ns] # None
                      /\ manager'[f.ns].version = f.version /\ ~ manager'[f.ns].deleting
    OBVIOUS
  <2>1. manager'[f.ns] = Manager(f)
    BY <1>0, <1>1
  <2>2. Manager(f) \in ManagerType
    BY DEF Manager, ManagerType, Flag
  <2>3. Manager(f) # None
    BY <2>2, KudoResourcesAssumption
  <2>4. Manager(f).version = f.version /\ ~ Manager(f).deleting
    BY DEF Manager
  <2> QED BY <2>1, <2>3, <2>4
<1>5. Effect(f, call)'
  BY <1>1, <1>4 DEF Effect, CRDs
<1>6. \A x : ~ Undoes(call, x) /\ Effect(f, x) => Effect(f, x)'
  BY <1>1, <1>4 DEF Effect, AccountExists, HasClusterAdmin, Account, Undoes
<1> QED BY <1>1, <1>2, <1>3, <1>5, <1>6, CallEffective

\* An installation begins with what verification has found.
LEMMA ProceedEffective ==
    ASSUME CInv, IInv', Proceed
    PROVE  CInv' /\ EndsComplete
<1> USE DEF cluster, prereqs, certmgr, runtime
<1>1. /\ at = "verify" /\ at' = "install" /\ n' = 1 /\ leftover' = Leftover(flags)
      /\ Verified(flags)
      /\ UNCHANGED <<crds, namespace, accounts, admins, binding, issuer, certificate, secret,
                     webhook, manager, service, flags, report, disturbed>>
  BY DEF Proceed
<1>2. flags \in Flag /\ ClusterTyped /\ Unreported
  BY DEF CInv, IInv, Typed
<1>3. ClusterTyped' /\ Unreported' /\ EndsComplete
  BY <1>1, <1>2 DEF ClusterTyped, Unreported, EndsComplete
<1>4. CAHeld'
  <2>1. RightAfter(Calls(flags), "secret", "webhook") /\ 1 \in 1 .. Len(Calls(flags))
    BY <1>2, CommandCalls, SomeCall
  <2>2. Calls(flags)[1] # "secret"
    BY <2>1 DEF RightAfter
  <2>3. Calls(flags)' = Calls(flags)
    BY <1>1 DEF Calls
  <2> QED BY <1>1, <2>2, <2>3 DEF CAHeld
<1>5. WebhookOwn'
  BY <1>1 DEF WebhookOwn, Undisturbed, Leftover
<1>6. ASSUME ~ leftover'
      PROVE  Admitted(flags)'
  <2>1. binding \in {None, Account(flags)}
    BY <1>1, <1>6 DEF Leftover
  <2>2. flags.upgrade \/ ~ flags.crdOnly =>
           namespace[flags.ns] # "terminating" /\ (IsDefaultAccount(flags) \/ AccountValid(flags))
    BY <1>1 DEF Verified, PreUpgradeVerify, PreInstallVerify, NamespaceVerified,
                NamespaceInstallable
  <2> QED BY <1>1, <2>1, <2>2
          DEF Admitted, IsDefaultAccount, AccountValid, AccountExists, HasClusterAdmin, Account
<1>7. Effective'
  BY <1>1, <1>6 DEF Effective, Undisturbed
<1> QED BY <1>3, <1>4, <1>5, <1>7 DEF CInv

\* A command ends otherwise.
LEMMA EndingEffective ==
    ASSUME CInv, IInv',
           \/ VerifyExisting \/ Refuse \/ DryRun \/ CallRefused \/ InstallPanics
           \/ DeleteTimeout \/ WatchUntilReady \/ Interrupted
    PROVE  CInv' /\ EndsComplete
<1>1. CASE VerifyExisting
  <2>1. at = "verify" /\ at' = "idle" /\ UNCHANGED cluster
    BY <1>1 DEF VerifyExisting, End
  <2> QED BY <2>1, EndEffective
<1>2. CASE Refuse
  BY <1>2, EndEffective DEF Refuse, End
<1>3. CASE DryRun
  <2>1. CASE End("success")
    BY <1>3, <2>1, EndEffective DEF DryRun, End
  <2>2. CASE at' = "wait"
    BY <1>3, <2>2, EndEffective DEF DryRun
  <2> QED BY <1>3, <2>1, <2>2 DEF DryRun
<1>4. CASE CallRefused
  BY <1>4, EndEffective DEF CallRefused, Failed, End
<1>5. CASE InstallPanics
  BY <1>5, EndEffective DEF InstallPanics, End
<1>6. CASE DeleteTimeout
  BY <1>6, EndEffective DEF DeleteTimeout, Failed, End
<1>7. CASE WatchUntilReady
  <2>1. at = "wait" /\ at' = "idle" /\ UNCHANGED cluster
    BY <1>7 DEF WatchUntilReady, End
  <2> QED BY <2>1, EndEffective
<1>8. CASE Interrupted
  BY <1>8, EndEffective DEF Interrupted, End
<1> QED BY <1>1, <1>2, <1>3, <1>4, <1>5, <1>6, <1>7, <1>8

\* Controllers and cert-manager take nothing back, except where a namespace
\* or a manager is being deleted.
LEMMA ClusterEffective ==
    ASSUME CInv, IInv', Cluster
    PROVE  CInv' /\ EndsComplete
<1> USE DEF prereqs, certmgr, runtime, process, history
<1>0. /\ ClusterTyped /\ flags \in Flag /\ flags.ns \in Namespaces
      /\ webhook \in WebhookType \cup {None}
      /\ manager \in [Namespaces -> ManagerType \cup {None}]
  BY DEF CInv, IInv, Typed, Flag
<1> SUFFICES ASSUME NEW f \in Flag, f = flags
             PROVE  CInv' /\ EndsComplete
  BY <1>0
<1>1. CASE Establish
  <2>1. UNCHANGED <<crds, namespace, accounts, admins, binding, issuer, certificate, secret,
                    webhook, manager, service, at, flags, n, ca, report, leftover, uncertified, disturbed>>
    BY <1>1 DEF Establish
  <2>2. ClusterTyped'
    BY <1>0, <2>1 DEF ClusterTyped
  <2>3. (\A x : Effect(f, x) => Effect(f, x)') /\ (Admitted(f) => Admitted(f)')
    BY <2>1 DEF Effect, Admitted, AccountValid, AccountExists, HasClusterAdmin, Account
  <2> QED BY <2>1, <2>2, <2>3, OthersEffective
<1>2. CASE InjectCA
  <2>1. UNCHANGED <<crds, namespace, accounts, admins, binding, issuer, certificate, secret,
                    manager, service, at, flags, n, ca, report, leftover, uncertified, disturbed>>
    BY <1>2 DEF InjectCA
  <2>2. ClusterTyped'
    BY <1>0, <2>1 DEF ClusterTyped
  <2>3. webhook # None /\ webhook' = [webhook EXCEPT !.ca = CertManagerCA]
    BY <1>2 DEF InjectCA
  <2>4. webhook' \in WebhookType /\ webhook'.ns = webhook.ns /\ webhook'.inject = webhook.inject
    BY <1>0, <2>3 DEF WebhookType
  <2>5. webhook' # None
    BY <2>4, KudoResourcesAssumption
  <2>6. (\A x : Effect(f, x) => Effect(f, x)') /\ (Admitted(f) => Admitted(f)')
    BY <2>1, <2>4, <2>5 DEF Effect, Admitted, AccountValid, AccountExists, HasClusterAdmin, Account
  <2> QED BY <2>1, <2>2, <2>3, <2>6, OthersEffective
<1>3. ASSUME NEW ns \in Namespaces, IssueCertificate(ns)
      PROVE  CInv' /\ EndsComplete
  <2>1. UNCHANGED <<crds, namespace, accounts, admins, binding, issuer, certificate, webhook,
                    manager, service, at, flags, n, ca, report, leftover, uncertified, disturbed>>
    BY <1>3 DEF IssueCertificate
  <2>2. secret' = [secret EXCEPT ![ns] = CertManagerCA] /\ CertManagerCA # None
    BY <1>3, KudoResourcesAssumption DEF IssueCertificate
  <2>3. ClusterTyped' /\ (secret[f.ns] # None => secret'[f.ns] # None)
    BY <1>0, <2>1, <2>2 DEF ClusterTyped
  <2>4. (\A x : Effect(f, x) => Effect(f, x)') /\ (Admitted(f) => Admitted(f)')
    BY <2>1, <2>3 DEF Effect, Admitted, AccountValid, AccountExists, HasClusterAdmin, Account
  <2> QED BY <2>1, <2>3, <2>4, OthersEffective
<1>4. ASSUME NEW ns \in Namespaces, ManagerReady(ns) \/ ManagerGone(ns)
      PROVE  CInv' /\ EndsComplete
  <2>1. UNCHANGED <<crds, namespace, accounts, admins, binding, issuer, certificate, secret,
                    webhook, service, at, flags, n, ca, report, leftover, uncertified, disturbed>>
    BY <1>4 DEF ManagerReady, ManagerGone
  <2>2. \/ manager[ns] # None /\ manager' = [manager EXCEPT ![ns].ready = TRUE]
        \/ manager[ns].deleting /\ manager' = [manager EXCEPT ![ns] = None]
    BY <1>4 DEF ManagerReady, ManagerGone
  <2>3. ASSUME manager[f.ns] # None /\ ~ manager[f.ns].deleting
        PROVE  /\ manager'[f.ns] # None /\ ~ manager'[f.ns].deleting
               /\ manager'[f.ns].version = manager[f.ns].version
    <3>1. CASE manager' = [manager EXCEPT ![ns].ready = TRUE] /\ ns = f.ns
      <4>1. manager[f.ns] \in ManagerType
        BY <1>0, <2>3
      <4>2. manager'[f.ns] = [manager[f.ns] EXCEPT !.ready = TRUE]
        BY <1>0, <3>1
      <4>3. /\ manager'[f.ns] \in ManagerType /\ manager'[f.ns].version = manager[f.ns].version
            /\ manager'[f.ns].deleting = manager[f.ns].deleting
        BY <4>1, <4>2 DEF ManagerType
      <4>4. manager'[f.ns] # None
        BY <4>3, KudoResourcesAssumption
      <4> QED BY <2>3, <4>3, <4>4
    <3>2. CASE ns # f.ns
      BY <1>0, <2>2, <2>3, <3>2
    <3>3. CASE manager[ns].deleting /\ ns = f.ns
      BY <2>3, <3>3
    <3> QED BY <2>2, <3>1, <3>2, <3>3
  <2>4. ClusterTyped'
    BY <1>0, <2>1 DEF ClusterTyped
  <2>5. (\A x : Effect(f, x) => Effect(f, x)') /\ (Admitted(f) => Admitted(f)')
    BY <2>1, <2>3 DEF Effect, Admitted, AccountValid, AccountExists, HasClusterAdmin, Account
  <2> QED BY <2>1, <2>4, <2>5, OthersEffective
<1>5. ASSUME NEW ns \in Namespaces, NamespaceGone(ns)
      PROVE  CInv' /\ EndsComplete
  <2>1. /\ namespace[ns] = "terminating"
        /\ namespace' = [namespace EXCEPT ![ns] = "absent"]
        /\ accounts' = {a \in accounts : a[1] # ns}
        /\ issuer' = issuer \ {ns} /\ certificate' = certificate \ {ns}
        /\ secret' = [secret EXCEPT ![ns] = None]
        /\ manager' = [manager EXCEPT ![ns] = None] /\ service' = service \ {ns}
        /\ UNCHANGED <<crds, admins, binding, webhook, at, flags, n, ca, report, leftover, uncertified, disturbed>>
    BY <1>5 DEF NamespaceGone
  <2>2. ClusterTyped'
    BY <1>0, <2>1 DEF ClusterTyped
  <2>3. ASSUME ns # f.ns
        PROVE  (\A x : Effect(f, x) => Effect(f, x)') /\ (Admitted(f) => Admitted(f)')
    <3>1. /\ namespace'[f.ns] = namespace[f.ns] /\ secret'[f.ns] = secret[f.ns]
          /\ manager'[f.ns] = manager[f.ns]
          /\ f.ns \in issuer => f.ns \in issuer'
          /\ f.ns \in certificate => f.ns \in certificate'
          /\ f.ns \in service => f.ns \in service'
      BY <1>0, <2>1, <2>3 DEF ClusterTyped
    <3>2. AccountExists(f) => AccountExists(f)'
      <4>1. Account(f)[1] = f.ns
        BY DEF Account
      <4> QED BY <2>1, <2>3, <4>1 DEF AccountExists, Account
    <3>3. HasClusterAdmin(f) => HasClusterAdmin(f)'
      BY <2>1 DEF HasClusterAdmin, Account
    <3>4. \A x : Effect(f, x) => Effect(f, x)'
      BY <2>1, <3>1, <3>2, <3>3 DEF Effect
    <3>5. Admitted(f) => Admitted(f)'
      BY <2>1, <3>1, <3>2, <3>3 DEF Admitted, AccountValid, Account
    <3> QED BY <3>4, <3>5
  <2>4. ASSUME ns = f.ns, Admitted(f)
        PROVE  /\ Admitted(f)'
               /\ \A x \in RemovalHas(f) \cup InstallationHas(f) : Effect(f, x) => Effect(f, x)'
    <3>1. f.crdOnly
      BY <2>1, <2>4 DEF Admitted
    <3>2. \A x \in RemovalHas(f) \cup InstallationHas(f) :
              x \in CRDs \cup {"deleteManager", "awaitManager", "deleteWebhook"}
      BY <3>1 DEF RemovalHas, InstallationHas
    <3>3. Admitted(f)'
      BY <2>1, <2>4, <3>1 DEF Admitted, Account
    <3> QED BY <2>1, <3>2, <3>3 DEF Effect, CRDs
  <2> QED BY <2>1, <2>2, <2>3, <2>4, OthersEffective
<1> QED BY <1>1, <1>2, <1>3, <1>4, <1>5 DEF Cluster

\* What users do to the cluster is known, and a new command has called nothing.
LEMMA UsersEffective ==
    ASSUME CInv, IInv', Users
    PROVE  CInv' /\ EndsComplete
<1> USE DEF cluster, prereqs, certmgr, runtime, process, history
<1>0. ClusterTyped /\ flags \in Flag
  BY DEF CInv, IInv, Typed
<1>1. ASSUME NEW f \in Flags, Start(f)
      PROVE  CInv' /\ EndsComplete
  <2>1. /\ at = "idle" /\ at' = "verify" /\ report' = "none"
        /\ UNCHANGED <<crds, namespace, secret>>
    BY <1>1 DEF Start
  <2> QED BY <1>0, <2>1 DEF CInv, ClusterTyped, Unreported, CAHeld, WebhookOwn, Effective,
                            Undisturbed, EndsComplete
<1>2. ASSUME ClusterTyped', UNCHANGED <<at, flags, n, ca, report>>, disturbed' = (at = "install")
      PROVE  CInv' /\ EndsComplete
  <2> SUFFICES ASSUME NEW f \in Flag, f = flags
               PROVE  CInv' /\ EndsComplete
    BY <1>0
  <2> QED BY <1>2, OthersEffective
<1>3. CASE DeleteCRDs
  <2>1. ClusterTyped'
    BY <1>0, <1>3 DEF DeleteCRDs, ClusterTyped
  <2> QED BY <1>2, <1>3, <2>1 DEF DeleteCRDs, Edit
<1>4. ASSUME NEW ns \in Namespaces, CreateNamespace(ns) \/ DeleteNamespace(ns)
      PROVE  CInv' /\ EndsComplete
  <2>1. ClusterTyped'
    BY <1>0, <1>4 DEF CreateNamespace, DeleteNamespace, ClusterTyped
  <2> QED BY <1>2, <1>4, <2>1 DEF CreateNamespace, DeleteNamespace, Edit
<1>5. ASSUME NEW a \in Namespaces \X Accounts, GrantAdmin(a)
      PROVE  CInv' /\ EndsComplete
  <2>1. ClusterTyped'
    BY <1>0, <1>5 DEF GrantAdmin, ClusterTyped
  <2> QED BY <1>2, <1>5, <2>1 DEF GrantAdmin, Edit
<1> QED BY <1>1, <1>3, <1>4, <1>5 DEF Users

LEMMA InitiallyComplete == Init => CInv
<1> SUFFICES ASSUME Init
             PROVE  CInv
  OBVIOUS
<1>1. IInv
  BY Initially
<1>2. ClusterTyped
  BY DEF Init, ClusterTyped
<1> QED BY <1>1, <1>2
        DEF Init, CInv, Unreported, CAHeld, WebhookOwn, Effective, Undisturbed

LEMMA CompleteInductive == CInv /\ [Next]_vars => CInv' /\ EndsComplete
<1> SUFFICES ASSUME CInv, [Next]_vars
             PROVE  CInv' /\ EndsComplete
  OBVIOUS
<1>1. IInv'
  BY Inductive DEF CInv
<1>2. CASE UNCHANGED vars
  <2>1. UNCHANGED <<crds, namespace, accounts, admins, binding, issuer, certificate, secret,
                    webhook, manager, service, at, flags, n, ca, report, leftover, uncertified, disturbed>>
    BY <1>2 DEF vars, cluster, prereqs, certmgr, runtime, process, history
  <2>2. ClusterTyped'
    BY <2>1 DEF CInv, ClusterTyped
  <2> SUFFICES ASSUME NEW f \in Flag, f = flags
               PROVE  CInv' /\ EndsComplete
    BY DEF CInv, IInv, Typed
  <2>3. (\A x : Effect(f, x) => Effect(f, x)') /\ (Admitted(f) => Admitted(f)')
    BY <2>1 DEF Effect, Admitted, AccountValid, AccountExists, HasClusterAdmin, Account
  <2> QED BY <1>1, <2>1, <2>2, <2>3, OthersEffective
<1>3. CASE Command
  BY <1>1, <1>3, EndingEffective, ProceedEffective, CallsEffective, WebhookEffective,
     NoCertificatesEffective, ManagerEffective DEF Command
<1> QED BY <1>1, <1>2, <1>3, EndingEffective, ClusterEffective, UsersEffective DEF Next

\* Whatever earlier commands, faults, users and the cluster have left behind,
\* an installation or upgrade that ends without an error, and that has met
\* neither parts of another installation nor users, is complete: no object was
\* skipped, kept or deleted wrongly.  If its self-signed certificates failed,
\* this is not said of the webhook and its secret.
THEOREM InstallationsComplete == Spec => InstalledIsComplete
<1>1. CInv /\ [Next]_vars =>
         [at = "install" /\ report' = "success" /\ ~ leftover /\ ~ disturbed
             => \A f \in Flags : f = flags =>
                   /\ CRDsComplete(f)'
                   /\ ~ f.crdOnly => /\ ManagerComplete(f)'
                                     /\ ~ uncertified => WebhookComplete(f)']_vars
  BY CompleteInductive DEF EndsComplete
<1> QED BY <1>1, InitiallyComplete, CompleteInductive, PTL DEF Spec, InstalledIsComplete
=============================================================================
