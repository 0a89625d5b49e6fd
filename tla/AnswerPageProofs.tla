--------------------------- MODULE AnswerPageProofs ---------------------------
(* What AnswerPage.tla promises, for any number of questions, any texts and  *)
(* any amount of typing.                                                     *)
EXTENDS AnswerPage, SequenceTheorems, TLAPS

-----------------------------------------------------------------------------
(* The inductive invariant *)

\* What waits last in a queue is what the input holds, and a save that was
\* stored is the first one.
QueuesOK ==
    \A q \in Questions :
        /\ queue[q] # <<>> => queue[q][Len(queue[q])] = answers[q]
        /\ request[q] = "stored" => stored[q] = Trim(Head(queue[q]))

\* The page of a participant who waits for the buttons has nothing to save but
\* answers of the question on display, and a working button waits for all of
\* them.
CalmOK ==
    ~hurried =>
        /\ \A q \in Questions : q # index => queue[q] = <<>>
        /\ button.step \in {"move", "finish"} => button.left = Len(queue[index])
        /\ button.step \in {"submitted", "completed", "refused"} => queue[index] = <<>>
        /\ status = "completed" => queue[index] = <<>>

IInv == TypeOK /\ QueuesOK /\ LastSaveWins /\ CalmOK

-----------------------------------------------------------------------------
(* Queues, texts and buttons *)

LEMMA QueueFacts ==
    ASSUME NEW S, NEW s \in Seq(S)
    PROVE  /\ Len(s) \in Nat
           /\ s # <<>> <=> Len(s) > 0
           /\ \A x \in S : /\ Append(s, x) \in Seq(S)
                           /\ Len(Append(s, x)) = Len(s) + 1
                           /\ Append(s, x)[Len(s) + 1] = x
                           /\ Append(s, x) # <<>>
                           /\ s # <<>> => Head(Append(s, x)) = Head(s)
           /\ s # <<>> => /\ Head(s) \in S /\ Head(s) = s[1]
                          /\ Tail(s) \in Seq(S) /\ Len(Tail(s)) = Len(s) - 1
                          /\ Tail(s) # <<>> <=> Len(s) > 1
                          /\ Tail(s) = <<>> => Len(s) = 1
                          /\ Tail(s) # <<>> => Tail(s)[Len(Tail(s))] = s[Len(s)]
<1>1. Len(s) \in Nat /\ (s # <<>> <=> Len(s) > 0)
  BY EmptySeq
<1>2. ASSUME NEW x \in S
      PROVE  /\ Append(s, x) \in Seq(S) /\ Len(Append(s, x)) = Len(s) + 1
             /\ Append(s, x)[Len(s) + 1] = x /\ Append(s, x) # <<>>
             /\ s # <<>> => Head(Append(s, x)) = Head(s)
  <2>1. /\ Append(s, x) \in Seq(S) /\ Len(Append(s, x)) = Len(s) + 1
        /\ \A i \in 1 .. Len(s) : Append(s, x)[i] = s[i]
        /\ Append(s, x)[Len(s) + 1] = x
    BY AppendProperties
  <2>2. Append(s, x) # <<>>
    BY <1>1, <2>1, EmptySeq
  <2>3. s # <<>> => Head(Append(s, x)) = Append(s, x)[1] /\ Head(s) = s[1] /\ 1 \in 1 .. Len(s)
    BY <1>1, <2>1, <2>2, HeadTailProperties
  <2> QED BY <2>1, <2>2, <2>3
<1>3. ASSUME s # <<>>
      PROVE  /\ Head(s) \in S /\ Head(s) = s[1]
             /\ Tail(s) \in Seq(S) /\ Len(Tail(s)) = Len(s) - 1
             /\ Tail(s) # <<>> <=> Len(s) > 1
             /\ Tail(s) = <<>> => Len(s) = 1
             /\ Tail(s) # <<>> => Tail(s)[Len(Tail(s))] = s[Len(s)]
  <2>1. /\ Head(s) \in S /\ Head(s) = s[1]
        /\ Tail(s) \in Seq(S) /\ Len(Tail(s)) = Len(s) - 1
        /\ \A i \in 1 .. Len(Tail(s)) : Tail(s)[i] = s[i + 1]
    BY <1>3, HeadTailProperties
  <2>2. Len(Tail(s)) \in Nat /\ (Tail(s) # <<>> <=> Len(Tail(s)) > 0)
    BY <2>1, EmptySeq
  <2>3. Tail(s) # <<>> => Len(Tail(s)) \in 1 .. Len(Tail(s)) /\ Len(Tail(s)) + 1 = Len(s)
    BY <1>1, <2>1, <2>2
  <2> QED BY <1>1, <2>1, <2>2, <2>3
<1> QED BY <1>1, <1>2, <1>3

LEMMA Padded ==
    ASSUME NEW w, NEW p, NEW f
    PROVE  [[word |-> w, padded |-> p] EXCEPT !.padded = f] = [word |-> w, padded |-> f]
OBVIOUS

LEMMA TrimText ==
    ASSUME NEW t \in Texts \cup {Empty}
    PROVE  Trim(t) \in Texts \cup {Empty}
<1>1. CASE t \in Texts
  <2>1. [t EXCEPT !.padded = FALSE] \in [word : Words, padded : BOOLEAN]
    BY <1>1, Zenon DEF Texts
  <2> QED BY <2>1 DEF Trim, Texts
<1>2. CASE t = Empty
  <2>1. [Empty EXCEPT !.padded = FALSE] = Empty
    BY Padded, Zenon DEF Empty
  <2> QED BY <1>2, <2>1 DEF Trim
<1> QED BY <1>1, <1>2

LEMMA ButtonFields ==
    /\ NoButton.step = "none"
    /\ \A b \in Buttons : b.step # "none"
    /\ \A b \in Buttons : b.step = "move" => b.target \in Questions
    /\ \A b \in Buttons : b.step \in {"move", "finish"} =>
           b.left \in Nat /\ (b.left > 0 => [b EXCEPT !.left = @ - 1] \in Buttons
                                  /\ [b EXCEPT !.left = @ - 1].left = b.left - 1
                                  /\ [b EXCEPT !.left = @ - 1].step = b.step)
<1>1. NoButton.step = "none" /\ \A b \in Buttons : b.step # "none"
  BY DEF NoButton, Buttons
<1>2. \A b \in Buttons : b.step = "move" => b.target \in Questions
  BY DEF Buttons
<1>3. ASSUME NEW b \in Buttons, b.step \in {"move", "finish"}
      PROVE  b.left \in Nat
  BY <1>3 DEF Buttons
<1>4. ASSUME NEW b \in Buttons, b.step \in {"move", "finish"}, b.left > 0
      PROVE  /\ [b EXCEPT !.left = @ - 1] \in Buttons
             /\ [b EXCEPT !.left = @ - 1].left = b.left - 1
             /\ [b EXCEPT !.left = @ - 1].step = b.step
  <2>1. b.left - 1 \in Nat
    BY <1>3, <1>4
  <2>2. CASE b \in [step : {"move"}, target : Questions, left : Nat]
    BY <2>1, <2>2 DEF Buttons
  <2>3. CASE b \in [step : {"finish"}, left : Nat]
    BY <2>1, <2>3 DEF Buttons
  <2> QED BY <1>4, <2>2, <2>3 DEF Buttons
<1> QED BY <1>1, <1>2, <1>3, <1>4

\* The first question is there.
LEMMA SomeQuestion == 1 \in Questions
BY PageConstants DEF Questions

-----------------------------------------------------------------------------
(* Typing *)

LEMMA TypeKeeps ==
    ASSUME IInv, NEW t \in Texts, Type(t)
    PROVE  IInv'
<1> USE DEF server
<1>1. /\ TypeOK /\ QueuesOK /\ LastSaveWins /\ CalmOK /\ index \in Questions
      /\ \A q \in Questions : queue[q] \in Seq(Texts)
  BY DEF IInv, TypeOK
<1> DEFINE new == Append(queue[index], t)
<1>2. /\ answers' = [answers EXCEPT ![index] = t] /\ queue' = [queue EXCEPT ![index] = new]
      /\ request' = [request EXCEPT ![index] = IF @ = "none" THEN "sent" ELSE @]
      /\ typed < MaxTyped /\ typed' = typed + 1
      /\ UNCHANGED <<index, button, shown, stored, status, expired, failed>>
  BY DEF Type, Enqueued
<1>3. /\ new \in Seq(Texts) /\ Len(new) = Len(queue[index]) + 1 /\ Len(queue[index]) \in Nat
      /\ new # <<>> /\ new[Len(new)] = t
      /\ queue[index] # <<>> => Head(new) = Head(queue[index])
  BY <1>1, QueueFacts
<1> HIDE DEF new
<1>4. /\ answers'[index] = t /\ queue'[index] = new
      /\ request'[index] = IF request[index] = "none" THEN "sent" ELSE request[index]
      /\ \A q \in Questions : q # index =>
             answers'[q] = answers[q] /\ queue'[q] = queue[q] /\ request'[q] = request[q]
  BY <1>1, <1>2 DEF TypeOK
<1>5. hurried' \in BOOLEAN /\ (~hurried' => ~hurried /\ ~Working /\ status # "completed")
  BY <1>1 DEF Type, TypeOK
<1>6. TypeOK'
  <2>1. \A q \in Questions : request'[q] = "none" <=> queue'[q] = <<>>
    BY <1>1, <1>3, <1>4 DEF TypeOK
  <2>2. button.step \in {"move", "finish"} => button.left <= Len(new)
    <3>1. button.step \in {"move", "finish"} => button.left \in Nat /\ button.left <= Len(queue[index])
      BY <1>1, ButtonFields DEF TypeOK
    <3> QED BY <1>3, <3>1
  <2>3. typed' \in 0 .. MaxTyped
    BY <1>1, <1>2, PageConstants DEF TypeOK
  <2>4. /\ answers' \in [Questions -> Texts \cup {Empty}] /\ queue' \in [Questions -> Seq(Texts)]
        /\ request' \in [Questions -> {"none", "sent", "checked", "stored", "refused"}]
    BY <1>1, <1>2, <1>3 DEF TypeOK
  <2> QED BY <1>1, <1>2, <1>4, <1>5, <2>1, <2>2, <2>3, <2>4 DEF TypeOK
<1>7. QueuesOK'
  <2> SUFFICES ASSUME NEW q \in Questions
               PROVE  /\ queue'[q] # <<>> => queue'[q][Len(queue'[q])] = answers'[q]
                      /\ request'[q] = "stored" => stored'[q] = Trim(Head(queue'[q]))
    BY DEF QueuesOK
  <2>1. CASE q = index
    <3>1. request[index] = "stored" => queue[index] # <<>> /\ stored[index] = Trim(Head(queue[index]))
      BY <1>1 DEF TypeOK, QueuesOK
    <3> QED BY <1>2, <1>3, <1>4, <2>1, <3>1
  <2>2. CASE q # index
    BY <1>1, <1>2, <1>4, <2>2 DEF QueuesOK
  <2> QED BY <2>1, <2>2
<1>8. LastSaveWins'
  BY <1>1, <1>2, <1>3, <1>4 DEF LastSaveWins
<1>9. CalmOK'
  <2> SUFFICES ASSUME ~hurried'
               PROVE  /\ \A q \in Questions : q # index => queue'[q] = <<>>
                      /\ button.step = "none" /\ status # "completed"
    BY <1>2 DEF CalmOK
  <2>1. button.step = "none"
    BY <1>5, ButtonFields DEF Working
  <2> QED BY <1>1, <1>4, <1>5, <2>1 DEF CalmOK
<1> QED BY <1>6, <1>7, <1>8, <1>9 DEF IInv

-----------------------------------------------------------------------------
(* The saves of a question *)

LEMMA CheckKeeps ==
    ASSUME IInv, NEW q \in Questions, CheckSave(q)
    PROVE  IInv'
<1> USE DEF server, history
<1>1. /\ TypeOK /\ QueuesOK /\ LastSaveWins /\ CalmOK
      /\ request[q] = "sent"
      /\ request' \in [Questions -> {"none", "sent", "checked", "stored", "refused"}]
      /\ request'[q] \in {"checked", "refused"}
      /\ \A p \in Questions : p # q => request'[p] = request[p]
      /\ UNCHANGED <<answers, index, queue, button, shown, stored, status, expired,
                    typed, failed, hurried>>
  BY DEF IInv, CheckSave, TypeOK
<1>2. \A p \in Questions : request'[p] = "none" <=> request[p] = "none"
  BY <1>1
<1>3. \A p \in Questions : request'[p] = "stored" => request[p] = "stored"
  BY <1>1
<1>4. TypeOK'
  BY <1>1, <1>2 DEF TypeOK
<1>5. QueuesOK' /\ LastSaveWins' /\ CalmOK'
  BY <1>1, <1>3 DEF QueuesOK, LastSaveWins, CalmOK
<1> QED BY <1>4, <1>5 DEF IInv

LEMMA StoreKeeps ==
    ASSUME IInv, NEW q \in Questions, StoreSave(q)
    PROVE  IInv'
<1> USE DEF history
<1>1. /\ TypeOK /\ QueuesOK /\ LastSaveWins /\ CalmOK
      /\ request[q] = "checked" /\ queue[q] # <<>> /\ queue[q] \in Seq(Texts)
      /\ stored' = [stored EXCEPT ![q] = Trim(Head(queue[q]))]
      /\ request' = [request EXCEPT ![q] = "stored"]
      /\ UNCHANGED <<answers, index, queue, button, shown, status, expired, typed, failed, hurried>>
  BY DEF IInv, StoreSave, TypeOK
<1>2. Trim(Head(queue[q])) \in Texts \cup {Empty}
  BY <1>1, QueueFacts, TrimText
<1>3. /\ stored'[q] = Trim(Head(queue[q])) /\ request'[q] = "stored"
      /\ \A p \in Questions : p # q => stored'[p] = stored[p] /\ request'[p] = request[p]
  BY <1>1 DEF TypeOK
<1>4. TypeOK'
  <2>1. /\ stored' \in [Questions -> Texts \cup {Empty}]
        /\ request' \in [Questions -> {"none", "sent", "checked", "stored", "refused"}]
    BY <1>1, <1>2 DEF TypeOK
  <2>2. \A p \in Questions : request'[p] = "none" <=> request[p] = "none"
    BY <1>1, <1>3
  <2> QED BY <1>1, <2>1, <2>2 DEF TypeOK
<1>5. QueuesOK'
  BY <1>1, <1>3 DEF QueuesOK
<1>6. LastSaveWins' /\ CalmOK'
  BY <1>1, <1>3 DEF LastSaveWins, CalmOK
<1> QED BY <1>4, <1>5, <1>6 DEF IInv

\* The queue loses its first save, and a button that waits for the question
\* waits for one less.
LEMMA EndKeeps ==
    ASSUME IInv, NEW q \in Questions, request[q] # "none", SaveEnds(q),
           failed' \subseteq Questions,
           \A p \in Questions : p # q => (p \in failed' <=> p \in failed),
           q \notin failed' => request[q] = "stored"
    PROVE  IInv'
<1> USE DEF server
<1>1. /\ TypeOK /\ QueuesOK /\ LastSaveWins /\ CalmOK /\ index \in Questions
      /\ queue[q] # <<>> /\ queue[q] \in Seq(Texts) /\ Len(queue[index]) \in Nat
      /\ queue' = [queue EXCEPT ![q] = Tail(queue[q])]
      /\ request' = [request EXCEPT ![q] = AfterReturn(q)]
      /\ UNCHANGED <<answers, index, shown, stored, status, expired, typed, hurried>>
  BY DEF IInv, TypeOK, SaveEnds
<1>2. /\ Tail(queue[q]) \in Seq(Texts) /\ Len(Tail(queue[q])) = Len(queue[q]) - 1
      /\ Len(queue[q]) \in Nat /\ Len(queue[q]) > 0
      /\ Tail(queue[q]) # <<>> <=> Len(queue[q]) > 1
      /\ Tail(queue[q]) # <<>> => Tail(queue[q])[Len(Tail(queue[q]))] = queue[q][Len(queue[q])]
      /\ Head(queue[q]) = queue[q][1]
  BY <1>1, QueueFacts
<1>3. /\ queue'[q] = Tail(queue[q]) /\ request'[q] = AfterReturn(q)
      /\ AfterReturn(q) \in {"none", "sent"}
      /\ AfterReturn(q) = "none" <=> Tail(queue[q]) = <<>>
      /\ \A p \in Questions : p # q => queue'[p] = queue[p] /\ request'[p] = request[p]
  BY <1>1, <1>2 DEF TypeOK, AfterReturn
<1>4. /\ button' \in Buttons \cup {NoButton} /\ button'.step = button.step
      /\ button.step \in {"move", "finish"} =>
             /\ button.left \in Nat
             /\ button'.left = IF q = index /\ button.left > 0 THEN button.left - 1 ELSE button.left
  <2>1. button \in Buttons \cup {NoButton}
    BY <1>1 DEF TypeOK
  <2>2. CASE button.step \in {"move", "finish"} /\ q = index /\ button.left > 0
    <3>1. button \in Buttons
      BY <2>1, <2>2, ButtonFields
    <3>2. button' = [button EXCEPT !.left = @ - 1]
      BY <2>2 DEF SaveEnds
    <3> QED BY <2>2, <3>1, <3>2, ButtonFields
  <2>3. CASE ~(button.step \in {"move", "finish"} /\ q = index /\ button.left > 0)
    <3>1. button' = button
      BY <2>3 DEF SaveEnds
    <3>2. button.step \in {"move", "finish"} => button.left \in Nat
      BY <2>1, ButtonFields
    <3> QED BY <2>1, <2>3, <3>1, <3>2
  <2> QED BY <2>2, <2>3
<1>5. TypeOK'
  <2>1. /\ queue' \in [Questions -> Seq(Texts)]
        /\ request' \in [Questions -> {"none", "sent", "checked", "stored", "refused"}]
    BY <1>1, <1>2, <1>3 DEF TypeOK
  <2>2. \A p \in Questions : request'[p] = "none" <=> queue'[p] = <<>>
    BY <1>1, <1>3 DEF TypeOK
  <2>3. button'.step \in {"move", "finish"} => button'.left <= Len(queue'[index])
    <3> SUFFICES ASSUME button.step \in {"move", "finish"} PROVE button'.left <= Len(queue'[index])
      BY <1>4
    <3>1. button.left \in Nat /\ button.left <= Len(queue[index])
      BY <1>1, <1>4 DEF TypeOK
    <3>2. CASE q = index
      <4>1. Len(queue'[index]) = Len(queue[index]) - 1 /\ Len(queue[index]) \in Nat
            /\ Len(queue[index]) > 0
        BY <1>2, <1>3, <3>2
      <4>2. button'.left = IF button.left > 0 THEN button.left - 1 ELSE button.left
        BY <1>4, <3>2
      <4> HIDE <3>2
      <4> QED BY <3>1, <4>1, <4>2
    <3>3. CASE q # index
      BY <1>1, <1>3, <1>4, <3>1, <3>3
    <3> QED BY <3>2, <3>3
  <2> QED BY <1>1, <1>4, <2>1, <2>2, <2>3 DEF TypeOK
<1>6. QueuesOK'
  <2> SUFFICES ASSUME NEW p \in Questions
               PROVE  /\ queue'[p] # <<>> => queue'[p][Len(queue'[p])] = answers[p]
                      /\ request'[p] = "stored" => stored[p] = Trim(Head(queue'[p]))
    BY <1>1 DEF QueuesOK
  <2>1. CASE p = q
    BY <1>1, <1>2, <1>3, <2>1 DEF QueuesOK
  <2>2. CASE p # q
    BY <1>1, <1>3, <2>2 DEF QueuesOK
  <2> QED BY <2>1, <2>2
<1>7. LastSaveWins'
  <2> SUFFICES ASSUME NEW p \in Questions, queue'[p] = <<>>, p \notin failed'
               PROVE  stored[p] = Trim(answers[p])
    BY <1>1 DEF LastSaveWins
  <2>1. CASE p = q
    <3>1. Len(queue[q]) = 1
      <4>1. Tail(queue[q]) = <<>>
        BY <1>3, <2>1
      <4> QED BY <1>1, <4>1, QueueFacts
    <3>2. Head(queue[q]) = answers[q] /\ stored[q] = Trim(Head(queue[q]))
      BY <1>1, <1>2, <2>1, <3>1 DEF QueuesOK
    <3> QED BY <2>1, <3>2
  <2>2. CASE p # q
    BY <1>1, <1>3, <2>2 DEF LastSaveWins
  <2> QED BY <2>1, <2>2
<1>8. CalmOK'
  <2> SUFFICES ASSUME ~hurried
               PROVE  /\ \A p \in Questions : p # index => queue'[p] = <<>>
                      /\ button'.step \in {"move", "finish"} => button'.left = Len(queue'[index])
                      /\ button'.step \in {"submitted", "completed", "refused"} => queue'[index] = <<>>
                      /\ status = "completed" => queue'[index] = <<>>
    BY <1>1 DEF CalmOK
  <2>1. /\ \A p \in Questions : p # index => queue[p] = <<>>
        /\ button.step \in {"move", "finish"} => button.left = Len(queue[index])
        /\ button.step \in {"submitted", "completed", "refused"} => queue[index] = <<>>
        /\ status = "completed" => queue[index] = <<>>
    BY <1>1 DEF CalmOK
  <2>2. q = index
    BY <1>1, <2>1
  <2>3. button.step \in {"move", "finish"} => button'.left = Len(queue'[index])
    BY <1>2, <1>3, <1>4, <2>1, <2>2
  <2> QED BY <1>1, <1>3, <1>4, <2>1, <2>2, <2>3
<1> QED BY <1>5, <1>6, <1>7, <1>8 DEF IInv

LEMMA SaveKeeps ==
    ASSUME IInv, NEW q \in Questions, Save(q)
    PROVE  IInv'
<1>1. failed \subseteq Questions
  BY DEF IInv, TypeOK
<1>2. CASE SaveReturns(q)
  BY <1>1, <1>2, EndKeeps DEF SaveReturns
<1>3. CASE SaveFails(q)
  BY <1>1, <1>3, EndKeeps DEF SaveFails
<1> QED BY <1>2, <1>3, CheckKeeps, StoreKeeps DEF Save

-----------------------------------------------------------------------------
(* The buttons *)

LEMMA ButtonKeeps ==
    ASSUME IInv, UNCHANGED <<answers, queue, request, stored, typed, failed, hurried>>,
           index' \in Questions, shown' \in BOOLEAN, expired' \in BOOLEAN,
           status' \in {"accepted", "completed"},
           button' \in Buttons \cup {NoButton},
           button'.step \in {"move", "finish"} => button'.left = Len(queue[index']),
           ~hurried =>
               /\ index' # index => queue[index] = <<>>
               /\ button'.step \in {"submitted", "completed", "refused"} => queue[index'] = <<>>
               /\ status' = "completed" => queue[index'] = <<>>
    PROVE  IInv'
<1>1. TypeOK /\ QueuesOK /\ LastSaveWins /\ CalmOK
  BY DEF IInv
<1>2. Len(queue[index']) \in Nat
  BY <1>1 DEF TypeOK
<1>3. TypeOK'
  BY <1>1, <1>2 DEF TypeOK
<1>4. QueuesOK' /\ LastSaveWins'
  BY <1>1 DEF QueuesOK, LastSaveWins
<1>5. CalmOK'
  BY <1>1 DEF CalmOK
<1> QED BY <1>3, <1>4, <1>5 DEF IInv

LEMMA ButtonSteps ==
    ASSUME IInv, \/ \E q \in Questions : Move(q)
                 \/ Moved \/ Submit \/ SendFinish \/ Complete \/ FinishReturns \/ FinishFails
                 \/ Expire
    PROVE  IInv'
<1> USE DEF server, history
<1>1. /\ index \in Questions /\ button \in Buttons \cup {NoButton}
      /\ Len(queue[index]) \in Nat /\ queue[index] \in Seq(Texts)
      /\ shown \in BOOLEAN /\ expired \in BOOLEAN /\ status \in {"accepted", "completed"}
      /\ button.step \in {"move", "finish"} => button.left <= Len(queue[index])
  BY DEF IInv, TypeOK
<1>2. ~hurried => /\ button.step \in {"move", "finish"} => button.left = Len(queue[index])
                  /\ button.step \in {"submitted", "completed", "refused"} => queue[index] = <<>>
                  /\ status = "completed" => queue[index] = <<>>
                  /\ \A q \in Questions : q # index => queue[q] = <<>>
  BY DEF IInv, CalmOK
<1>3. Len(queue[index]) = 0 <=> queue[index] = <<>>
  BY <1>1, QueueFacts
<1>4. ASSUME NEW q \in Questions, Move(q) PROVE IInv'
  <2>1. button' = [step |-> "move", target |-> q, left |-> Len(queue[index])]
    BY <1>4 DEF Move, Awaited
  <2>2. button' \in Buttons /\ button'.step = "move" /\ button'.left = Len(queue[index])
    BY <1>1, <2>1 DEF Buttons
  <2> QED BY <1>1, <1>2, <1>4, <2>2, ButtonKeeps DEF Move
<1>5. CASE Moved
  <2>1. button \in Buttons /\ button.target \in Questions
    BY <1>1, <1>5, ButtonFields DEF Moved
  <2>2. index' \in Questions /\ button' = NoButton /\ button'.step = "none"
    BY <1>5, <2>1, ButtonFields DEF Moved
  <2>3. ~hurried => queue[index] = <<>> /\ queue[index'] = <<>>
    BY <1>2, <1>3, <1>5, <2>2 DEF Moved
  <2> QED BY <1>1, <1>5, <2>2, <2>3, ButtonKeeps DEF Moved
<1>6. CASE Submit
  <2>1. button' = [step |-> "finish", left |-> Len(queue[index])]
    BY <1>6 DEF Submit, Awaited
  <2>2. button' \in Buttons /\ button'.step = "finish" /\ button'.left = Len(queue[index])
    BY <1>1, <2>1 DEF Buttons
  <2> QED BY <1>1, <1>2, <1>6, <2>2, ButtonKeeps DEF Submit
<1>7. CASE SendFinish
  <2>1. button' \in Buttons /\ button'.step = "submitted"
    BY <1>7 DEF SendFinish, Buttons
  <2>2. ~hurried => queue[index] = <<>>
    BY <1>2, <1>3, <1>7 DEF SendFinish
  <2> QED BY <1>1, <1>2, <1>7, <2>1, <2>2, ButtonKeeps DEF SendFinish
<1>8. CASE Complete
  <2>1. button' \in Buttons /\ button'.step \in {"completed", "refused"}
    BY <1>8 DEF Complete, Buttons
  <2>2. ~hurried => queue[index] = <<>>
    BY <1>2, <1>8 DEF Complete
  <2> QED BY <1>1, <1>8, <2>1, <2>2, ButtonKeeps DEF Complete
<1>9. CASE FinishReturns \/ FinishFails
  <2>1. button' = NoButton /\ button'.step = "none"
    BY <1>9, ButtonFields DEF FinishReturns, FinishFails
  <2> QED BY <1>1, <1>2, <1>9, <2>1, ButtonKeeps DEF FinishReturns, FinishFails
<1>10. CASE Expire
  <2>1. TypeOK /\ QueuesOK /\ LastSaveWins /\ CalmOK
    BY DEF IInv
  <2>2. TypeOK' /\ QueuesOK' /\ LastSaveWins' /\ CalmOK'
    BY <1>10, <2>1 DEF Expire, TypeOK, QueuesOK, LastSaveWins, CalmOK
  <2> QED BY <2>2 DEF IInv
<1> QED BY <1>4, <1>5, <1>6, <1>7, <1>8, <1>9, <1>10

-----------------------------------------------------------------------------
(* Theorems *)

LEMMA InitEstablishesIInv == Init => IInv
<1> SUFFICES ASSUME Init PROVE IInv
  OBVIOUS
<1>1. Trim(Empty) = Empty
  BY Padded, Zenon DEF Trim, Empty
<1>2. TypeOK
  <2>1. /\ queue \in [Questions -> Seq(Texts)] /\ typed \in 0 .. MaxTyped
        /\ \A q \in Questions : request[q] = "none" /\ queue[q] = <<>>
    BY PageConstants DEF Init
  <2>2. NoButton.step = "none"
    BY ButtonFields
  <2> QED BY <2>1, <2>2, SomeQuestion DEF Init, TypeOK
<1>3. QueuesOK
  BY DEF Init, QueuesOK
<1>4. LastSaveWins
  BY <1>1 DEF Init, LastSaveWins
<1>5. CalmOK
  BY ButtonFields DEF Init, CalmOK
<1> QED BY <1>2, <1>3, <1>4, <1>5 DEF IInv

LEMMA NextStep == IInv /\ [Next]_page => IInv'
<1>1. IInv /\ UNCHANGED page => IInv'
  BY DEF IInv, TypeOK, QueuesOK, LastSaveWins, CalmOK, page, server, history
<1> QED BY <1>1, TypeKeeps, SaveKeeps, ButtonSteps DEF Next

\* The queues of saves, the requests and the buttons fit together in every
\* reachable state of the page (ParticipantInterviewPage.tsx).
THEOREM Invariance == Spec => []IInv
<1> QED BY InitEstablishesIInv, NextStep, PTL DEF Spec

\* A request is under way exactly for the questions that have something to
\* save, and a button waits for no save that is not queued.
THEOREM TypeCorrect == Spec => []TypeOK
<1>1. IInv => TypeOK
  BY DEF IInv
<1> QED BY <1>1, Invariance, PTL

\* The last text typed for a question is the one that stays stored, unless its
\* save failed (updateAnswer).
THEOREM LastSave == Spec => []LastSaveWins
<1>1. IInv => LastSaveWins
  BY DEF IInv
<1> QED BY <1>1, Invariance, PTL

\* Who waits for the buttons and whose saves succeed submits every answer
\* (move, finish, persistCurrent).
THEOREM CalmSubmission == Spec => []CalmSubmissionIsComplete
<1>1. IInv => CalmSubmissionIsComplete
  BY DEF IInv, CalmOK, LastSaveWins, CalmSubmissionIsComplete
<1> QED BY <1>1, Invariance, PTL
=============================================================================
