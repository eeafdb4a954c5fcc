---------------------------- MODULE NotepadMdiProofs ----------------------------
(***************************************************************************)
(* The properties of the Notepad, of the MDI frame and of message filters,  *)
(* for all texts, files, children and filters and every bound.  All three   *)
(* are re-entered by what they call.  NotepadInv ties the editor to its     *)
(* history and says what each call under way, asked about or half way       *)
(* through a save, may still rely on; only the innermost one runs, so the   *)
(* others need to be told no more than that their document was replaced.    *)
(* MdiInv says that the host's list has no child twice.  FilterInv says     *)
(* which filters still wait for the message.                                *)
(***************************************************************************)
EXTENDS Notepad, MdiHost, MessageFilters, WorkspaceLemmas

-----------------------------------------------------------------------------
(* The undo history.                                                        *)

(* What the trimming of one text keeps: the last text and, if it says that  *)
(* an entry is the saved one, that entry.                                   *)
LEMMA TrimmedProperties ==
  ASSUME NEW e \in Seq(Text), NEW n \in 1..MaximumEntries + 1, Len(e) = n, NEW s \in 0..n,
         NEW w, w = Trimmed([entries |-> e, current |-> n, saved |-> s])
  PROVE  /\ TextHistoryOK(w) /\ Current(w) = e[n]
         /\ w.saved # 0 => s # 0 /\ w.entries[w.saved] = e[s]
<1>1. MaximumEntries \in Nat /\ MaximumEntries >= 2 /\ n \in Nat /\ s \in Nat
  BY TextHistoryAssumption
<1>2. PICK d : d = IF n > MaximumEntries THEN n - MaximumEntries ELSE 0
  OBVIOUS
<1>3. d \in 0..1 /\ d < n /\ n - d <= MaximumEntries
  BY <1>1, <1>2
<1>4. PICK t : t = SubSeq(e, d + 1, n)
  OBVIOUS
<1>5. PICK r : r = IF s <= d THEN 0 ELSE s - d
  OBVIOUS
<1>6. w = [entries |-> t, current |-> n - d, saved |-> r]
  <2>1. PICK v : v = [entries |-> e, current |-> n, saved |-> s]
    OBVIOUS
  <2>2. v.entries = e /\ v.current = n /\ v.saved = s /\ Len(v.entries) = n
    BY <2>1
  <2>3. d = IF Len(v.entries) > MaximumEntries THEN Len(v.entries) - MaximumEntries ELSE 0
    BY <1>2, <2>2
  <2>4. Trimmed(v) = [entries |-> SubSeq(v.entries, d + 1, Len(v.entries)),
                      current |-> v.current - d,
                      saved |-> IF v.saved <= d THEN 0 ELSE v.saved - d]
    BY <2>3, Zenon DEF Trimmed
  <2> QED BY <1>4, <1>5, <2>1, <2>2, <2>4
<1>7. t \in Seq(Text) /\ Len(t) = n - d /\ \A i \in 1..n - d : t[i] = e[d + i]
  <2>1. PICK a : a = d + 1
    OBVIOUS
  <2>2. a \in Int /\ n \in Int /\ a <= n /\ \A i \in a..n : e[i] \in Text
    BY <1>1, <1>3, <2>1
  <2>3. /\ SubSeq(e, a, n) \in Seq(Text)
        /\ Len(SubSeq(e, a, n)) = (IF a <= n THEN n - a + 1 ELSE 0)
        /\ \A i \in 1..n - a + 1 : SubSeq(e, a, n)[i] = e[a + i - 1]
    BY <2>2, SubSeqProperties
  <2>4. t = SubSeq(e, a, n)
    BY <1>4, <2>1
  <2>5. n - a + 1 = n - d /\ \A i \in Int : a + i - 1 = d + i
    BY <1>1, <1>3, <2>1
  <2>6. Len(t) = n - d
    BY <2>2, <2>3, <2>4, <2>5
  <2>7. \A i \in 1..n - d : i \in Int /\ t[i] = e[a + i - 1]
    BY <2>3, <2>4, <2>5
  <2>8. \A i \in 1..n - d : t[i] = e[d + i]
    BY <2>5, <2>7, Zenon
  <2> QED BY <2>3, <2>4, <2>6, <2>8
<1>8. r \in 0..n - d /\ (r # 0 => r \in 1..n - d /\ d + r = s /\ s # 0)
  BY <1>1, <1>3, <1>5
<1>9. w \in History
  BY <1>1, <1>3, <1>6, <1>7, <1>8 DEF History
<1>10. TextHistoryOK(w)
  BY <1>1, <1>3, <1>6, <1>7, <1>8, <1>9 DEF TextHistoryOK
<1>11. Current(w) = e[n]
  BY <1>1, <1>3, <1>6, <1>7 DEF Current
<1>12. w.saved # 0 => s # 0 /\ w.entries[w.saved] = e[s]
  BY <1>6, <1>7, <1>8
<1> QED BY <1>10, <1>11, <1>12

(* Record ends with the new text, and keeps the saved entry or forgets that *)
(* there is one.                                                            *)
LEMMA RecordedProperties ==
  ASSUME NEW h, TextHistoryOK(h), NEW text \in Text, text # Current(h),
         NEW w, w = Recorded(h, text)
  PROVE  /\ TextHistoryOK(w) /\ Current(w) = text
         /\ w.saved # 0 => h.saved # 0 /\ w.entries[w.saved] = h.entries[h.saved]
<1>1. /\ h \in History /\ h.entries \in Seq(Text) /\ Len(h.entries) \in Nat
      /\ h.current \in Nat /\ h.current \in 1..Len(h.entries)
      /\ h.saved \in 0..Len(h.entries) /\ Len(h.entries) <= MaximumEntries
      /\ MaximumEntries \in Nat
  BY TextHistoryAssumption DEF TextHistoryOK, History
<1>2. PICK n, front : n = h.current /\ front = SubSeq(h.entries, 1, n)
  OBVIOUS
<1>3. front \in Seq(Text) /\ Len(front) = n /\ \A i \in 1..n : front[i] = h.entries[i]
  <2>1. n \in Int /\ \A i \in 1..n : h.entries[i] \in Text
    BY <1>1, <1>2
  <2>2. /\ SubSeq(h.entries, 1, n) \in Seq(Text)
        /\ Len(SubSeq(h.entries, 1, n)) = (IF 1 <= n THEN n - 1 + 1 ELSE 0)
        /\ \A i \in 1..n - 1 + 1 : SubSeq(h.entries, 1, n)[i] = h.entries[1 + i - 1]
    BY <2>1, SubSeqProperties
  <2> QED BY <1>1, <1>2, <2>2
<1>4. PICK e, k : e = Append(front, text) /\ k = n + 1
  OBVIOUS
<1>5. e \in Seq(Text) /\ Len(e) = k /\ e[k] = text /\ \A i \in 1..n : e[i] = h.entries[i]
  BY <1>1, <1>2, <1>3, <1>4, AppendProperties
<1>6. PICK s : s = IF h.saved > n THEN 0 ELSE h.saved
  OBVIOUS
<1>7. s \in 0..k /\ k \in 1..MaximumEntries + 1
  BY <1>1, <1>2, <1>4, <1>6
<1>8. s # 0 => h.saved # 0 /\ e[s] = h.entries[h.saved]
  <2>1. s # 0 => s = h.saved /\ s \in 1..n
    BY <1>1, <1>2, <1>6
  <2> QED BY <1>5, <2>1
<1>9. w = Trimmed([entries |-> e, current |-> k, saved |-> s])
  BY <1>2, <1>4, <1>6 DEF Recorded
<1>10. /\ TextHistoryOK(w) /\ Current(w) = e[k]
       /\ w.saved # 0 => s # 0 /\ w.entries[w.saved] = e[s]
  BY <1>5, <1>7, <1>9, TrimmedProperties
<1> QED BY <1>5, <1>8, <1>10

LEMMA NewHistoryProperties ==
  ASSUME NEW text \in Text
  PROVE  /\ TextHistoryOK(NewHistory(text)) /\ Current(NewHistory(text)) = text
         /\ ~IsModified(NewHistory(text))
         /\ NewHistory(text).entries[NewHistory(text).saved] = text
<1>1. <<text>> \in Seq(Text) /\ Len(<<text>>) = 1 /\ <<text>>[1] = text
  OBVIOUS
<1>2. NewHistory(text) = [entries |-> <<text>>, current |-> 1, saved |-> 1]
  BY DEF NewHistory
<1>3. NewHistory(text) \in History
  BY <1>1, <1>2 DEF History
<1> QED
  BY <1>1, <1>2, <1>3, TextHistoryAssumption DEF TextHistoryOK, Current, IsModified

(* Undo and Redo stay within the entries, MarkSaved too.                    *)
LEMMA HistoryMoves ==
  ASSUME NEW h, TextHistoryOK(h)
  PROVE  /\ CanUndo(h) => TextHistoryOK(Undone(h)) /\ Undone(h).saved = h.saved
                          /\ Undone(h).entries = h.entries
         /\ CanRedo(h) => TextHistoryOK(Redone(h)) /\ Redone(h).saved = h.saved
                          /\ Redone(h).entries = h.entries
         /\ TextHistoryOK(MarkedSaved(h)) /\ ~IsModified(MarkedSaved(h))
         /\ Current(MarkedSaved(h)) = Current(h)
         /\ MarkedSaved(h).entries[MarkedSaved(h).saved] = Current(h)
<1>1. /\ h = [entries |-> h.entries, current |-> h.current, saved |-> h.saved]
      /\ h.entries \in Seq(Text) /\ h.current \in Nat /\ h.saved \in Nat
      /\ Len(h.entries) \in Nat
      /\ h.current \in 1..Len(h.entries) /\ h.saved \in 0..Len(h.entries)
      /\ Len(h.entries) <= MaximumEntries
  BY DEF TextHistoryOK, History
<1>2. CanUndo(h) => TextHistoryOK(Undone(h)) /\ Undone(h).saved = h.saved
                    /\ Undone(h).entries = h.entries
  <2>1. Undone(h) = [entries |-> h.entries, current |-> h.current - 1, saved |-> h.saved]
    BY <1>1 DEF Undone
  <2> QED BY <1>1, <2>1 DEF CanUndo, TextHistoryOK, History
<1>3. CanRedo(h) => TextHistoryOK(Redone(h)) /\ Redone(h).saved = h.saved
                    /\ Redone(h).entries = h.entries
  <2>1. Redone(h) = [entries |-> h.entries, current |-> h.current + 1, saved |-> h.saved]
    BY <1>1 DEF Redone
  <2> QED BY <1>1, <2>1 DEF CanRedo, TextHistoryOK, History
<1>4. MarkedSaved(h) = [entries |-> h.entries, current |-> h.current, saved |-> h.current]
  BY <1>1 DEF MarkedSaved
<1>5. TextHistoryOK(MarkedSaved(h))
  BY <1>1, <1>4 DEF TextHistoryOK, History
<1> QED BY <1>2, <1>3, <1>4, <1>5 DEF IsModified, Current

-----------------------------------------------------------------------------
(* The inductive invariant of the editor.                                   *)

Step == {"prompt", "dialog", "confirmed", "written", "verified", "moved", "failed"}

CallType ==
  [goal : {"new", "open", "recent", "close", "save"}, path : File \cup {NoFile}, index : Nat,
   step : Step, target : File \cup {NoFile}, text : Text, expected : Nat,
   discard : BOOLEAN, stale : BOOLEAN, edited : BOOLEAN]

FileType == [text : Text, stamp : Nat, late : BOOLEAN]

NotepadTypes ==
  /\ editor \in Text /\ saved \in Text
  /\ document \in [path : File \cup {NoFile}, dirty : BOOLEAN]
  /\ stamp \in Nat /\ clock \in Nat
  /\ recent \in Seq(File)
  /\ open \in BOOLEAN
  /\ disk \in [File -> FileType]

(* The editor shows the current text of the history, the star says that it  *)
(* is not the saved entry, and the saved entry, while the history still has *)
(* it, is the text that was saved.                                          *)
HistoryAgrees ==
  /\ TextHistoryOK(history)
  /\ editor = Current(history)
  /\ document.dirty <=> IsModified(history)
  /\ history.saved # 0 => history.entries[history.saved] = saved

(* What a call has found out still holds, for the text t in the editor, the *)
(* text s of the last save or load and the files d.                         *)
Waiting(c) == c.step \in {"prompt", "dialog"}

CallIsSound(c, t, s, d) ==
  /\ c.step \in {"written", "verified", "moved"} => c.target \in File /\ c.text = t
  /\ c.step = "verified" /\ c.expected # 0 =>
       d[c.target].stamp \in {0, c.expected} \/ d[c.target].late
  /\ c.step = "confirmed" => c.discard \/ t = s
  /\ c.stale /\ ~c.edited => t = s

(* Only the innermost call runs: the others wait for an answer.             *)
CallsAreSound(k, t, s, d) ==
  /\ k \in Seq(CallType)
  /\ \A i \in DOMAIN k : CallIsSound(k[i], t, s, d)
  /\ \A i \in DOMAIN k : i # Len(k) => Waiting(k[i])

NotepadInv == NotepadTypes /\ HistoryAgrees /\ CallsAreSound(calls, editor, saved, disk)

(* A call that waits is sound whatever happens to the document, as long as  *)
(* it is told that the document is another one.                             *)
LEMMA WaitingIsSound ==
  ASSUME NEW c, Waiting(c), NEW t, NEW s, NEW d, NEW t2, NEW s2, NEW d2,
         CallIsSound(c, t, s, d), t2 = s2 \/ (t2 = t /\ s2 = s)
  PROVE  CallIsSound(c, t2, s2, d2)
<1>1. c.step # "written" /\ c.step # "verified" /\ c.step # "moved" /\ c.step # "confirmed"
  BY DEF Waiting
<1> QED BY <1>1 DEF CallIsSound

LEMMA CallPushed ==
  ASSUME NEW k, NEW t, NEW s, NEW d, CallsAreSound(k, t, s, d),
         k # <<>> => Waiting(Last(k)),
         NEW c \in CallType, CallIsSound(c, t, s, d)
  PROVE  CallsAreSound(Append(k, c), t, s, d)
<1>1. PICK n, j : n = Len(k) /\ j = Append(k, c)
  OBVIOUS
<1>2. k \in Seq(CallType) /\ n \in Nat /\ DOMAIN k = 1..n
  BY <1>1 DEF CallsAreSound
<1>3. /\ j \in Seq(CallType) /\ Len(j) = n + 1 /\ DOMAIN j = 1..n + 1
      /\ j[n + 1] = c /\ \A i \in 1..n : j[i] = k[i]
  BY <1>1, <1>2, AppendProperties
<1>4. \A i \in 1..n : Waiting(k[i])
  <2>1. n # 0 => Waiting(k[n])
    BY <1>1, <1>2 DEF Last
  <2> QED BY <1>1, <1>2, <2>1 DEF CallsAreSound
<1>5. \A i \in 1..n + 1 : i = n + 1 \/ i \in 1..n
  BY <1>2
<1>6. \A i \in DOMAIN j : CallIsSound(j[i], t, s, d)
  <2>1. \A i \in 1..n : CallIsSound(k[i], t, s, d)
    BY <1>2 DEF CallsAreSound
  <2> QED BY <1>3, <1>5, <2>1
<1>7. \A i \in DOMAIN j : i # Len(j) => Waiting(j[i])
  BY <1>3, <1>4, <1>5
<1> QED BY <1>1, <1>3, <1>6, <1>7 DEF CallsAreSound

LEMMA CallAdvanced ==
  ASSUME NEW k, NEW t, NEW s, NEW d, CallsAreSound(k, t, s, d), k # <<>>,
         NEW t2, NEW s2, NEW d2, t2 = s2 \/ (t2 = t /\ s2 = s),
         NEW c \in CallType, CallIsSound(c, t2, s2, d2)
  PROVE  CallsAreSound([k EXCEPT ![Len(k)] = c], t2, s2, d2)
<1>1. PICK n, j : n = Len(k) /\ j = [k EXCEPT ![Len(k)] = c]
  OBVIOUS
<1>2. k \in Seq(CallType) /\ n \in Nat /\ n \in 1..n /\ DOMAIN k = 1..n
  BY <1>1 DEF CallsAreSound
<1>3. /\ j \in Seq(CallType) /\ Len(j) = n /\ DOMAIN j = 1..n
      /\ j[n] = c /\ \A i \in 1..n : i # n => j[i] = k[i]
  BY <1>1, <1>2
<1>4. \A i \in 1..n : i # n => Waiting(k[i]) /\ CallIsSound(k[i], t, s, d)
  BY <1>1, <1>2 DEF CallsAreSound
<1>5. \A i \in 1..n : i # n => CallIsSound(k[i], t2, s2, d2)
  BY <1>4, WaitingIsSound
<1>6. \A i \in DOMAIN j : CallIsSound(j[i], t2, s2, d2)
  BY <1>3, <1>5
<1>7. \A i \in DOMAIN j : i # Len(j) => Waiting(j[i])
  BY <1>3, <1>4
<1> QED BY <1>1, <1>3, <1>6, <1>7 DEF CallsAreSound

(* The innermost call ends, and the others learn that they are outdated or  *)
(* nothing has happened to the document.                                    *)
LEMMA CallEnded ==
  ASSUME NEW k, NEW t, NEW s, NEW d, CallsAreSound(k, t, s, d), k # <<>>,
         NEW t2, NEW s2, NEW d2
  PROVE  /\ t2 = s2 \/ (t2 = t /\ s2 = s) => CallsAreSound(Front(k), t2, s2, d2)
         /\ t2 = s2 => CallsAreSound([i \in DOMAIN Front(k) |->
                                        [k[i] EXCEPT !.stale = TRUE, !.edited = FALSE]],
                                     t2, s2, d2)
<1>1. PICK n, j : n = Len(k) /\ j = Front(k)
  OBVIOUS
<1>2. k \in Seq(CallType) /\ n \in Nat /\ n \in 1..n /\ DOMAIN k = 1..n
  BY <1>1 DEF CallsAreSound
<1>3. /\ j \in Seq(CallType) /\ Len(j) = n - 1 /\ DOMAIN j = 1..n - 1
      /\ \A i \in 1..n - 1 : j[i] = k[i]
  <2>1. PICK m : m = n - 1
    OBVIOUS
  <2>2. m \in Nat /\ m \in Int /\ \A i \in 1..m : k[i] \in CallType
    BY <1>2, <2>1
  <2>3. /\ SubSeq(k, 1, m) \in Seq(CallType)
        /\ Len(SubSeq(k, 1, m)) = (IF 1 <= m THEN m - 1 + 1 ELSE 0)
        /\ \A i \in 1..m - 1 + 1 : SubSeq(k, 1, m)[i] = k[1 + i - 1]
    BY <2>2, SubSeqProperties, 1 \in Int
  <2>4. j = SubSeq(k, 1, m)
    BY <1>1, <2>1 DEF Front
  <2>5. Len(j) = m /\ \A i \in 1..m : j[i] = k[i]
    BY <2>2, <2>3, <2>4
  <2> QED BY <2>1, <2>2, <2>3, <2>4, <2>5
<1>4. \A i \in 1..n - 1 : /\ k[i] \in CallType /\ Waiting(k[i])
                          /\ CallIsSound(k[i], t, s, d)
  BY <1>1, <1>2 DEF CallsAreSound
<1>5. ASSUME t2 = s2 \/ (t2 = t /\ s2 = s) PROVE CallsAreSound(j, t2, s2, d2)
  <2>1. \A i \in 1..n - 1 : CallIsSound(k[i], t2, s2, d2)
    BY <1>4, <1>5, WaitingIsSound
  <2> QED BY <1>3, <1>4, <2>1 DEF CallsAreSound
<1>6. ASSUME t2 = s2,
             NEW o, o = [i \in DOMAIN j |-> [k[i] EXCEPT !.stale = TRUE, !.edited = FALSE]]
      PROVE  CallsAreSound(o, t2, s2, d2)
  <2>1. \A i \in 1..n - 1 : o[i] \in CallType /\ Waiting(o[i])
    BY <1>3, <1>4, <1>6 DEF CallType, Waiting
  <2>2. o \in Seq(CallType) /\ DOMAIN o = 1..n - 1
    <3>1. PICK m \in Nat : m = n - 1
      BY <1>2
    <3>2. o \in [1..m -> CallType]
      BY <1>3, <1>6, <2>1, <3>1
    <3> QED BY <3>1, <3>2
  <2>3. \A i \in 1..n - 1 : CallIsSound(o[i], t2, s2, d2)
    BY <1>6, <2>1 DEF Waiting, CallIsSound
  <2> QED BY <2>1, <2>2, <2>3 DEF CallsAreSound
<1> QED BY <1>1, <1>5, <1>6

(* RecentFileList keeps a list of paths.                                    *)
LEMMA RecentIsTyped ==
  ASSUME recent \in Seq(File), NEW p \in File
  PROVE  RecentWithout(p) \in Seq(File) /\ RecentWith(p) \in Seq(File)
<1>1. PICK w : w = RecentWithout(p)
  OBVIOUS
<1>2. w \in Seq(File)
  <2>1. CASE p \in Range(recent)
    <3>1. PICK i : i = CHOOSE j \in DOMAIN recent : recent[j] = p
      OBVIOUS
    <3>2. \E j \in DOMAIN recent : recent[j] = p
      BY <2>1 DEF Range
    <3>3. i \in DOMAIN recent
      BY <3>1, <3>2
    <3>4. w = RemoveAt(recent, i)
      BY <1>1, <2>1, <3>1 DEF RecentWithout
    <3> QED BY <3>3, <3>4, RemoveAtProperties
  <2>2. CASE p \notin Range(recent)
    BY <1>1, <2>2 DEF RecentWithout
  <2> QED BY <2>1, <2>2
<1>3. PICK l, n : l = <<p>> \o w /\ n = IF Len(l) > MaxRecent THEN MaxRecent ELSE Len(l)
  OBVIOUS
<1>4. l \in Seq(File) /\ Len(l) \in Nat /\ \A i \in 1..Len(l) : l[i] \in File
  BY <1>2, <1>3
<1>5. n \in Int /\ n <= Len(l)
  BY <1>3, <1>4, NotepadAssumption
<1>6. RecentWith(p) = SubSeq(l, 1, n)
  BY <1>1, <1>3 DEF RecentWith
<1>7. SubSeq(l, 1, n) \in Seq(File)
  <2>1. \A i \in 1..n : l[i] \in File
    BY <1>4, <1>5
  <2> QED BY <1>5, <2>1, SubSeqProperties, 1 \in Int
<1> QED BY <1>1, <1>2, <1>6, <1>7

LEMMA CleanIsSaved ==
  ASSUME HistoryAgrees, ~document.dirty
  PROVE  editor = saved
<1>1. history.saved = history.current /\ history.current # 0
  BY DEF HistoryAgrees, IsModified, TextHistoryOK
<1> QED BY <1>1 DEF HistoryAgrees, Current

LEMMA InnermostCall ==
  ASSUME NotepadInv, calls # <<>>
  PROVE  top \in CallType /\ CallIsSound(top, editor, saved, disk)
<1>1. calls \in Seq(CallType) /\ Len(calls) \in DOMAIN calls /\ top = calls[Len(calls)]
  BY DEF NotepadInv, CallsAreSound, Last, top
<1> QED BY <1>1 DEF NotepadInv, CallsAreSound

(* Steps that move the calls alone.                                         *)
LEMMA OnlyCalls ==
  ASSUME NotepadInv, UNCHANGED session, UNCHANGED <<disk, clock>>,
         CallsAreSound(calls', editor, saved, disk)
  PROVE  NotepadInv'
BY DEF NotepadInv, NotepadTypes, HistoryAgrees, session

LEMMA Advances ==
  ASSUME NotepadInv, UNCHANGED session, UNCHANGED <<disk, clock>>, calls # <<>>,
         NEW c \in CallType, CallIsSound(c, editor, saved, disk), calls' = Advanced(c)
  PROVE  NotepadInv'
<1>1. PICK t, s, d, k : t = editor /\ s = saved /\ d = disk /\ k = calls
  OBVIOUS
<1>2. CallsAreSound([k EXCEPT ![Len(k)] = c], t, s, d)
  BY <1>1, CallAdvanced DEF NotepadInv
<1>3. CallsAreSound(calls', editor, saved, disk)
  BY <1>1, <1>2 DEF Advanced
<1> QED BY <1>3, OnlyCalls

LEMMA Ends ==
  ASSUME NotepadInv, UNCHANGED session, UNCHANGED <<disk, clock>>, calls # <<>>,
         calls' = Front(calls)
  PROVE  NotepadInv'
<1>1. PICK t, s, d, k : t = editor /\ s = saved /\ d = disk /\ k = calls
  OBVIOUS
<1>2. CallsAreSound(Front(k), t, s, d)
  BY <1>1, CallEnded DEF NotepadInv
<1>3. CallsAreSound(calls', editor, saved, disk)
  BY <1>1, <1>2
<1> QED BY <1>3, OnlyCalls

LEMMA Begins ==
  ASSUME NotepadInv, NEW goal \in {"new", "open", "recent", "close", "save"},
         NEW p \in File \cup {NoFile}, NEW i \in Nat, Begin(Call(goal, p, i)),
         calls # <<>> => Waiting(top)
  PROVE  NotepadInv'
<1>1. PICK c : c = IF document.dirty THEN [Call(goal, p, i) EXCEPT !.step = "prompt"]
                   ELSE Call(goal, p, i)
  OBVIOUS
<1>2. /\ c \in CallType /\ ~c.stale /\ c.step \in {"prompt", "confirmed"}
      /\ c.step = "confirmed" => ~document.dirty
  BY <1>1, NotepadAssumption DEF Call, CallType, Step
<1>3. CallIsSound(c, editor, saved, disk)
  BY <1>2, CleanIsSaved DEF CallIsSound, NotepadInv
<1>4. PICK t, s, d, k : t = editor /\ s = saved /\ d = disk /\ k = calls
  OBVIOUS
<1>5. k # <<>> => Waiting(Last(k))
  BY <1>4 DEF top
<1>6. CallsAreSound(Append(k, c), t, s, d)
  BY <1>2, <1>3, <1>4, <1>5, CallPushed DEF NotepadInv
<1>7. calls' = Append(calls, c) /\ UNCHANGED session /\ UNCHANGED <<disk, clock>>
  BY <1>1 DEF Begin
<1>8. CallsAreSound(calls', editor, saved, disk)
  BY <1>4, <1>6, <1>7
<1> QED BY <1>7, <1>8, OnlyCalls

(* What SaveDocument goes on with.                                          *)
LEMMA WritesTheEditor ==
  ASSUME NotepadInv, NEW c \in CallType, c.stale /\ ~c.edited => editor = saved, NEW p \in File
  PROVE  WriteTo(c, p) \in CallType /\ CallIsSound(WriteTo(c, p), editor, saved, disk)
<1>1. PICK w : w = WriteTo(c, p)
  OBVIOUS
<1>2. PICK v : v = [c EXCEPT !.step = "written", !.target = p, !.text = editor,
                             !.expected = IF p = document.path THEN stamp ELSE 0]
  OBVIOUS
<1>3. PICK f : f = [c EXCEPT !.step = "failed"]
  OBVIOUS
<1>4. w = v \/ w = f
  BY <1>1, <1>2, <1>3 DEF WriteTo
<1>5. /\ v \in CallType /\ v.step = "written" /\ v.target = p /\ v.text = editor
      /\ v.stale = c.stale /\ v.edited = c.edited
  BY <1>2 DEF CallType, Step, NotepadInv, NotepadTypes
<1>6. f \in CallType /\ f.step = "failed" /\ f.stale = c.stale
      /\ f.edited = c.edited
  BY <1>3 DEF CallType, Step
<1>7. CallIsSound(v, editor, saved, disk)
  BY <1>5 DEF CallIsSound
<1>8. CallIsSound(f, editor, saved, disk)
  BY <1>6 DEF CallIsSound
<1> QED BY <1>1, <1>4, <1>5, <1>6, <1>7, <1>8

LEMMA SavingIsSound ==
  ASSUME NotepadInv, NEW c \in CallType, c.stale /\ ~c.edited => editor = saved
  PROVE  Saving(c) \in CallType /\ CallIsSound(Saving(c), editor, saved, disk)
<1>1. CASE document.path = NoFile
  <2>1. PICK v : v = [c EXCEPT !.step = "dialog"]
    OBVIOUS
  <2>2. v \in CallType /\ v.step = "dialog" /\ v.stale = c.stale
        /\ v.edited = c.edited
    BY <2>1 DEF CallType, Step
  <2>3. CallIsSound(v, editor, saved, disk)
    BY <2>2 DEF CallIsSound
  <2> QED BY <1>1, <2>1, <2>2, <2>3 DEF Saving
<1>2. CASE document.path # NoFile
  <2>1. PICK p \in File : p = document.path
    BY <1>2 DEF NotepadInv, NotepadTypes
  <2>2. Saving(c) = WriteTo(c, p)
    BY <1>2, <2>1 DEF Saving
  <2> QED BY <2>2, WritesTheEditor
<1> QED BY <1>1, <1>2

LEMMA NotepadInvInit == NotepadInit => NotepadInv
<1> SUFFICES ASSUME NotepadInit PROVE NotepadInv
  OBVIOUS
<1>1. EmptyText \in Text /\ NoFile \in File \cup {NoFile}
  BY NotepadAssumption
<1>2. Absent \in FileType /\ [text |-> EmptyText, stamp |-> 1, late |-> FALSE] \in FileType
  BY <1>1 DEF Absent, FileType
<1>3. disk \in [File -> FileType]
  BY <1>2 DEF NotepadInit
<1>4. NotepadTypes
  BY <1>1, <1>3 DEF NotepadInit, NotepadTypes
<1>5. HistoryAgrees
  BY <1>1, NewHistoryProperties DEF NotepadInit, HistoryAgrees
<1>6. CallsAreSound(calls, editor, saved, disk)
  BY DEF NotepadInit, CallsAreSound
<1> QED BY <1>4, <1>5, <1>6 DEF NotepadInv

(* One step of the program, action by action.                               *)
LEMMA EditedKeeps ==
  ASSUME NotepadInv, NEW text \in Text, Edited(text)
  PROVE  NotepadTypes' /\ HistoryAgrees'
<1>1. PICK h, w : h = history /\ w = Recorded(h, text)
  OBVIOUS
<1>2. /\ TextHistoryOK(h) /\ text # Current(h)
      /\ h.saved # 0 => h.entries[h.saved] = saved
  BY <1>1 DEF NotepadInv, HistoryAgrees, Edited
<1>3. /\ TextHistoryOK(w) /\ Current(w) = text
      /\ w.saved # 0 => h.saved # 0 /\ w.entries[w.saved] = h.entries[h.saved]
  BY <1>1, <1>2, RecordedProperties
<1>4. /\ history' = w /\ editor' = text /\ UNCHANGED <<stamp, recent, open, disk, clock, saved>>
      /\ document' = [document EXCEPT !.dirty = IsModified(w)]
  BY <1>1 DEF Edited
<1>5. IsModified(w) \in BOOLEAN
  BY DEF IsModified
<1>6. NotepadTypes'
  BY <1>4, <1>5 DEF NotepadInv, NotepadTypes
<1>7. document'.dirty = IsModified(w)
  BY <1>4 DEF NotepadInv, NotepadTypes
<1>8. HistoryAgrees'
  BY <1>2, <1>3, <1>4, <1>7 DEF HistoryAgrees
<1> QED BY <1>6, <1>8

LEMMA NotepadInvEdit ==
  ASSUME NotepadInv, NEW text \in Text, Edit(text)
  PROVE  NotepadInv'
<1>1. calls = <<>> /\ calls' = calls /\ Edited(text)
  BY DEF Edit, Idle
<1>2. CallsAreSound(calls, editor, saved, disk)'
  BY <1>1 DEF CallsAreSound
<1> QED BY <1>1, <1>2, EditedKeeps DEF NotepadInv

(* All the calls wait while the Replace dialog is heard, and learn of it.   *)
LEMMA NotepadInvReplace ==
  ASSUME NotepadInv, NEW text \in Text, ReplaceSelection(text)
  PROVE  NotepadInv'
<1>1. PICK k, j : k = calls /\ j = calls'
  OBVIOUS
<1>2. /\ k \in Seq(CallType) /\ Len(k) \in Nat /\ DOMAIN k = 1..Len(k) /\ k # <<>>
      /\ j = [i \in DOMAIN k |-> [k[i] EXCEPT !.edited = TRUE]] /\ Edited(text)
  BY <1>1 DEF NotepadInv, CallsAreSound, ReplaceSelection, Asking
<1>3. \A i \in DOMAIN k : k[i] \in CallType /\ Waiting(k[i])
  <2>1. Waiting(k[Len(k)])
    BY <1>1 DEF ReplaceSelection, Asking, top, Last, Waiting
  <2>2. \A i \in DOMAIN k : i # Len(k) => Waiting(k[i])
    BY <1>1 DEF NotepadInv, CallsAreSound
  <2> QED BY <1>2, <2>1, <2>2
<1>4. \A i \in DOMAIN k : j[i] \in CallType /\ Waiting(j[i]) /\ j[i].edited
  BY <1>2, <1>3 DEF CallType, Waiting
<1>5. j \in Seq(CallType) /\ DOMAIN j = DOMAIN k
  BY <1>2, <1>4
<1>6. \A i \in DOMAIN j : \A t, s, d : CallIsSound(j[i], t, s, d)
  BY <1>4, <1>5 DEF Waiting, CallIsSound
<1>7. CallsAreSound(calls, editor, saved, disk)'
  BY <1>1, <1>4, <1>5, <1>6 DEF CallsAreSound
<1> QED BY <1>2, <1>7, EditedKeeps DEF NotepadInv

LEMMA NotepadInvHistory ==
  ASSUME NotepadInv, Undo \/ Redo
  PROVE  NotepadInv'
<1>1. PICK h : h = history
  OBVIOUS
<1>2. TextHistoryOK(h) /\ (h.saved # 0 => h.entries[h.saved] = saved)
  BY <1>1 DEF NotepadInv, HistoryAgrees
<1>3. PICK w : /\ TextHistoryOK(w) /\ w.saved = h.saved /\ w.entries = h.entries
               /\ ApplyHistory(w)
  BY <1>1, <1>2, HistoryMoves DEF Undo, Redo
<1>4. /\ history' = w /\ editor' = Current(w)
      /\ UNCHANGED <<stamp, recent, open, disk, clock, saved>>
      /\ document' = [document EXCEPT !.dirty = IsModified(w)]
      /\ calls = <<>> /\ calls' = calls
  BY <1>3 DEF ApplyHistory, Idle
<1>5. IsModified(w) \in BOOLEAN /\ Current(w) \in Text
  BY <1>3 DEF IsModified, Current, TextHistoryOK, History
<1>6. NotepadTypes'
  BY <1>4, <1>5 DEF NotepadInv, NotepadTypes
<1>7. document'.dirty = IsModified(w)
  BY <1>4 DEF NotepadInv, NotepadTypes
<1>8. HistoryAgrees'
  BY <1>2, <1>3, <1>4, <1>7 DEF HistoryAgrees
<1>9. CallsAreSound(calls, editor, saved, disk)'
  BY <1>4 DEF CallsAreSound
<1> QED BY <1>6, <1>8, <1>9 DEF NotepadInv

LEMMA NotepadInvBegin ==
  ASSUME NotepadInv, NewDocument \/ OnClose \/ (\E p \in File : OpenDocument(p) \/ Activation(p))
                       \/ (\E i \in DOMAIN recent : OpenRecent(i))
  PROVE  NotepadInv'
<1>1. CASE NewDocument
  BY <1>1, Begins DEF NewDocument, Idle
<1>2. CASE OnClose
  BY <1>2, Begins DEF OnClose, Idle
<1>3. ASSUME NEW p \in File, OpenDocument(p) PROVE NotepadInv'
  BY <1>3, Begins DEF OpenDocument, Idle
<1>4. ASSUME NEW p \in File, Activation(p) PROVE NotepadInv'
  BY <1>4, Begins DEF Activation, Idle, Asking, Waiting
<1>5. ASSUME NEW i \in DOMAIN recent, OpenRecent(i) PROVE NotepadInv'
  <2>1. PICK p \in File : p = recent[i]
    BY DEF NotepadInv, NotepadTypes
  <2>2. i \in Nat
    BY DEF NotepadInv, NotepadTypes
  <2> QED BY <1>5, <2>1, <2>2, Begins DEF OpenRecent, Idle
<1> QED BY <1>1, <1>2, <1>3, <1>4, <1>5

LEMMA NotepadInvQuestion ==
  ASSUME NotepadInv, AnswerCancel \/ AnswerNo \/ AnswerYes
  PROVE  NotepadInv'
<1>1. CASE AnswerCancel
  BY <1>1, Ends DEF AnswerCancel
<1>2. CASE AnswerNo
  <2>1. PICK c : c = [top EXCEPT !.step = "confirmed", !.discard = TRUE]
    OBVIOUS
  <2>2. top \in CallType /\ CallIsSound(top, editor, saved, disk)
    BY <1>2, InnermostCall DEF AnswerNo
  <2>3. c \in CallType /\ c.step = "confirmed" /\ c.discard /\ c.stale = top.stale
        /\ c.edited = top.edited
    BY <2>1, <2>2 DEF CallType, Step
  <2>4. CallIsSound(c, editor, saved, disk)
    BY <2>2, <2>3 DEF CallIsSound
  <2> QED BY <1>2, <2>1, <2>3, <2>4, Advances DEF AnswerNo
<1>3. CASE AnswerYes
  <2>1. PICK c, b : c = Saving(b) /\ b = top
    OBVIOUS
  <2>2. b \in CallType /\ (b.stale /\ ~b.edited => editor = saved)
    BY <1>3, <2>1, InnermostCall DEF AnswerYes, CallIsSound
  <2>3. c \in CallType /\ CallIsSound(c, editor, saved, disk)
    BY <2>1, <2>2, SavingIsSound
  <2> QED BY <1>3, <2>1, <2>3, Advances DEF AnswerYes
<1> QED BY <1>1, <1>2, <1>3

LEMMA NewCalls ==
  ASSUME NotepadInv, calls = <<>>, UNCHANGED session, UNCHANGED <<disk, clock>>,
         NEW c \in CallType, CallIsSound(c, editor, saved, disk), calls' = <<c>>
  PROVE  NotepadInv'
<1>1. CallsAreSound(calls', editor, saved, disk)
  BY DEF CallsAreSound
<1> QED BY <1>1, OnlyCalls

LEMMA NotepadInvSave ==
  ASSUME NotepadInv, Save \/ SaveAs \/ (\E p \in File : DialogChooses(p))
  PROVE  NotepadInv'
<1>1. PICK b : b = Call("save", NoFile, 0)
  OBVIOUS
<1>2. b \in CallType
  BY <1>1, NotepadAssumption DEF Call, CallType, Step
<1>3. CASE Save
  <2>1. ~b.stale
    BY <1>1 DEF Call
  <2>2. PICK c : c = Saving(b)
    OBVIOUS
  <2>3. c \in CallType /\ CallIsSound(c, editor, saved, disk)
    BY <1>2, <2>1, <2>2, SavingIsSound
  <2> QED BY <1>1, <1>3, <2>2, <2>3, NewCalls DEF Save, Idle
<1>4. CASE SaveAs
  <2>1. PICK c : c = [b EXCEPT !.step = "dialog"]
    OBVIOUS
  <2>2. c \in CallType /\ c.step = "dialog" /\ ~c.stale
    BY <1>1, <1>2, <2>1 DEF CallType, Step, Call
  <2>3. CallIsSound(c, editor, saved, disk)
    BY <2>2 DEF CallIsSound
  <2> QED BY <1>1, <1>4, <2>1, <2>2, <2>3, NewCalls DEF SaveAs, Idle
<1>5. ASSUME NEW p \in File, DialogChooses(p) PROVE NotepadInv'
  <2>1. PICK c, a : c = WriteTo(a, p) /\ a = top
    OBVIOUS
  <2>2. a \in CallType /\ (a.stale /\ ~a.edited => editor = saved)
    BY <1>5, <2>1, InnermostCall DEF DialogChooses, CallIsSound
  <2>3. c \in CallType /\ CallIsSound(c, editor, saved, disk)
    BY <2>1, <2>2, WritesTheEditor
  <2> QED BY <1>5, <2>1, <2>3, Advances DEF DialogChooses
<1> QED BY <1>3, <1>4, <1>5

LEMMA NotepadInvWrite ==
  ASSUME NotepadInv, SaveFails \/ SecondCheck \/ MoveFile
  PROVE  NotepadInv'
<1>1. CASE SaveFails
  BY <1>1, Ends DEF SaveFails
<1>2. CASE SecondCheck
  <2>1. PICK b, c : b = top /\ c = [top EXCEPT !.step = IF Matches(top) THEN "verified"
                                                        ELSE "failed"]
    OBVIOUS
  <2>2. b \in CallType /\ CallIsSound(b, editor, saved, disk) /\ b.step = "written"
    BY <1>2, <2>1, InnermostCall DEF SecondCheck
  <2>3. /\ c \in CallType /\ c.step \in {"verified", "failed"}
        /\ c.target = b.target /\ c.text = b.text /\ c.expected = b.expected
        /\ c.stale = b.stale /\ c.edited = b.edited
    BY <2>1, <2>2 DEF CallType, Step
  <2>4. c.step = "verified" => Matches(b)
    BY <2>1, <2>2 DEF CallType
  <2>5. CallIsSound(c, editor, saved, disk)
    BY <2>2, <2>3, <2>4 DEF CallIsSound, Matches
  <2> QED BY <1>2, <2>1, <2>3, <2>5, Advances DEF SecondCheck
<1>3. CASE MoveFile
  <2>1. PICK b, c : b = top /\ c = [top EXCEPT !.step = "moved"]
    OBVIOUS
  <2>2. b \in CallType /\ CallIsSound(b, editor, saved, disk) /\ b.step = "verified"
    BY <1>3, <2>1, InnermostCall DEF MoveFile
  <2>3. /\ c \in CallType /\ c.step = "moved"
        /\ c.target = b.target /\ c.text = b.text /\ c.stale = b.stale
        /\ c.edited = b.edited
    BY <2>1, <2>2 DEF CallType, Step
  <2>4. b.target \in File /\ b.text = editor /\ (b.stale /\ ~b.edited => editor = saved)
    BY <2>2 DEF CallIsSound
  <2>5. PICK d : d = disk'
    OBVIOUS
  <2>6. CallIsSound(c, editor, saved, d)
    BY <2>3, <2>4 DEF CallIsSound
  <2>7. PICK k, t, s, d1 : k = calls /\ t = editor /\ s = saved /\ d1 = disk
    OBVIOUS
  <2>8. CallsAreSound([k EXCEPT ![Len(k)] = c], t, s, d)
    <3>1. CallsAreSound(k, t, s, d1) /\ k # <<>>
      BY <1>3, <2>7 DEF NotepadInv, MoveFile
    <3>2. CallIsSound(c, t, s, d)
      BY <2>6, <2>7
    <3> QED BY <2>3, <3>1, <3>2, CallAdvanced
  <2>9. calls' = [k EXCEPT ![Len(k)] = c] /\ UNCHANGED session
    BY <1>3, <2>1, <2>7 DEF MoveFile, Advanced
  <2>10. CallsAreSound(calls, editor, saved, disk)'
    BY <2>5, <2>7, <2>8, <2>9 DEF session
  <2>11. NotepadTypes'
    <3>1. clock' = clock + 1 /\ UNCHANGED session
          /\ disk' = [disk EXCEPT ![b.target] = [text |-> b.text, stamp |-> clock', late |-> FALSE]]
      BY <1>3, <2>1 DEF MoveFile
    <3>2. clock' \in Nat
      BY <3>1 DEF NotepadInv, NotepadTypes
    <3>3. [text |-> b.text, stamp |-> clock', late |-> FALSE] \in FileType
      BY <2>4, <3>2 DEF NotepadInv, NotepadTypes, FileType
    <3>4. disk' \in [File -> FileType]
      BY <3>1, <3>3 DEF NotepadInv, NotepadTypes
    <3> QED BY <3>1, <3>2, <3>4 DEF NotepadInv, NotepadTypes, session
  <2> QED BY <2>9, <2>10, <2>11 DEF NotepadInv, HistoryAgrees, session
<1> QED BY <1>1, <1>2, <1>3

LEMMA NotepadInvSaved ==
  ASSUME NotepadInv, SaveSucceeds
  PROVE  NotepadInv'
<1>1. PICK b : b = top
  OBVIOUS
<1>2. /\ b \in CallType /\ CallIsSound(b, editor, saved, disk) /\ b.step = "moved"
      /\ calls # <<>>
  BY <1>1, InnermostCall DEF SaveSucceeds
<1>3. b.target \in File /\ b.text = editor
  BY <1>2 DEF CallIsSound
<1>4. PICK p, h : p = b.target /\ h = history
  OBVIOUS
<1>5. /\ document' = [path |-> p, dirty |-> FALSE]
      /\ history' = MarkedSaved(h)
      /\ stamp' = disk[p].stamp
      /\ recent' = RecentWith(p)
      /\ saved' = editor
      /\ UNCHANGED <<editor, open, disk, clock>>
  BY <1>1, <1>3, <1>4 DEF SaveSucceeds
<1>6. RecentWith(p) \in Seq(File) /\ disk[p].stamp \in Nat /\ p \in File
  BY <1>3, <1>4, RecentIsTyped DEF NotepadInv, NotepadTypes, FileType
<1>7. NotepadTypes'
  BY <1>5, <1>6 DEF NotepadInv, NotepadTypes
<1>8. HistoryAgrees'
  <2>1. TextHistoryOK(h) /\ editor = Current(h)
    BY <1>4 DEF NotepadInv, HistoryAgrees
  <2>2. PICK w : w = MarkedSaved(h)
    OBVIOUS
  <2>3. /\ TextHistoryOK(w) /\ ~IsModified(w) /\ Current(w) = editor
        /\ w.entries[w.saved] = editor
    BY <2>1, <2>2, HistoryMoves
  <2>4. ~document'.dirty
    BY <1>5
  <2> QED BY <1>5, <2>2, <2>3, <2>4 DEF HistoryAgrees
<1>9. PICK k, t, s, d : k = calls /\ t = editor /\ s = saved /\ d = disk
  OBVIOUS
<1>10. CallsAreSound(k, t, s, d) /\ k # <<>>
  BY <1>2, <1>9 DEF NotepadInv
<1>11. CallsAreSound(Front(k), t, t, d)
  BY <1>10, CallEnded
<1>12. PICK c : c = [b EXCEPT !.step = "confirmed"]
  OBVIOUS
<1>13. c \in CallType /\ c.step = "confirmed"
  BY <1>2, <1>12 DEF CallType, Step
<1>14. CallIsSound(c, t, t, d)
  BY <1>13 DEF CallIsSound
<1>15. CallsAreSound([k EXCEPT ![Len(k)] = c], t, t, d)
  BY <1>10, <1>13, <1>14, CallAdvanced
<1>16. calls' = Front(k) \/ calls' = [k EXCEPT ![Len(k)] = c]
  BY <1>1, <1>9, <1>12 DEF SaveSucceeds, Advanced
<1>17. CallsAreSound(calls, editor, saved, disk)'
  BY <1>5, <1>9, <1>11, <1>15, <1>16
<1> QED BY <1>7, <1>8, <1>17 DEF NotepadInv

(* The document becomes another one.                                        *)
LEMMA Replaces ==
  ASSUME NotepadInv, calls # <<>>, NEW text \in Text, NEW p \in File \cup {NoFile},
         NEW n \in Nat, Becomes(text, p, n), UNCHANGED <<open, disk, clock>>,
         recent' \in Seq(File)
  PROVE  NotepadInv'
<1>1. PICK o : o = [i \in DOMAIN Front(calls) |-> [calls[i] EXCEPT !.stale = TRUE, !.edited = FALSE]]
  OBVIOUS
<1>2. /\ editor' = text /\ saved' = text /\ stamp' = n /\ calls' = o
      /\ document' = [path |-> p, dirty |-> FALSE] /\ history' = NewHistory(text)
  BY <1>1 DEF Becomes, Outdated
<1>3. NotepadTypes'
  BY <1>2 DEF NotepadInv, NotepadTypes
<1>4. HistoryAgrees'
  <2>1. ~document'.dirty
    BY <1>2
  <2> QED BY <1>2, <2>1, NewHistoryProperties DEF HistoryAgrees
<1>5. PICK k, t, s, d : k = calls /\ t = editor /\ s = saved /\ d = disk
  OBVIOUS
<1>6. CallsAreSound([i \in DOMAIN Front(k) |-> [k[i] EXCEPT !.stale = TRUE, !.edited = FALSE]],
                   text, text, d)
  <2>1. CallsAreSound(k, t, s, d) /\ k # <<>>
    BY <1>5 DEF NotepadInv
  <2> QED BY <2>1, CallEnded
<1>7. CallsAreSound(calls, editor, saved, disk)'
  BY <1>1, <1>2, <1>5, <1>6
<1> QED BY <1>3, <1>4, <1>7 DEF NotepadInv

LEMMA NotepadInvFinish ==
  ASSUME NotepadInv, FinishNew \/ FinishClose \/ (\E p \in File : FinishOpen(p) \/ OpenFails(p))
  PROVE  NotepadInv'
<1>1. CASE FinishNew
  <2>1. Becomes(EmptyText, NoFile, 0) /\ calls # <<>> /\ UNCHANGED <<recent, open, disk, clock>>
    BY <1>1 DEF FinishNew, Confirmed
  <2>2. recent' \in Seq(File)
    BY <2>1 DEF NotepadInv, NotepadTypes
  <2> QED BY <2>1, <2>2, NotepadAssumption, Replaces
<1>2. CASE FinishClose
  <2>1. /\ calls' = <<>> /\ open' = FALSE
        /\ UNCHANGED <<editor, document, history, stamp, recent, disk, clock, saved>>
    BY <1>2 DEF FinishClose
  <2>2. CallsAreSound(calls, editor, saved, disk)'
    BY <2>1 DEF CallsAreSound
  <2> QED BY <2>1, <2>2 DEF NotepadInv, NotepadTypes, HistoryAgrees
<1>3. ASSUME NEW p \in File, FinishOpen(p) PROVE NotepadInv'
  <2>1. PICK text, n : text = disk[p].text /\ n = disk[p].stamp
    OBVIOUS
  <2>2. text \in Text /\ n \in Nat
    BY <2>1 DEF NotepadInv, NotepadTypes, FileType
  <2>3. /\ Becomes(text, p, n) /\ calls # <<>> /\ UNCHANGED <<open, disk, clock>>
        /\ recent' = RecentWith(p)
    BY <1>3, <2>1 DEF FinishOpen, Confirmed
  <2>4. recent' \in Seq(File)
    BY <2>3, RecentIsTyped DEF NotepadInv, NotepadTypes
  <2> QED BY <2>2, <2>3, <2>4, Replaces
<1>4. ASSUME NEW p \in File, OpenFails(p) PROVE NotepadInv'
  <2>1. /\ calls # <<>> /\ calls' = Front(calls)
        /\ recent' = RecentWithout(p) \/ recent' = recent
        /\ UNCHANGED <<editor, document, history, stamp, open, disk, clock, saved>>
    BY <1>4 DEF OpenFails, Confirmed
  <2>2. recent' \in Seq(File)
    BY <2>1, RecentIsTyped DEF NotepadInv, NotepadTypes
  <2>3. PICK k, t, s, d : k = calls /\ t = editor /\ s = saved /\ d = disk
    OBVIOUS
  <2>4. CallsAreSound(Front(k), t, s, d)
    BY <2>1, <2>3, CallEnded DEF NotepadInv
  <2>5. CallsAreSound(calls, editor, saved, disk)'
    BY <2>1, <2>3, <2>4
  <2> QED BY <2>1, <2>2, <2>5 DEF NotepadInv, NotepadTypes, HistoryAgrees
<1> QED BY <1>1, <1>2, <1>3, <1>4

(* What other programs do to the files outdates a check, but only late.     *)
LEMMA NotepadInvForeign ==
  ASSUME NotepadInv, NEW p \in File,
         ForeignDelete(p) \/ (\E text \in Text : ForeignWrite(p, text))
  PROVE  NotepadInv'
<1>1. PICK f \in FileType :
         /\ disk' = [disk EXCEPT ![p] = f] /\ clock' \in Nat
         /\ f.stamp = 0 \/ f.late = (\E i \in DOMAIN calls :
              calls[i].step \in {"verified", "moved"} /\ calls[i].target = p)
         /\ UNCHANGED session /\ UNCHANGED calls
  <2>1. CASE ForeignDelete(p)
    BY <2>1, NotepadAssumption
    DEF ForeignDelete, Absent, FileType, NotepadInv, NotepadTypes
  <2>2. ASSUME NEW text \in Text, ForeignWrite(p, text)
        PROVE  \E f \in FileType :
                 /\ disk' = [disk EXCEPT ![p] = f] /\ clock' \in Nat
                 /\ f.stamp = 0 \/ f.late = (\E i \in DOMAIN calls :
                      calls[i].step \in {"verified", "moved"} /\ calls[i].target = p)
                 /\ UNCHANGED session /\ UNCHANGED calls
    <3>1. PICK l \in BOOLEAN : l = (\E i \in DOMAIN calls :
            calls[i].step \in {"verified", "moved"} /\ calls[i].target = p)
      OBVIOUS
    <3>2. PICK f : f = [text |-> text, stamp |-> clock + 1, late |-> l]
      OBVIOUS
    <3>3. f \in FileType /\ clock + 1 \in Nat /\ f.late = l
      BY <3>2 DEF FileType, NotepadInv, NotepadTypes
    <3>4. clock' = clock + 1 /\ disk' = [disk EXCEPT ![p] = f] /\ UNCHANGED <<session, calls>>
      BY <2>2, <3>1, <3>2, Zenon DEF ForeignWrite
    <3> QED BY <3>1, <3>3, <3>4
  <2> QED BY <2>1, <2>2
<1>2. disk' \in [File -> FileType] /\ disk'[p] = f
      /\ \A q \in File : q # p => disk'[q] = disk[q]
  BY <1>1 DEF NotepadInv, NotepadTypes
<1>3. ASSUME NEW i \in DOMAIN calls PROVE CallIsSound(calls[i], editor, saved, disk')
  <2>1. PICK c : c = calls[i]
    OBVIOUS
  <2>2. CallIsSound(c, editor, saved, disk)
    BY <2>1 DEF NotepadInv, CallsAreSound
  <2>3. ASSUME c.step = "verified", c.expected # 0
        PROVE  disk'[c.target].stamp \in {0, c.expected} \/ disk'[c.target].late
    <3>1. c.target \in File
      BY <2>2, <2>3 DEF CallIsSound
    <3>2. CASE c.target = p
      <4>1. \E j \in DOMAIN calls :
              calls[j].step \in {"verified", "moved"} /\ calls[j].target = p
        BY <2>1, <2>3, <3>2
      <4>2. f.stamp = 0 \/ f.late
        BY <1>1, <4>1, Zenon
      <4> QED BY <1>2, <3>2, <4>2
    <3>3. CASE c.target # p
      BY <1>2, <2>2, <2>3, <3>1, <3>3 DEF CallIsSound
    <3> QED BY <3>2, <3>3
  <2> QED BY <2>1, <2>2, <2>3 DEF CallIsSound
<1>4. CallsAreSound(calls, editor, saved, disk)'
  BY <1>1, <1>3 DEF NotepadInv, CallsAreSound, session
<1>5. NotepadTypes'
  BY <1>1, <1>2 DEF NotepadInv, NotepadTypes, session
<1> QED BY <1>1, <1>4, <1>5 DEF NotepadInv, HistoryAgrees, session

LEMMA NotepadInvStep == NotepadInv /\ [NotepadNext]_notepadVars => NotepadInv'
<1> SUFFICES ASSUME NotepadInv, [NotepadNext]_notepadVars PROVE NotepadInv'
  OBVIOUS
<1>1. CASE UNCHANGED notepadVars
  BY <1>1 DEF notepadVars, NotepadInv, NotepadTypes, HistoryAgrees, CallsAreSound
<1>2. CASE NotepadNext
  BY <1>2, NotepadInvEdit, NotepadInvReplace, NotepadInvHistory, NotepadInvBegin, NotepadInvQuestion,
     NotepadInvSave, NotepadInvWrite, NotepadInvSaved, NotepadInvFinish, NotepadInvForeign
  DEF NotepadNext
<1> QED BY <1>1, <1>2

(* What every command relies on from one message to the next holds in every *)
(* state: the editor, its history, the files and the commands under way     *)
(* agree.                                                                   *)
THEOREM NotepadConsistent == NotepadSpec => []NotepadInv
<1> QED BY NotepadInvInit, NotepadInvStep, PTL DEF NotepadSpec

(* A document without the star is the document that was saved or loaded:    *)
(* undo, redo, trimming, failed saves and files opened from inside a        *)
(* question never make changed text look saved.                             *)
THEOREM CleanDocumentsAreSaved == NotepadSpec => []CleanMeansSaved
<1>1. NotepadInv => CleanMeansSaved
  BY CleanIsSaved DEF NotepadInv, HistoryAgrees, CleanMeansSaved
<1> QED BY <1>1, NotepadConsistent, PTL

(* A command takes changed text out of the editor only after No to its      *)
(* question.  The question was about the document that is open, unless      *)
(* another was opened meanwhile and the Replace dialog has changed that one *)
(* under the question.                                                      *)
THEOREM ChangedTextIsKept == NotepadSpec => NoTextLost
<1>1. NotepadInv /\ [NotepadNext]_notepadVars =>
        [(editor' # editor \/ open' # open) /\ Len(calls') < Len(calls) /\ editor # saved
           => top.discard /\ (top.stale => top.edited)]_notepadVars
  <2> SUFFICES ASSUME NotepadInv, NotepadNext, editor' # editor \/ open' # open,
                      Len(calls') < Len(calls), editor # saved
               PROVE  top.discard /\ (top.stale => top.edited)
    OBVIOUS
  <2>1. Confirmed({"new", "open", "recent", "close"})
    <3>1. calls' # calls
      BY DEF NotepadInv, CallsAreSound
    <3>2. ASSUME UNCHANGED <<editor, open>> PROVE FALSE
      BY <3>2
    <3>3. ASSUME NEW text \in Text PROVE ~ReplaceSelection(text)
      <4>1. SUFFICES ASSUME ReplaceSelection(text) PROVE FALSE
        OBVIOUS
      <4>2. calls \in Seq(CallType) /\ Len(calls) \in Nat /\ DOMAIN calls = 1..Len(calls)
        BY DEF NotepadInv, CallsAreSound
      <4>3. PICK j : j = calls' /\ j = [i \in DOMAIN calls |-> [calls[i] EXCEPT !.edited = TRUE]]
        BY <4>1 DEF ReplaceSelection
      <4>4. \A i \in DOMAIN calls : j[i] \in CallType
        BY <4>2, <4>3 DEF CallType
      <4>5. j \in Seq(CallType) /\ DOMAIN j = 1..Len(calls)
        BY <4>2, <4>3, <4>4
      <4>6. Len(j) = Len(calls)
        BY <4>2, <4>5
      <4> QED BY <4>2, <4>3, <4>6
    <3> QED
      BY <3>1, <3>2, <3>3 DEF NotepadNext, Edit, Undo, Redo, ApplyHistory, NewDocument, OnClose,
         Save, SaveAs, OpenDocument, Activation, DialogChooses, OpenRecent, Begin, AnswerCancel,
         AnswerNo, AnswerYes, SaveFails, SecondCheck, MoveFile, SaveSucceeds, FinishNew,
         FinishClose, FinishOpen, OpenFails, ForeignDelete, ForeignWrite, Confirmed, session
  <2>2. CallIsSound(top, editor, saved, disk)
    BY <2>1, InnermostCall DEF Confirmed
  <2> QED BY <2>1, <2>2 DEF Confirmed, CallIsSound
<1> QED BY <1>1, NotepadConsistent, PTL DEF NotepadSpec, NoTextLost

(* A file another program changed is never replaced unseen, unless it was   *)
(* changed after the second check of a save and before the save took its    *)
(* stamp.                                                                   *)
THEOREM ForeignChangesAreNoticed == NotepadSpec => ForeignChangeNoticed
<1>1. NotepadInv /\ [NotepadNext]_notepadVars =>
        [\A p \in File :
           disk'[p].stamp # disk[p].stamp /\ disk[p].stamp # 0 /\ calls # calls'
             /\ top.expected # 0
           => disk[p].stamp = top.expected \/ disk[p].late]_notepadVars
  <2> SUFFICES ASSUME NotepadInv, NotepadNext, NEW p \in File,
                      disk'[p].stamp # disk[p].stamp, disk[p].stamp # 0, calls # calls',
                      top.expected # 0
               PROVE  disk[p].stamp = top.expected \/ disk[p].late
    OBVIOUS
  <2>1. MoveFile
    <3>1. disk # disk'
      OBVIOUS
    <3> QED
      BY <3>1 DEF NotepadNext, Edit, Edited, ReplaceSelection, Undo, Redo, ApplyHistory,
         NewDocument, OnClose, Save, SaveAs, OpenDocument, Activation, DialogChooses, OpenRecent, Begin, AnswerCancel,
         AnswerNo, AnswerYes, SaveFails, SecondCheck, SaveSucceeds, FinishNew,
         FinishClose, FinishOpen, OpenFails, ForeignDelete, ForeignWrite
  <2>2. top.step = "verified" /\ CallIsSound(top, editor, saved, disk)
    BY <2>1, InnermostCall DEF MoveFile
  <2>3. p = top.target
    BY <2>1 DEF MoveFile, NotepadInv, NotepadTypes
  <2> QED BY <2>2, <2>3 DEF CallIsSound
<1> QED BY <1>1, NotepadConsistent, PTL DEF NotepadSpec, ForeignChangeNoticed

-----------------------------------------------------------------------------
(* The children of a model, and what the model's operations make of them.   *)
ChildEntry == [id : Child, closable : BOOLEAN]

ChildIdsDistinct(s) == \A i, j \in DOMAIN s : i # j => s[i].id # s[j].id

ChildLists == {s \in Seq(ChildEntry) : ChildIdsDistinct(s)}

MdiModel == [children : ChildLists, active : Child \cup {NoChild}, revision : Nat]

(* One of the children is active, if there is any.                          *)
ActiveIsChild(m) ==
  m.active \in IF ChildIds(m.children) = {} THEN {NoChild} ELSE ChildIds(m.children)

ModelOK(m) == m \in MdiModel /\ ActiveIsChild(m)

(* One identifier per place.                                                *)
LEMMA ChildrenCounted ==
  ASSUME NEW s \in ChildLists
  PROVE  Cardinality(ChildIds(s)) = Len(s)
<1>1. PICK n, t : n = Len(s) /\ t = [i \in 1..n |-> s[i].id]
  OBVIOUS
<1>2. /\ s \in Seq(ChildEntry) /\ n \in Nat /\ DOMAIN s = 1..n
      /\ \A i \in 1..n : s[i] \in ChildEntry
      /\ \A i, j \in 1..n : i # j => s[i].id # s[j].id
  BY <1>1 DEF ChildLists, ChildIdsDistinct
<1>3. t \in Seq(Child) /\ Len(t) = n /\ DOMAIN t = 1..n /\ \A i \in 1..n : t[i] = s[i].id
  BY <1>1, <1>2 DEF ChildEntry
<1>4. Distinct(t)
  BY <1>2, <1>3 DEF Distinct
<1>5. Range(t) = ChildIds(s)
  BY <1>2, <1>3 DEF Range, ChildIds
<1> QED BY <1>1, <1>3, <1>4, <1>5, DistinctCount

LEMMA ChildInserted ==
  ASSUME NEW s \in ChildLists, NEW e \in ChildEntry, NEW k \in 1..Len(s) + 1,
         e.id \notin ChildIds(s)
  PROVE  /\ InsertAt(s, k, e) \in ChildLists
         /\ ChildIds(InsertAt(s, k, e)) = ChildIds(s) \cup {e.id}
<1>1. PICK n, t : n = Len(s) /\ t = InsertAt(s, k, e)
  OBVIOUS
<1>2. /\ s \in Seq(ChildEntry) /\ n \in Nat /\ DOMAIN s = 1..n /\ k \in 1..n + 1
      /\ \A i, j \in 1..n : i # j => s[i].id # s[j].id
  BY <1>1 DEF ChildLists, ChildIdsDistinct
<1>3. /\ t \in Seq(ChildEntry) /\ DOMAIN t = 1..n + 1
      /\ \A j \in 1..n + 1 :
           t[j] = IF j < k THEN s[j] ELSE IF j = k THEN e ELSE s[j - 1]
  BY <1>1, <1>2, InsertAtProperties
<1> DEFINE old(i) == IF i < k THEN i ELSE i - 1
<1>4. t[k] = e /\ \A i \in (1..n + 1) \ {k} : old(i) \in 1..n /\ t[i] = s[old(i)]
  BY <1>2, <1>3
<1>5. \A i, j \in (1..n + 1) \ {k} : i # j => old(i) # old(j)
  BY <1>2
<1>6. \A i \in 1..n : \E j \in (1..n + 1) \ {k} : old(j) = i
  <2> TAKE i \in 1..n
  <2>1. PICK j : j = IF i < k THEN i ELSE i + 1
    OBVIOUS
  <2>2. j \in (1..n + 1) \ {k} /\ old(j) = i
    BY <1>2, <2>1
  <2> QED BY <2>2
<1> HIDE DEF old
<1>7. \A i \in 1..n : s[i].id # e.id
  BY <1>2 DEF ChildIds
<1>8. ChildIdsDistinct(t)
  <2> SUFFICES ASSUME NEW i \in 1..n + 1, NEW j \in 1..n + 1, i # j PROVE t[i].id # t[j].id
    BY <1>3 DEF ChildIdsDistinct
  <2>1. CASE i = k
    BY <1>4, <1>7, <2>1
  <2>2. CASE j = k
    BY <1>4, <1>7, <2>2
  <2>3. CASE i # k /\ j # k
    <3>1. old(i) \in 1..n /\ old(j) \in 1..n /\ old(i) # old(j)
          /\ t[i] = s[old(i)] /\ t[j] = s[old(j)]
      BY <1>4, <1>5, <2>3
    <3> QED BY <1>2, <3>1
  <2> QED BY <2>1, <2>2, <2>3
<1>9. ChildIds(t) = ChildIds(s) \cup {e.id}
  <2>1. ChildIds(t) \subseteq ChildIds(s) \cup {e.id}
    BY <1>2, <1>3, <1>4 DEF ChildIds
  <2>2. ASSUME NEW i \in 1..n PROVE s[i].id \in ChildIds(t)
    <3>1. PICK j \in (1..n + 1) \ {k} : old(j) = i
      BY <1>6
    <3>2. t[j] = s[i] /\ j \in DOMAIN t
      BY <1>3, <1>4, <3>1
    <3> QED BY <3>2 DEF ChildIds
  <2>3. e.id \in ChildIds(t)
    BY <1>2, <1>3, <1>4 DEF ChildIds
  <2> QED BY <1>2, <2>1, <2>2, <2>3 DEF ChildIds
<1> QED BY <1>1, <1>3, <1>8, <1>9 DEF ChildLists

LEMMA ChildErased ==
  ASSUME NEW s \in ChildLists, NEW k \in DOMAIN s
  PROVE  /\ RemoveAt(s, k) \in ChildLists
         /\ ChildIds(RemoveAt(s, k)) = ChildIds(s) \ {s[k].id}
<1>1. PICK n, t : n = Len(s) /\ t = RemoveAt(s, k)
  OBVIOUS
<1>2. /\ s \in Seq(ChildEntry) /\ n \in Nat /\ DOMAIN s = 1..n /\ k \in 1..n
      /\ \A i, j \in 1..n : i # j => s[i].id # s[j].id
  BY <1>1 DEF ChildLists, ChildIdsDistinct
<1>3. /\ t \in Seq(ChildEntry) /\ DOMAIN t = 1..n - 1
      /\ \A j \in 1..n - 1 : t[j] = s[IF j < k THEN j ELSE j + 1]
  BY <1>1, <1>2, RemoveAtProperties
<1> DEFINE old(i) == IF i < k THEN i ELSE i + 1
<1>4. \A i \in 1..n - 1 : old(i) \in (1..n) \ {k} /\ t[i] = s[old(i)]
  BY <1>2, <1>3
<1>5. \A i, j \in 1..n - 1 : i # j => old(i) # old(j)
  BY <1>2
<1>6. \A i \in (1..n) \ {k} : \E j \in 1..n - 1 : old(j) = i
  <2> TAKE i \in (1..n) \ {k}
  <2>1. PICK j : j = IF i < k THEN i ELSE i - 1
    OBVIOUS
  <2>2. j \in 1..n - 1 /\ old(j) = i
    BY <1>2, <2>1
  <2> QED BY <2>2
<1> HIDE DEF old
<1>7. ChildIdsDistinct(t)
  BY <1>2, <1>3, <1>4, <1>5 DEF ChildIdsDistinct
<1>8. \A i \in 1..n - 1 : t[i].id \in ChildIds(s) \ {s[k].id}
  BY <1>2, <1>4 DEF ChildIds
<1>9. \A i \in (1..n) \ {k} : s[i].id \in ChildIds(t)
  <2> TAKE i \in (1..n) \ {k}
  <2>1. PICK j \in 1..n - 1 : old(j) = i
    BY <1>6
  <2>2. t[j] = s[i] /\ j \in DOMAIN t
    BY <1>3, <1>4, <2>1
  <2> QED BY <2>2 DEF ChildIds
<1>10. ChildIds(t) = ChildIds(s) \ {s[k].id}
  BY <1>2, <1>3, <1>8, <1>9 DEF ChildIds
<1> QED BY <1>1, <1>3, <1>7, <1>10 DEF ChildLists

LEMMA ChildFound ==
  ASSUME NEW m, ModelOK(m), NEW c \in ChildIds(m.children)
  PROVE  IndexOf(m, c) \in DOMAIN m.children /\ m.children[IndexOf(m, c)].id = c
<1>1. \E i \in DOMAIN m.children : m.children[i].id = c
  BY DEF ChildIds
<1> QED BY <1>1 DEF IndexOf

LEMMA AddedOK ==
  ASSUME NEW m, ModelOK(m), NEW e \in ChildEntry, NEW i \in 1..Len(m.children) + 1,
         e.id \notin ChildIds(m.children)
  PROVE  ModelOK(AddedAt(m, i, e))
<1>1. PICK s, t : s = m.children /\ t = InsertAt(s, i, e)
  OBVIOUS
<1>2. s \in ChildLists /\ m.revision \in Nat
  BY <1>1 DEF ModelOK, MdiModel
<1>3. t \in ChildLists /\ ChildIds(t) = ChildIds(s) \cup {e.id}
  BY <1>1, <1>2, ChildInserted
<1>4. AddedAt(m, i, e) = [children |-> t, active |-> e.id, revision |-> m.revision + 1]
  BY <1>1 DEF AddedAt
<1> QED BY <1>2, <1>3, <1>4 DEF ModelOK, MdiModel, ActiveIsChild, ChildEntry

LEMMA RemovedOK ==
  ASSUME NEW m, ModelOK(m), NEW c \in ChildIds(m.children)
  PROVE  ModelOK(ChildRemoved(m, c))
<1>1. PICK s, at : s = m.children /\ at = IndexOf(m, c)
  OBVIOUS
<1>2. PICK t : t = RemoveAt(s, at)
  OBVIOUS
<1>3. s \in ChildLists /\ at \in DOMAIN s /\ s[at].id = c
  BY <1>1, ChildFound DEF ModelOK, MdiModel
<1>4. t \in ChildLists /\ ChildIds(t) = ChildIds(s) \ {c}
  BY <1>2, <1>3, ChildErased
<1>5. m.revision \in Nat /\ m.active \in ChildIds(s) /\ m.active \in Child \cup {NoChild}
  BY <1>1 DEF ModelOK, MdiModel, ActiveIsChild
<1>6. PICK a : a = IF m.active # c THEN m.active
                   ELSE IF t = <<>> THEN NoChild
                   ELSE t[IF at <= Len(t) THEN at ELSE Len(t)].id
  OBVIOUS
<1>7. ChildRemoved(m, c) = [children |-> t, active |-> a, revision |-> m.revision + 1]
  BY <1>1, <1>2, <1>6 DEF ChildRemoved
<1>8. a \in (IF ChildIds(t) = {} THEN {NoChild} ELSE ChildIds(t)) /\ a \in Child \cup {NoChild}
  <2>1. CASE m.active # c
    BY <1>4, <1>5, <1>6, <2>1
  <2>2. CASE m.active = c /\ t = <<>>
    BY <1>6, <2>2 DEF ChildIds
  <2>3. CASE m.active = c /\ t # <<>>
    <3>1. PICK k : k = IF at <= Len(t) THEN at ELSE Len(t)
      OBVIOUS
    <3>2. t \in Seq(ChildEntry) /\ s \in Seq(ChildEntry)
      BY <1>3, <1>4 DEF ChildLists
    <3>3. k \in DOMAIN t
      BY <1>3, <2>3, <3>1, <3>2
    <3>4. a = t[k].id
      BY <1>6, <2>3, <3>1
    <3>5. t[k] \in ChildEntry
      BY <3>2, <3>3
    <3> QED BY <3>3, <3>4, <3>5 DEF ChildIds, ChildEntry
  <2> QED BY <2>1, <2>2, <2>3
<1> QED BY <1>4, <1>5, <1>7, <1>8 DEF ModelOK, MdiModel, ActiveIsChild

LEMMA RemovedIfPresentOK ==
  ASSUME NEW m, ModelOK(m), NEW c
  PROVE  ModelOK(ChildRemovedIfPresent(m, c))
BY RemovedOK DEF ChildRemovedIfPresent

LEMMA ActivatedOK ==
  ASSUME NEW m, ModelOK(m), NEW c
  PROVE  ModelOK(ChildActivated(m, c))
<1>1. CASE c \notin ChildIds(m.children) \/ m.active = c
  BY <1>1 DEF ChildActivated
<1>2. CASE c \in ChildIds(m.children) /\ m.active # c
  <2>1. PICK w : w = ChildActivated(m, c)
    OBVIOUS
  <2>2. w = [children |-> m.children, active |-> c, revision |-> m.revision + 1]
    BY <1>2, <2>1 DEF ChildActivated, ModelOK, MdiModel
  <2>3. c \in Child
    <3>1. PICK i \in DOMAIN m.children : m.children[i].id = c
      BY <1>2 DEF ChildIds
    <3>2. m.children \in Seq(ChildEntry)
      BY DEF ModelOK, MdiModel, ChildLists
    <3>3. m.children[i] \in ChildEntry
      BY <3>1, <3>2
    <3> QED BY <3>1, <3>3 DEF ChildEntry
  <2> QED BY <1>2, <2>1, <2>2, <2>3 DEF ModelOK, MdiModel, ActiveIsChild
<1> QED BY <1>1, <1>2

(* Other children in the same list, with the same identifiers.              *)
LEMMA ChildrenChange ==
  ASSUME NEW m, ModelOK(m), NEW t \in ChildLists, ChildIds(t) = ChildIds(m.children),
         NEW w, w = [m EXCEPT !.children = t, !.revision = @ + 1]
  PROVE  ModelOK(w)
<1>1. w = [children |-> t, active |-> m.active, revision |-> m.revision + 1]
  BY DEF ModelOK, MdiModel
<1> QED BY <1>1 DEF ModelOK, MdiModel, ActiveIsChild

LEMMA MovedOK ==
  ASSUME NEW m, ModelOK(m), NEW c \in ChildIds(m.children), NEW i \in DOMAIN m.children
  PROVE  ModelOK(ChildMoved(m, c, i))
<1>1. PICK s, k : s = m.children /\ k = IndexOf(m, c)
  OBVIOUS
<1>2. PICK e : e = s[k]
  OBVIOUS
<1>3. s \in ChildLists /\ k \in DOMAIN s /\ e.id = c /\ i \in DOMAIN s
  BY <1>1, <1>2, ChildFound DEF ModelOK, MdiModel
<1>4. s \in Seq(ChildEntry) /\ e \in ChildEntry /\ Len(s) \in Nat /\ DOMAIN s = 1..Len(s)
  BY <1>2, <1>3 DEF ChildLists
<1>5. PICK r : r = RemoveAt(s, k)
  OBVIOUS
<1>6. r \in ChildLists /\ ChildIds(r) = ChildIds(s) \ {c}
  BY <1>2, <1>3, <1>5, ChildErased
<1>7. Len(r) + 1 = Len(s)
  <2>1. k \in 1..Len(s)
    BY <1>3, <1>4
  <2>2. Len(r) = Len(s) - 1
    BY <1>4, <1>5, <2>1, RemoveAtProperties
  <2> QED BY <1>4, <2>2
<1>8. PICK t : t = InsertAt(r, i, e)
  OBVIOUS
<1>9. t \in ChildLists /\ ChildIds(t) = ChildIds(r) \cup {c}
  BY <1>3, <1>4, <1>6, <1>7, <1>8, ChildInserted
<1>10. ChildIds(t) = ChildIds(s)
  BY <1>1, <1>6, <1>9
<1>11. CASE k = i
  BY <1>1, <1>11 DEF ChildMoved
<1>12. CASE k # i
  <2>1. ChildMoved(m, c, i) = [m EXCEPT !.children = t, !.revision = @ + 1]
    BY <1>1, <1>2, <1>5, <1>8, <1>12 DEF ChildMoved
  <2> QED BY <1>1, <1>9, <1>10, <2>1, ChildrenChange
<1> QED BY <1>11, <1>12

LEMMA ClosableOK ==
  ASSUME NEW m, ModelOK(m), NEW c \in ChildIds(m.children), NEW b \in BOOLEAN
  PROVE  ModelOK(ClosableSet(m, c, b))
<1>1. PICK s, k : s = m.children /\ k = IndexOf(m, c)
  OBVIOUS
<1>2. PICK t : t = [s EXCEPT ![k].closable = b]
  OBVIOUS
<1>3. s \in ChildLists /\ k \in DOMAIN s
  BY <1>1, ChildFound DEF ModelOK, MdiModel
<1>4. s \in Seq(ChildEntry) /\ DOMAIN s = 1..Len(s) /\ \A j \in DOMAIN s : s[j] \in ChildEntry
  BY <1>3 DEF ChildLists
<1>5. /\ t \in Seq(ChildEntry) /\ DOMAIN t = DOMAIN s
      /\ \A j \in DOMAIN s : t[j].id = s[j].id
  BY <1>2, <1>3, <1>4 DEF ChildEntry
<1>6. t \in ChildLists /\ ChildIds(t) = ChildIds(s)
  BY <1>3, <1>5 DEF ChildLists, ChildIdsDistinct, ChildIds
<1>7. CASE s[k].closable = b
  BY <1>1, <1>7 DEF ClosableSet
<1>8. CASE s[k].closable # b
  <2>1. ClosableSet(m, c, b) = [m EXCEPT !.children = t, !.revision = @ + 1]
    BY <1>1, <1>2, <1>8 DEF ClosableSet
  <2> QED BY <1>1, <1>6, <2>1, ChildrenChange
<1> QED BY <1>7, <1>8

-----------------------------------------------------------------------------
(* The inductive invariant of the frame: besides the property, that no      *)
(* child has two ChildStates.                                               *)
HostOK ==
  /\ states \in Seq(Child) /\ Distinct(states)
  /\ Range(states) = windows
  /\ client \in BOOLEAN /\ (~client => windows = {})

MdiInv == models \in [Model -> MdiModel] /\ (\A m \in Model : ModelOK(models[m])) /\ HostOK

LEMMA MdiInvInit == MdiInit => MdiInv
<1> SUFFICES ASSUME MdiInit PROVE MdiInv
  OBVIOUS
<1>1. PICK e : e = [children |-> <<>>, active |-> NoChild, revision |-> 0]
  OBVIOUS
<1>2. ModelOK(e)
  BY <1>1 DEF ModelOK, MdiModel, ChildLists, ChildIdsDistinct, ActiveIsChild, ChildIds
<1>3. models = [m \in Model |-> e]
  BY <1>1 DEF MdiInit
<1>4. HostOK
  <2>1. <<>> \in Seq(Child) /\ DOMAIN <<>> = {}
    OBVIOUS
  <2>2. Distinct(<<>>) /\ Range(<<>>) = {}
    BY <2>1 DEF Distinct, Range
  <2> QED BY <2>1, <2>2 DEF MdiInit, HostOK
<1> QED BY <1>2, <1>3, <1>4 DEF MdiInv, ModelOK

(* One model changes, and nothing else.                                     *)
LEMMA ModelChange ==
  ASSUME MdiInv, NEW m \in Model, NEW w, ModelOK(w), models' = [models EXCEPT ![m] = w]
  PROVE  models' \in [Model -> MdiModel] /\ \A n \in Model : ModelOK(models'[n])
BY DEF MdiInv, ModelOK

LEMMA ChangedKeeps ==
  ASSUME MdiInv, NEW m \in Model, NEW w, ModelOK(w), Changed(m, w)
  PROVE  MdiInv'
<1>1. models' = [models EXCEPT ![m] = w] /\ UNCHANGED <<states, windows, client>>
  BY DEF Changed
<1> QED BY <1>1, ModelChange DEF MdiInv, HostOK

LEMMA MdiInvModel ==
  ASSUME MdiInv, NEW m \in Model, NEW c \in Child,
         \/ AddChild(m, c)
         \/ \E force \in BOOLEAN : RemoveChild(m, c, force)
         \/ \E i \in 1..MaximumChildren : MoveChild(m, c, i)
         \/ \E closable \in BOOLEAN : SetClosable(m, c, closable)
         \/ ActivateChild(c)
  PROVE  MdiInv'
<1>1. PICK v : v = models[m]
  OBVIOUS
<1>2. ModelOK(v) /\ v.children \in Seq(ChildEntry) /\ Len(v.children) \in Nat
  BY <1>1 DEF MdiInv, ModelOK, MdiModel, ChildLists
<1>3. CASE AddChild(m, c)
  <2>1. PICK e, i, w : e = [id |-> c, closable |-> TRUE] /\ i = Len(v.children) + 1
                       /\ w = AddedAt(v, i, e)
    OBVIOUS
  <2>2. e \in ChildEntry /\ e.id \notin ChildIds(v.children) /\ i \in 1..Len(v.children) + 1
    BY <1>1, <1>2, <1>3, <2>1 DEF AddChild, CanAddChild, ChildEntry
  <2>3. ModelOK(w)
    BY <1>2, <2>1, <2>2, AddedOK
  <2>4. Changed(m, w)
    BY <1>1, <1>3, <2>1 DEF AddChild, ChildAdded
  <2> QED BY <2>3, <2>4, ChangedKeeps
<1>4. ASSUME NEW force \in BOOLEAN, RemoveChild(m, c, force) PROVE MdiInv'
  <2>1. PICK w : w = ChildRemoved(v, c)
    OBVIOUS
  <2>2. c \in ChildIds(v.children) /\ Changed(m, w)
    BY <1>1, <1>4, <2>1 DEF RemoveChild
  <2> QED BY <1>2, <2>1, <2>2, RemovedOK, ChangedKeeps
<1>5. ASSUME NEW i \in 1..MaximumChildren, MoveChild(m, c, i) PROVE MdiInv'
  <2>1. PICK w : w = ChildMoved(v, c, i)
    OBVIOUS
  <2>2. c \in ChildIds(v.children) /\ i \in DOMAIN v.children /\ Changed(m, w)
    BY <1>1, <1>5, <2>1 DEF MoveChild
  <2> QED BY <1>2, <2>1, <2>2, MovedOK, ChangedKeeps
<1>6. ASSUME NEW closable \in BOOLEAN, SetClosable(m, c, closable) PROVE MdiInv'
  <2>1. PICK w : w = ClosableSet(v, c, closable)
    OBVIOUS
  <2>2. c \in ChildIds(v.children) /\ Changed(m, w)
    BY <1>1, <1>6, <2>1 DEF SetClosable
  <2> QED BY <1>2, <2>1, <2>2, ClosableOK, ChangedKeeps
<1>7. CASE ActivateChild(c)
  <2>1. PICK u, w : u = models["hosted"] /\ w = ChildActivated(u, c)
    OBVIOUS
  <2>2. "hosted" \in Model /\ ModelOK(u) /\ Changed("hosted", w)
    BY <1>7, <2>1 DEF ActivateChild, Model, MdiInv
  <2> QED BY <2>1, <2>2, ActivatedOK, ChangedKeeps
<1> QED BY <1>3, <1>4, <1>5, <1>6, <1>7

LEMMA MdiInvTransfer ==
  ASSUME MdiInv, NEW m \in Model, NEW c \in Child, NEW to \in Model,
         NEW i \in 1..MaximumChildren, TransferTo(m, to, c, i)
  PROVE  MdiInv'
<1>1. PICK v, u : v = models[m] /\ u = models[to]
  OBVIOUS
<1>2. PICK e : e = v.children[IndexOf(v, c)]
  OBVIOUS
<1>3. PICK x, y : x = AddedAt(u, i, e) /\ y = ChildRemoved(v, c)
  OBVIOUS
<1>4. /\ ModelOK(v) /\ ModelOK(u) /\ v.children \in Seq(ChildEntry)
      /\ c \in ChildIds(v.children) /\ c \notin ChildIds(u.children)
      /\ i \in 1..Len(u.children) + 1
      /\ models' = [models EXCEPT ![to] = x, ![m] = y]
      /\ UNCHANGED <<states, windows, client>>
  BY <1>1, <1>2, <1>3 DEF TransferTo, CanAddChild, MdiInv, ModelOK, MdiModel, ChildLists
<1>5. e \in ChildEntry /\ e.id = c
  <2>1. IndexOf(v, c) \in DOMAIN v.children /\ e.id = c
    BY <1>2, <1>4, ChildFound
  <2> QED BY <1>2, <1>4, <2>1
<1>6. ModelOK(x)
  BY <1>3, <1>4, <1>5, AddedOK
<1>7. ModelOK(y)
  BY <1>3, <1>4, RemovedOK
<1> QED BY <1>4, <1>6, <1>7 DEF MdiInv, HostOK, ModelOK

(* A window comes with its ChildState and goes with it.                     *)
LEMMA MdiInvCreate ==
  ASSUME MdiInv, NEW c \in Child, CreateChild(c)
  PROVE  MdiInv'
<1>1. PICK s, t : s = states /\ t = Append(states, c)
  OBVIOUS
<1>2. /\ states' = t /\ windows' = windows \cup {c} /\ c \notin windows /\ client
      /\ UNCHANGED <<models, client>>
  BY <1>1 DEF CreateChild
<1>3. s \in Seq(Child) /\ Distinct(s) /\ Range(s) = windows
  BY <1>1 DEF MdiInv, HostOK
<1>4. t \in Seq(Child) /\ Distinct(t) /\ Range(t) = windows \cup {c}
  <2>1. c \notin Range(s)
    BY <1>2, <1>3
  <2> QED BY <1>1, <1>3, <2>1, DistinctAppend
<1> QED BY <1>2, <1>4 DEF MdiInv, HostOK

LEMMA MdiInvDestroyed ==
  ASSUME MdiInv, ChildDestroyed
  PROVE  MdiInv'
<1>1. PICK c, s, t : c = Head(frames).child /\ s = states /\ t = Forgotten(c)
  OBVIOUS
<1>2. /\ windows' = windows \ {c} /\ states' = t /\ client' = client
      /\ models' = IF c \in Range(s)
                   THEN [models EXCEPT !["hosted"] = ChildRemovedIfPresent(@, c)] ELSE models
  BY <1>1 DEF ChildDestroyed, Gone
<1>3. s \in Seq(Child) /\ Distinct(s) /\ Range(s) = windows
  BY <1>1 DEF MdiInv, HostOK
<1>4. t \in Seq(Child) /\ Distinct(t) /\ Range(t) = windows \ {c}
  <2>1. CASE c \in Range(s)
    <3>1. PICK i : i = CHOOSE j \in DOMAIN s : s[j] = c
      OBVIOUS
    <3>2. i \in DOMAIN s /\ s[i] = c
      BY <2>1, <3>1 DEF Range
    <3>3. t = RemoveAt(s, i)
      BY <1>1, <2>1, <3>1 DEF Forgotten
    <3> QED BY <1>3, <3>2, <3>3, DistinctRemoval
  <2>2. CASE c \notin Range(s)
    BY <1>1, <1>3, <2>2 DEF Forgotten
  <2> QED BY <2>1, <2>2
<1>5. models' \in [Model -> MdiModel] /\ \A n \in Model : ModelOK(models'[n])
  <2>1. PICK u, w : u = models["hosted"] /\ w = ChildRemovedIfPresent(u, c)
    OBVIOUS
  <2>2. "hosted" \in Model /\ ModelOK(u)
    BY <2>1 DEF MdiInv, Model
  <2>3. ModelOK(w)
    BY <2>1, <2>2, RemovedIfPresentOK
  <2>4. models' = [models EXCEPT !["hosted"] = w] \/ models' = models
    BY <1>2, <2>1
  <2> QED BY <2>2, <2>3, <2>4, ModelChange DEF MdiInv
<1> QED BY <1>2, <1>4, <1>5 DEF MdiInv, HostOK

LEMMA MdiInvCreated ==
  ASSUME MdiInv, ChildCreated
  PROVE  MdiInv'
<1>1. PICK u, c : u = models["hosted"] /\ c = Head(frames).child
  OBVIOUS
<1>2. PICK w : w = ChildActivated(u, c)
  OBVIOUS
<1>3. /\ "hosted" \in Model /\ ModelOK(u) /\ UNCHANGED <<states, windows, client>>
      /\ models' = [models EXCEPT !["hosted"] = w]
  BY <1>1, <1>2 DEF ChildCreated, MdiInv, Model
<1>4. ModelOK(w)
  BY <1>2, <1>3, ActivatedOK
<1> QED BY <1>3, <1>4, ModelChange DEF MdiInv, HostOK

LEMMA MdiInvStep == MdiInv /\ [MdiNext]_mdiVars => MdiInv'
<1> SUFFICES ASSUME MdiInv, [MdiNext]_mdiVars PROVE MdiInv'
  OBVIOUS
<1>1. CASE UNCHANGED mdiVars
  BY <1>1 DEF mdiVars, MdiInv, HostOK
<1>2. CASE MdiNext
  <2>1. CASE Create
    BY <2>1 DEF Create, MdiInv, HostOK
  <2>2. ASSUME NEW c \in Child,
               DestroyWindow(c) \/ (\E force \in BOOLEAN : CloseChild(c, force)) PROVE MdiInv'
    BY <2>2 DEF DestroyWindow, CloseChild, Destroying, MdiInv, HostOK
  <2>3. CASE Destroy \/ DestroyLast
    BY <2>3 DEF Destroy, DestroyLast, Destroying, MdiInv, HostOK
  <2>4. CASE Destroyed
    <3>1. windows = {}
      BY <2>4 DEF Destroyed, MdiInv, HostOK, Range
    <3> QED BY <2>4, <3>1 DEF Destroyed, MdiInv, HostOK
  <2>5. ASSUME NEW c \in Child, ActivateChild(c) PROVE MdiInv'
    <3>1. "hosted" \in Model
      BY DEF Model
    <3> QED BY <2>5, <3>1, MdiInvModel
  <2> QED BY <1>2, <2>1, <2>2, <2>3, <2>4, <2>5, MdiInvModel, MdiInvTransfer, MdiInvCreate,
             MdiInvDestroyed, MdiInvCreated DEF MdiNext
<1> QED BY <1>1, <1>2

(* Both models stay well formed and the host's list, its windows and its    *)
(* client agree, however handlers call back into them.                      *)
THEOREM MdiConsistent == MdiSpec => []MdiInv
<1> QED BY MdiInvInit, MdiInvStep, PTL DEF MdiSpec

(* The host owns its children's windows: it holds one ChildState for each   *)
(* and none for a window that is gone, whatever a handler does while        *)
(* windows are created and destroyed.                                       *)
THEOREM HostKeepsItsWindows == MdiSpec => []HostOwnsItsWindows
<1>1. MdiInv => HostOwnsItsWindows
  <2> SUFFICES ASSUME MdiInv PROVE HostOwnsItsWindows
    OBVIOUS
  <2>1. Range(states) = windows /\ Len(states) = Cardinality(windows)
    <3>1. states \in Seq(Child) /\ Distinct(states) /\ Range(states) = windows
      BY DEF MdiInv, HostOK
    <3> QED BY <3>1, DistinctCount
  <2>2. ASSUME NEW m \in Model
        PROVE  /\ Cardinality(ChildIds(models[m].children)) = Len(models[m].children)
               /\ models[m].active \in IF ChildIds(models[m].children) = {} THEN {NoChild}
                                       ELSE ChildIds(models[m].children)
    <3>1. PICK s : s = models[m].children
      OBVIOUS
    <3>2. s \in ChildLists /\ ModelOK(models[m])
      BY <3>1 DEF MdiInv, ModelOK, MdiModel
    <3> QED BY <3>1, <3>2, ChildrenCounted DEF ModelOK, ActiveIsChild
  <2> QED BY <2>1, <2>2 DEF HostOwnsItsWindows, MdiInv, HostOK
<1> QED BY <1>1, MdiConsistent, PTL
-----------------------------------------------------------------------------
(* Message filters.                                                         *)

Pass == [first : SUBSET Filter, called : Seq(Filter), removed : SUBSET Filter,
         changes : Nat, self : BOOLEAN]

FirstOf(s, k) == {s[i] : i \in 1..k}

(* The filters of list s that are still to be asked: those below filter a,  *)
(* the one that is asked, or, when it is not there any more, below k.       *)
StillToAsk(s, a, k) ==
  IF a \in Range(s) THEN FirstOf(s, PositionIn(s, a) - 1) ELSE FirstOf(s, k)

PassOK(p) ==
  /\ p \in Pass
  /\ Distinct(p.called) /\ Range(p.called) \subseteq p.first

(* Who waits has not been asked, and was there when the message came.       *)
Accounted(wait, p) ==
  /\ wait \cap Range(p.called) = {} /\ wait \subseteq p.first
  /\ p.first \ p.removed \subseteq Range(p.called) \cup wait

(* The filter that is asked is in the list unless it has removed itself,    *)
(* and where the loop found it unless it has changed the list.              *)
AskedOK(s, a, k, p) ==
  /\ a \in Range(p.called)
  /\ p.self <=> a \notin Range(s)
  /\ p.changes = 0 => a \in Range(s) /\ k = PositionIn(s, a) - 1

FilterInv ==
  /\ filters \in Seq(Filter) /\ Distinct(filters)
  /\ index \in Nat \cup {-1} /\ asked \in Filter \cup {0} /\ PassOK(pass)
  /\ index = -1 => asked = 0 /\ pass = NoPass
  /\ index # -1 => Accounted(StillToAsk(filters, asked, index), pass)
  /\ index # -1 /\ asked \notin Range(filters) => index <= Len(filters)
  /\ asked # 0 => AskedOK(filters, asked, index, pass)
  /\ asked = 0 => pass.changes = 0 /\ ~pass.self

(* A filter has one place in a list without repetition.                     *)
LEMMA PositionProperties ==
  ASSUME NEW s \in Seq(Filter), Distinct(s), NEW a
  PROVE  /\ a \in Range(s) => PositionIn(s, a) \in 1..Len(s) /\ s[PositionIn(s, a)] = a
         /\ \A i \in 1..Len(s) : s[i] = a => PositionIn(s, a) = i
<1>1. DOMAIN s = 1..Len(s)
  OBVIOUS
<1>2. a \in Range(s) => \E i \in 1..Len(s) : s[i] = a
  BY <1>1 DEF Range
<1>3. ASSUME NEW i \in 1..Len(s), s[i] = a
      PROVE  PositionIn(s, a) \in 1..Len(s) /\ s[PositionIn(s, a)] = a
  BY <1>1, <1>3 DEF PositionIn
<1>4. ASSUME NEW i \in 1..Len(s), s[i] = a PROVE PositionIn(s, a) = i
  BY <1>1, <1>3, <1>4 DEF Distinct
<1> QED BY <1>2, <1>3, <1>4

(* One filter is removed: the others keep who waits below them, and a       *)
(* filter that is gone has left those below it where they were.             *)
LEMMA RemovalKeepsOrder ==
  ASSUME NEW s \in Seq(Filter), Distinct(s), NEW i \in 1..Len(s), NEW a \in Range(s),
         NEW t, t = RemoveAt(s, i), NEW k, k = PositionIn(s, a) - 1
  PROVE  /\ a # s[i] => /\ a \in Range(t)
                        /\ FirstOf(t, PositionIn(t, a) - 1) = FirstOf(s, k) \ {s[i]}
         /\ a = s[i] => /\ a \notin Range(t) /\ k \in Nat /\ k <= Len(t)
                        /\ FirstOf(t, k) = FirstOf(s, k)
<1> DEFINE n == Len(s)
           p == k + 1
<1>1. /\ n \in Nat /\ DOMAIN s = 1..n /\ p \in 1..n /\ s[p] = a /\ k = p - 1
      /\ p = PositionIn(s, a)
  <2>1. PICK q : q = PositionIn(s, a)
    OBVIOUS
  <2>2. q \in 1..Len(s) /\ s[q] = a
    BY <2>1, PositionProperties
  <2>3. q = k + 1 /\ k = q - 1
    BY <2>1, <2>2
  <2> QED BY <2>1, <2>2, <2>3
<1>2. /\ t \in Seq(Filter) /\ Distinct(t) /\ Range(t) = Range(s) \ {s[i]}
      /\ Len(t) = n - 1
      /\ \A j \in 1..n - 1 : t[j] = s[IF j < i THEN j ELSE j + 1]
  BY DistinctRemoval, RemoveAtProperties
<1>3. \A j, m \in 1..n : s[j] = s[m] => j = m
  BY <1>1 DEF Distinct
<1> HIDE DEF n, p
<1>4. ASSUME a = s[i]
      PROVE  a \notin Range(t) /\ k \in Nat /\ k <= Len(t) /\ FirstOf(t, k) = FirstOf(s, k)
  <2>1. p = i
    BY <1>1, <1>3, <1>4 DEF n
  <2>2. \A j \in 1..k : t[j] = s[j]
    BY <1>1, <1>2, <2>1
  <2>3. FirstOf(t, k) = FirstOf(s, k)
    BY <2>2 DEF FirstOf
  <2>4. k \in Nat /\ k <= Len(t)
    BY <1>1, <1>2
  <2>5. a \notin Range(t)
    BY <1>2, <1>4
  <2> QED BY <2>3, <2>4, <2>5
<1>5. ASSUME a # s[i]
      PROVE  a \in Range(t) /\ FirstOf(t, PositionIn(t, a) - 1) = FirstOf(s, k) \ {s[i]}
  <2>1. PICK q : q = IF p < i THEN p ELSE p - 1
    OBVIOUS
  <2>2. p # i /\ i \in 1..n
    BY <1>1, <1>5 DEF n
  <2>3. q \in 1..n - 1 /\ t[q] = a
    BY <1>1, <1>2, <2>1, <2>2
  <2>4. PositionIn(t, a) = q
    BY <1>2, <2>3, PositionProperties
  <2>5. ASSUME NEW j \in 1..q - 1 PROVE t[j] \in FirstOf(s, k) \ {s[i]}
    <3>1. PICK m : m = IF j < i THEN j ELSE j + 1
      OBVIOUS
    <3>2. m \in 1..k /\ m # i /\ m \in 1..n /\ t[j] = s[m]
      BY <1>1, <1>2, <2>1, <2>2, <2>3, <3>1
    <3>3. s[m] # s[i]
      BY <1>3, <2>2, <3>2
    <3> QED BY <3>2, <3>3 DEF FirstOf
  <2>6. ASSUME NEW m \in 1..k, s[m] # s[i] PROVE s[m] \in FirstOf(t, q - 1)
    <3>1. PICK j : j = IF m < i THEN m ELSE m - 1
      OBVIOUS
    <3>2. m # i
      BY <2>6
    <3>3. j \in 1..q - 1 /\ j \in 1..n - 1 /\ m = IF j < i THEN j ELSE j + 1
      BY <1>1, <2>1, <2>2, <3>1, <3>2
    <3>4. t[j] = s[m]
      BY <1>2, <3>3
    <3>5. t[j] \in FirstOf(t, q - 1)
      BY <3>3 DEF FirstOf
    <3> QED BY <3>4, <3>5
  <2>7. FirstOf(t, q - 1) = FirstOf(s, k) \ {s[i]}
    BY <2>5, <2>6 DEF FirstOf
  <2> QED BY <1>2, <1>5, <2>4, <2>7
<1> QED BY <1>4, <1>5

(* A new filter comes last, above all that wait.                            *)
LEMMA AppendKeepsOrder ==
  ASSUME NEW s \in Seq(Filter), Distinct(s), NEW a, a \in Range(s), NEW f \in Filter,
         f \notin Range(s), NEW k
  PROVE  a \in Range(Append(s, f)) /\ StillToAsk(Append(s, f), a, k) = StillToAsk(s, a, k)
<1>0. PICK t : t = Append(s, f)
  OBVIOUS
<1>1. /\ t \in Seq(Filter) /\ Distinct(t) /\ Range(t) = Range(s) \cup {f}
      /\ Len(t) = Len(s) + 1 /\ \A j \in 1..Len(s) : t[j] = s[j]
  BY <1>0, DistinctAppend
<1>2. PICK p : p = PositionIn(s, a)
  OBVIOUS
<1>3. p \in 1..Len(s) /\ s[p] = a
  BY <1>2, PositionProperties
<1>4. p \in 1..Len(t) /\ t[p] = a
  BY <1>1, <1>3
<1>5. PositionIn(t, a) = p
  BY <1>1, <1>4, PositionProperties
<1>6. \A j \in 1..p - 1 : t[j] = s[j]
  BY <1>1, <1>3
<1>7. FirstOf(t, p - 1) = FirstOf(s, p - 1)
  BY <1>6 DEF FirstOf
<1> QED BY <1>0, <1>1, <1>2, <1>5, <1>7 DEF StillToAsk

(* Between messages nobody is asked, and nothing is remembered.             *)
LEMMA BetweenMessages ==
  ASSUME index' = -1, asked' = 0, pass' = NoPass, filters' \in Seq(Filter), Distinct(filters')
  PROVE  FilterInv'
<1>1. <<>> \in Seq(Filter) /\ Distinct(<<>>) /\ Range(<<>>) = {}
  BY DEF Distinct, Range
<1>2. PICK p : p = NoPass
  OBVIOUS
<1>3. PassOK(p) /\ p.changes = 0 /\ ~p.self
  BY <1>1, <1>2 DEF NoPass, PassOK, Pass
<1> QED BY <1>2, <1>3 DEF FilterInv

(* A list without 0 is asked from the top down.                             *)
LEMMA NobodyAsked ==
  ASSUME NEW s \in Seq(Filter), NEW k
  PROVE  0 \notin Range(s) /\ StillToAsk(s, 0, k) = FirstOf(s, k)
<1>1. 0 \notin Range(s)
  <2>1. \A i \in DOMAIN s : s[i] \in Filter
    OBVIOUS
  <2> QED BY <2>1, FilterAssumption DEF Range
<1> QED BY <1>1 DEF StillToAsk

LEMMA RegisterKeeps ==
  ASSUME FilterInv, NEW f \in Filter, RegisterFilter(f) \/ UnregisterFilter(f)
  PROVE  FilterInv'
<1>1. filters' \in Seq(Filter) /\ Distinct(filters')
  <2>1. CASE RegisterFilter(f)
    BY <2>1, DistinctAppend DEF RegisterFilter, AddFilter, FilterInv
  <2>2. CASE UnregisterFilter(f)
    <3>1. PositionIn(filters, f) \in DOMAIN filters
      BY <2>2, PositionProperties DEF UnregisterFilter, FilterInv
    <3> QED BY <2>2, <3>1, DistinctRemoval DEF UnregisterFilter, RemoveFilter, FilterInv
  <2> QED BY <2>1, <2>2
<1>2. index' = -1 /\ asked' = 0 /\ pass' = NoPass
  BY DEF RegisterFilter, UnregisterFilter, FilterInv
<1> QED BY <1>1, <1>2, BetweenMessages

LEMMA StartPassKeeps ==
  ASSUME FilterInv, StartPass
  PROVE  FilterInv'
<1>1. PICK s, p : s = filters /\ p = pass'
  OBVIOUS
<1>2. /\ s \in Seq(Filter) /\ Distinct(s) /\ Len(s) \in Nat /\ DOMAIN s = 1..Len(s)
      /\ asked = 0 /\ filters' = s /\ index' = Len(s) /\ asked' = 0
      /\ p = [first |-> Range(s), called |-> <<>>, removed |-> {}, changes |-> 0, self |-> FALSE]
  <2>1. /\ s \in Seq(Filter) /\ Distinct(s)
        /\ asked = 0 /\ filters' = s /\ index' = Len(s) /\ asked' = 0
    BY <1>1 DEF StartPass, FilterInv
  <2>2. p = [NoPass EXCEPT !.first = Range(s)]
    BY <1>1 DEF StartPass
  <2>3. p = [first |-> Range(s), called |-> <<>>, removed |-> {}, changes |-> 0, self |-> FALSE]
    BY <2>2 DEF NoPass
  <2>4. Len(s) \in Nat /\ DOMAIN s = 1..Len(s)
    BY <2>1
  <2> QED BY <2>1, <2>3, <2>4
<1>3. <<>> \in Seq(Filter) /\ Distinct(<<>>) /\ Range(<<>>) = {}
  BY DEF Distinct, Range
<1>4. Range(s) \subseteq Filter /\ FirstOf(s, Len(s)) = Range(s)
  <2>1. \A i \in DOMAIN s : s[i] \in Filter
    BY <1>2
  <2> QED BY <1>2, <2>1 DEF Range, FirstOf
<1>5. PassOK(p) /\ p.changes = 0 /\ ~p.self
  BY <1>2, <1>3, <1>4 DEF PassOK, Pass
<1>6. Accounted(FirstOf(s, Len(s)), p)
  BY <1>2, <1>3, <1>4 DEF Accounted
<1>7. Accounted(StillToAsk(s, 0, Len(s)), p) /\ 0 \notin Range(s)
  BY <1>2, <1>6, NobodyAsked
<1>8. Len(s) # -1
  BY <1>2
<1> QED BY <1>1, <1>2, <1>5, <1>7, <1>8 DEF FilterInv

LEMMA AskNextKeeps ==
  ASSUME FilterInv, AskNext
  PROVE  FilterInv'
<1>1. PICK s, k, p, q : s = filters /\ k = index /\ p = pass /\ q = pass'
  OBVIOUS
<1>2. /\ s \in Seq(Filter) /\ Distinct(s) /\ Len(s) \in Nat /\ DOMAIN s = 1..Len(s)
      /\ k \in Nat /\ k > 0 /\ asked = 0 /\ PassOK(p) /\ p.changes = 0 /\ ~p.self
  BY <1>1 DEF AskNext, FilterInv
<1>3. k <= Len(s) /\ Accounted(FirstOf(s, k), p)
  <2>1. k # -1
    BY <1>2
  <2>2. 0 \notin Range(s) /\ StillToAsk(s, 0, k) = FirstOf(s, k)
    BY <1>2, NobodyAsked
  <2> QED BY <1>1, <1>2, <2>1, <2>2 DEF FilterInv
<1>4. PICK f : f = s[k]
  OBVIOUS
<1>5. k \in 1..Len(s) /\ f \in Filter /\ f \in Range(s) /\ f \in FirstOf(s, k) /\ f # 0
  <2>1. k \in 1..Len(s) /\ k \in 1..k
    BY <1>2, <1>3
  <2>2. s[k] \in Filter
    BY <1>2, <2>1
  <2> QED BY <1>2, <1>4, <2>1, <2>2, FilterAssumption DEF Range, FirstOf
<1>6. /\ filters' = s /\ index' = k - 1 /\ asked' = f
      /\ q = [p EXCEPT !.called = Append(@, f)]
  <2>1. ~(index > Len(filters))
    BY <1>1, <1>2, <1>3
  <2> QED BY <1>1, <1>4, <2>1 DEF AskNext
<1>7. PositionIn(s, f) = k
  BY <1>2, <1>4, <1>5, PositionProperties
<1>8. FirstOf(s, k - 1) = FirstOf(s, k) \ {f}
  <2>1. \A i \in 1..k : i \in 1..k - 1 \/ i = k
    BY <1>2
  <2>2. \A i \in 1..k - 1 : i \in 1..k /\ s[i] # f
    BY <1>2, <1>3, <1>4, <1>5 DEF Distinct
  <2> QED BY <1>4, <2>1, <2>2 DEF FirstOf
<1>9. p.called \in Seq(Filter) /\ Distinct(p.called) /\ f \notin Range(p.called) /\ p \in Pass
  BY <1>2, <1>3, <1>5 DEF PassOK, Pass, Accounted
<1>10. PICK c : c = Append(p.called, f)
  OBVIOUS
<1>11. c \in Seq(Filter) /\ Distinct(c) /\ Range(c) = Range(p.called) \cup {f}
  BY <1>5, <1>9, <1>10, DistinctAppend
<1>12. /\ q.called = c /\ q.first = p.first /\ q.removed = p.removed
       /\ q.changes = 0 /\ ~q.self /\ q \in Pass
  BY <1>2, <1>6, <1>9, <1>10, <1>11 DEF Pass
<1>13. PassOK(q) /\ Accounted(FirstOf(s, k - 1), q)
  BY <1>2, <1>3, <1>5, <1>8, <1>11, <1>12 DEF PassOK, Accounted
<1>14. StillToAsk(s, f, k - 1) = FirstOf(s, k - 1)
  BY <1>5, <1>7 DEF StillToAsk
<1>15. AskedOK(s, f, k - 1, q)
  BY <1>5, <1>7, <1>11, <1>12 DEF AskedOK
<1>16. k - 1 \in Nat /\ k - 1 # -1
  BY <1>2
<1> QED BY <1>1, <1>2, <1>5, <1>6, <1>13, <1>14, <1>15, <1>16 DEF FilterInv

LEMMA FilterAddsKeeps ==
  ASSUME FilterInv, SelfRemoval = "alone", NEW f \in Filter, FilterAdds(f)
  PROVE  FilterInv'
<1>1. PICK s, a, k, p, t, q :
        s = filters /\ a = asked /\ k = index /\ p = pass /\ t = filters' /\ q = pass'
  OBVIOUS
<1>2. /\ s \in Seq(Filter) /\ Distinct(s) /\ a # 0 /\ f \notin Range(s) /\ ~p.self
      /\ t = Append(s, f) /\ q = [p EXCEPT !.changes = @ + 1]
  BY <1>1 DEF FilterAdds, MayChange, AddFilter, FilterInv
<1>3. /\ a \in Filter \cup {0} /\ k \in Nat /\ k # -1
      /\ PassOK(p) /\ AskedOK(s, a, k, p) /\ Accounted(StillToAsk(s, a, k), p)
  BY <1>1, <1>2 DEF FilterInv
<1>4. asked' = a /\ index' = k
  BY <1>1 DEF FilterAdds
<1>5. a \in Range(s)
  BY <1>2, <1>3 DEF AskedOK
<1>6. t \in Seq(Filter) /\ Distinct(t)
  BY <1>2, DistinctAppend
<1>7. a \in Range(t) /\ StillToAsk(t, a, k) = StillToAsk(s, a, k)
  <2>1. s \in Seq(Filter) /\ Distinct(s) /\ f \notin Range(s) /\ t = Append(s, f)
    BY <1>2
  <2> QED BY <1>5, <2>1, AppendKeepsOrder
<1>8. /\ q \in Pass /\ q.first = p.first /\ q.called = p.called /\ q.removed = p.removed
      /\ q.changes # 0 /\ ~q.self
  <2>1. p \in Pass /\ p.changes \in Nat
    BY <1>3 DEF PassOK, Pass
  <2>2. PICK n : n = p.changes + 1
    OBVIOUS
  <2>3. n \in Nat /\ n # 0
    BY <2>1, <2>2
  <2>4. q = [p EXCEPT !.changes = n]
    BY <1>2, <2>1, <2>2 DEF Pass
  <2> QED BY <1>2, <2>1, <2>3, <2>4 DEF Pass
<1>9. PassOK(q) /\ AskedOK(t, a, k, q) /\ Accounted(StillToAsk(t, a, k), q)
  BY <1>3, <1>7, <1>8 DEF PassOK, AskedOK, Accounted
<1> QED BY <1>1, <1>2, <1>3, <1>4, <1>6, <1>7, <1>9 DEF FilterInv

LEMMA FilterRemovesKeeps ==
  ASSUME FilterInv, SelfRemoval = "alone", NEW f \in Filter, FilterRemoves(f)
  PROVE  FilterInv'
<1>1. PICK s, a, k, p, t, q :
        s = filters /\ a = asked /\ k = index /\ p = pass /\ t = filters' /\ q = pass'
  OBVIOUS
<1>2. /\ s \in Seq(Filter) /\ Distinct(s) /\ a # 0 /\ f \in Range(s)
      /\ ~p.self /\ (f = a => p.changes = 0)
      /\ t = RemoveAt(s, PositionIn(s, f))
      /\ q = [p EXCEPT !.changes = @ + 1, !.removed = @ \cup {f}, !.self = (f = a)]
  BY <1>1 DEF FilterRemoves, MayChange, RemoveFilter, FilterInv
<1>3. /\ a \in Filter \cup {0} /\ k \in Nat /\ k # -1
      /\ PassOK(p) /\ AskedOK(s, a, k, p) /\ Accounted(StillToAsk(s, a, k), p)
  BY <1>1, <1>2 DEF FilterInv
<1>4. asked' = a /\ index' = k
  BY <1>1 DEF FilterRemoves
<1>5. PICK i, h : i = PositionIn(s, f) /\ h = PositionIn(s, a) - 1
  OBVIOUS
<1>6. i \in 1..Len(s) /\ s[i] = f /\ DOMAIN s = 1..Len(s)
  BY <1>2, <1>5, PositionProperties
<1>7. t \in Seq(Filter) /\ Distinct(t) /\ t = RemoveAt(s, i)
  BY <1>2, <1>5, <1>6, DistinctRemoval
<1>8. a \in Range(s) /\ StillToAsk(s, a, k) = FirstOf(s, h)
  BY <1>2, <1>3, <1>5 DEF AskedOK, StillToAsk
<1>9. /\ q \in Pass /\ q.first = p.first /\ q.called = p.called /\ q.changes # 0
      /\ q.removed = p.removed \cup {f} /\ (q.self <=> f = a)
  <2>1. p \in Pass /\ p.changes \in Nat
    BY <1>3 DEF PassOK, Pass
  <2>2. PICK n, e, b : n = p.changes + 1 /\ e = p.removed \cup {f} /\ b = (f = a)
    OBVIOUS
  <2>3. n \in Nat /\ n # 0 /\ e \in SUBSET Filter
    BY <2>1, <2>2 DEF Pass
  <2>4. b \in BOOLEAN /\ (b <=> f = a)
    BY <2>2
  <2>5. q = [p EXCEPT !.changes = n, !.removed = e, !.self = b]
    BY <1>2, <2>1, <2>2 DEF Pass
  <2>6. /\ q \in Pass /\ q.first = p.first /\ q.called = p.called /\ q.changes = n
        /\ q.removed = e /\ q.self = b
    BY <2>1, <2>3, <2>4, <2>5 DEF Pass
  <2> QED BY <2>2, <2>3, <2>4, <2>6
<1>10. CASE f = a
  <2>1. k = h
    BY <1>2, <1>3, <1>5, <1>10 DEF AskedOK
  <2>2. a \notin Range(t) /\ k <= Len(t) /\ FirstOf(t, k) = FirstOf(s, k)
    BY <1>2, <1>5, <1>6, <1>7, <1>8, <1>10, <2>1, RemovalKeepsOrder
  <2>3. StillToAsk(t, a, k) = StillToAsk(s, a, k)
    BY <1>8, <2>1, <2>2 DEF StillToAsk
  <2>4. PassOK(q) /\ AskedOK(t, a, k, q) /\ Accounted(StillToAsk(t, a, k), q)
    BY <1>3, <1>9, <1>10, <2>2, <2>3 DEF PassOK, AskedOK, Accounted
  <2> QED BY <1>1, <1>2, <1>3, <1>4, <1>7, <2>2, <2>4 DEF FilterInv
<1>11. CASE f # a
  <2>1. a \in Range(t) /\ FirstOf(t, PositionIn(t, a) - 1) = FirstOf(s, h) \ {f}
    BY <1>2, <1>5, <1>6, <1>7, <1>8, <1>11, RemovalKeepsOrder
  <2>2. StillToAsk(t, a, k) = StillToAsk(s, a, k) \ {f}
    BY <1>8, <2>1 DEF StillToAsk
  <2>3. PassOK(q) /\ AskedOK(t, a, k, q) /\ Accounted(StillToAsk(t, a, k), q)
    BY <1>3, <1>9, <1>11, <2>1, <2>2 DEF PassOK, AskedOK, Accounted
  <2> QED BY <1>1, <1>2, <1>3, <1>4, <1>7, <2>1, <2>3 DEF FilterInv
<1> QED BY <1>10, <1>11

LEMMA PassesOnKeeps ==
  ASSUME FilterInv, PassesOn
  PROVE  FilterInv'
<1>1. PICK s, a, k, p, h, q :
        s = filters /\ a = asked /\ k = index /\ p = pass /\ h = index' /\ q = pass'
  OBVIOUS
<1>2. /\ s \in Seq(Filter) /\ Distinct(s) /\ DOMAIN s = 1..Len(s) /\ Len(s) \in Nat
      /\ a # 0 /\ k \in Nat /\ k # -1 /\ (a \notin Range(s) => k <= Len(s))
      /\ PassOK(p) /\ Accounted(StillToAsk(s, a, k), p)
  <2>1. a # 0 /\ k # -1
    BY <1>1 DEF PassesOn, FilterInv
  <2> QED BY <1>1, <2>1 DEF FilterInv
<1>3. /\ h = (IF a \in Range(s) THEN PositionIn(s, a) - 1 ELSE k)
      /\ asked' = 0 /\ filters' = s /\ q = [p EXCEPT !.self = FALSE, !.changes = 0]
  BY <1>1 DEF PassesOn
<1>4. h \in Nat /\ h <= Len(s) /\ h # -1 /\ StillToAsk(s, a, k) = FirstOf(s, h)
  <2>1. CASE a \in Range(s)
    <3>1. PICK i : i = PositionIn(s, a)
      OBVIOUS
    <3>2. i \in 1..Len(s) /\ h = i - 1
      BY <1>2, <1>3, <2>1, <3>1, PositionProperties
    <3>3. StillToAsk(s, a, k) = FirstOf(s, h)
      BY <2>1, <3>1, <3>2 DEF StillToAsk
    <3> QED BY <1>2, <3>2, <3>3
  <2>2. CASE a \notin Range(s)
    BY <1>2, <1>3, <2>2 DEF StillToAsk
  <2> QED BY <2>1, <2>2
<1>5. 0 \notin Range(s) /\ StillToAsk(s, 0, h) = FirstOf(s, h)
  BY <1>2, NobodyAsked
<1>6. /\ q \in Pass /\ q.first = p.first /\ q.called = p.called /\ q.removed = p.removed
      /\ q.changes = 0 /\ ~q.self
  BY <1>2, <1>3 DEF PassOK, Pass
<1>7. PassOK(q) /\ Accounted(StillToAsk(s, 0, h), q)
  BY <1>2, <1>4, <1>5, <1>6 DEF PassOK, Accounted
<1> QED BY <1>1, <1>2, <1>3, <1>4, <1>6, <1>7 DEF FilterInv

(* The invariant of the filters: the place in the list tells who has been   *)
(* asked, whatever the filters do to the list, as long as one that removes  *)
(* itself does nothing else.                                                *)
THEOREM FiltersConsistent ==
  ASSUME SelfRemoval = "alone"
  PROVE  FilterSpec => []FilterInv
<1>1. FilterInit => FilterInv
  <2> SUFFICES ASSUME FilterInit PROVE FilterInv
    OBVIOUS
  <2>1. <<>> \in Seq(Filter) /\ Distinct(<<>>) /\ Range(<<>>) = {}
    BY DEF Distinct, Range
  <2>2. PICK p : p = NoPass
    OBVIOUS
  <2>3. PassOK(p) /\ p.changes = 0 /\ ~p.self
    BY <2>1, <2>2 DEF NoPass, PassOK, Pass
  <2> QED BY <2>1, <2>2, <2>3 DEF FilterInit, FilterInv
<1>2. FilterInv /\ [FilterNext]_filterVars => FilterInv'
  <2> SUFFICES ASSUME FilterInv, [FilterNext]_filterVars PROVE FilterInv'
    OBVIOUS
  <2>1. CASE UNCHANGED filterVars
    BY <2>1 DEF filterVars, FilterInv
  <2>2. ASSUME NEW f \in Filter,
               RegisterFilter(f) \/ UnregisterFilter(f) \/ FilterAdds(f) \/ FilterRemoves(f)
        PROVE  FilterInv'
    BY <2>2, RegisterKeeps, FilterAddsKeeps, FilterRemovesKeeps
  <2>3. CASE Takes \/ EndPass
    <3>1. filters \in Seq(Filter) /\ Distinct(filters)
      BY DEF FilterInv
    <3>2. filters' = filters /\ index' = -1 /\ asked' = 0 /\ pass' = NoPass
      BY <2>3 DEF Takes, EndPass
    <3> QED BY <3>1, <3>2, BetweenMessages
  <2> QED BY <2>1, <2>2, <2>3, StartPassKeeps, AskNextKeeps, PassesOnKeeps DEF FilterNext
<1> QED BY <1>1, <1>2, PTL DEF FilterSpec

(* Whatever filters register and remove while a message goes through them,  *)
(* none sees it twice, none registered meanwhile sees it, and a message     *)
(* that no filter took was seen by all that stayed.                         *)
THEOREM MessagesAreSeenOnce ==
  ASSUME SelfRemoval = "alone"
  PROVE  FilterSpec => []FiltersSeeMessageOnce
<1>1. FilterInv => FiltersSeeMessageOnce
  <2> SUFFICES ASSUME FilterInv PROVE FiltersSeeMessageOnce
    OBVIOUS
  <2>1. IsInjective(pass.called) /\ Range(pass.called) \subseteq pass.first
    BY DEF FilterInv, PassOK, Distinct, IsInjective
  <2>2. ASSUME index = 0, asked = 0
        PROVE  pass.first \ pass.removed \subseteq Range(pass.called)
    <3>1. Accounted(StillToAsk(filters, 0, 0), pass) /\ filters \in Seq(Filter)
      BY <2>2 DEF FilterInv
    <3>2. StillToAsk(filters, 0, 0) = FirstOf(filters, 0)
      BY <3>1, NobodyAsked
    <3>3. FirstOf(filters, 0) = {}
      BY DEF FirstOf
    <3> QED BY <3>1, <3>2, <3>3 DEF Accounted
  <2> QED BY <2>1, <2>2 DEF FiltersSeeMessageOnce
<1> QED BY <1>1, FiltersConsistent, PTL
=================================================================================
