------------------------- MODULE PublicPagesProofs -------------------------
(***************************************************************************)
(* Theorems about PublicPages, for any users, requests, limits and times.  *)
(***************************************************************************)
EXTENDS PublicPages, FiniteSetTheorems, WellFoundedInduction, TLAPS

----------------------------------------------------------------------------
(* Weeks.                                                                  *)

\* Division by a positive number.
LEMMA Quotient ==
  ASSUME NEW a \in Int, NEW w \in Nat \ {0}
  PROVE  /\ a \div w \in Int
         /\ w * (a \div w) <= a
         /\ a < w * (a \div w) + w
  BY SMT

\* Earlier times lie in earlier weeks or the same.
LEMMA WeeksAreOrdered ==
  ASSUME NEW a \in Int, NEW b \in Int, a <= b
  PROVE  a \div Week <= b \div Week
<1> DEFINE p == a \div Week
<1> DEFINE q == b \div Week
<1>1. /\ p \in Int /\ q \in Int /\ Week \in Nat \ {0}
      /\ Week * p <= a
      /\ b < Week * q + Week
  BY Quotient, PagesAssumption
<1> HIDE DEF p, q
<1>2. ASSUME p > q PROVE FALSE
  <2>1. p - (q + 1) \in Nat
    BY <1>1, <1>2
  <2>2. PICK d \in Nat : p = q + 1 + d
    BY <1>1, <2>1
  <2>3. Week * p = Week * q + Week + Week * d
    BY <1>1, <2>2
  <2>4. Week * d >= 0
    BY <1>1
  <2>5. Week * p \in Int /\ Week * q \in Int /\ Week * d \in Int
    BY <1>1
  <2> QED
    BY <1>1, <2>3, <2>4, <2>5
<1> QED
  BY <1>1, <1>2 DEF p, q

\* A time of the run lies in a week of the run.
LEMMA WeekOfTheRun ==
  ASSUME NEW now \in Nat, now <= MaxClock
  PROVE  currentLeaderboardSeason(now) \in 0 .. (MaxClock \div Week)
<1>1. /\ now \div Week <= MaxClock \div Week
      /\ 0 \div Week <= now \div Week
  BY WeeksAreOrdered, PagesAssumption
<1>2. 0 \div Week = 0
  BY Quotient, PagesAssumption
<1>3. now \div Week \in Int /\ MaxClock \div Week \in Int
  BY Quotient, PagesAssumption
<1> QED
  BY <1>1, <1>2, <1>3 DEF currentLeaderboardSeason

----------------------------------------------------------------------------
(* A ranking is one board.                                                 *)

\* Ranks are 1 .. n, and neither a rank nor a user occurs twice.
Board(entries) ==
  /\ \E n \in Nat : {x.rank : x \in entries} = 1 .. n
  /\ \A x, y \in entries : x.user = y.user \/ x.rank = y.rank => x = y
  /\ \A x, y \in entries : x.rank < y.rank => Above(x.snap, y.snap)

\* The rows of a board have as many users and ranks as there are rows.
LEMMA BoardCounts ==
  ASSUME NEW entries, Board(entries)
  PROVE  /\ {x.rank : x \in entries} = 1 .. Cardinality(entries)
         /\ Cardinality(Shown(entries)) = Cardinality(entries)
<1>1. PICK n \in Nat : {x.rank : x \in entries} = 1 .. n
  BY DEF Board
<1> DEFINE f == [x \in entries |-> x.rank]
<1> DEFINE g == [x \in entries |-> x.user]
<1>2. f \in Bijection(entries, 1 .. n)
  <2>1. f \in [entries -> 1 .. n]
    BY <1>1
  <2>2. \A x, y \in entries : f[x] = f[y] => x = y
    BY DEF Board
  <2>3. \A k \in 1 .. n : \E x \in entries : f[x] = k
    BY <1>1
  <2> QED
    BY <2>1, <2>2, <2>3 DEF Bijection, Injection, IsInjective, Surjection
<1>3. IsFiniteSet(1 .. n) /\ Cardinality(1 .. n) = n
  BY FS_Interval
<1>4. IsFiniteSet(entries) /\ Cardinality(entries) = n
  BY <1>2, <1>3, FS_Injection DEF Bijection
<1>5. g \in Bijection(entries, Shown(entries))
  <2>1. g \in [entries -> Shown(entries)]
    BY DEF Shown
  <2>2. \A x, y \in entries : g[x] = g[y] => x = y
    BY DEF Board
  <2>3. \A u \in Shown(entries) : \E x \in entries : g[x] = u
    BY DEF Shown
  <2> QED
    BY <2>1, <2>2, <2>3 DEF Bijection, Injection, IsInjective, Surjection
<1>6. Cardinality(Shown(entries)) = Cardinality(entries)
  BY <1>4, <1>5, FS_Bijection DEF ExistsBijection
<1> QED
  BY <1>1, <1>4, <1>6

\* Snapshots of different users.
Distinct(all) ==
  /\ IsFiniteSet(all)
  /\ \A s \in all : s.user \in Int /\ s.at \in Int /\ s.total \in Int
  /\ \A s, t \in all : s.user = t.user => s = t

\* Of two different users' snapshots one is above the other, and whoever is
\* above it is above everything below.
LEMMA RanksAreStrict ==
  ASSUME NEW all, Distinct(all), NEW s \in all, NEW t \in all
  PROVE  /\ s # t => Above(s, t) \/ Above(t, s)
         /\ Above(s, t) => Rank(s, all) < Rank(t, all)
         /\ Rank(s, all) \in 1 .. Cardinality(all)
<1> DEFINE up(x) == {y \in all : Above(y, x)}
<1>1. s # t => Above(s, t) \/ Above(t, s)
  BY DEF Distinct, Above
<1>2. \A x \in all : IsFiniteSet(up(x)) /\ Cardinality(up(x)) \in Nat
  <2> TAKE x \in all
  <2>1. up(x) \in SUBSET all
    OBVIOUS
  <2> QED
    BY <2>1, FS_Subset, FS_CardinalityType DEF Distinct
<1>3. ASSUME Above(s, t) PROVE Rank(s, all) < Rank(t, all)
  <2>1. up(s) \subseteq up(t)
    BY <1>3 DEF Distinct, Above
  <2>2. s \in up(t) /\ s \notin up(s)
    BY <1>3 DEF Distinct, Above
  <2>3. Cardinality(up(s)) <= Cardinality(up(t)) /\ Cardinality(up(s)) # Cardinality(up(t))
    BY <1>2, <2>1, <2>2, FS_Subset
  <2> QED
    BY <1>2, <2>3 DEF Rank
<1>4. Rank(s, all) \in 1 .. Cardinality(all)
  <2>1. up(s) \subseteq all /\ s \notin up(s)
    BY DEF Distinct, Above
  <2>2. Cardinality(up(s)) <= Cardinality(all) /\ Cardinality(up(s)) # Cardinality(all)
    BY <2>1, FS_Subset DEF Distinct
  <2>3. Cardinality(all) \in Nat
    BY FS_CardinalityType DEF Distinct
  <2> QED
    BY <1>2, <2>2, <2>3 DEF Rank
<1> QED
  BY <1>1, <1>3, <1>4

\* Every rank up to the number of snapshots is taken.
LEMMA RanksAreDense ==
  ASSUME NEW all, Distinct(all)
  PROVE  {Rank(s, all) : s \in all} = 1 .. Cardinality(all)
<1> DEFINE R == 1 .. Cardinality(all)
<1> DEFINE f == [s \in all |-> Rank(s, all)]
<1>1. Cardinality(all) \in Nat /\ IsFiniteSet(all)
  BY FS_CardinalityType DEF Distinct
<1>2. \A s \in all : Rank(s, all) \in R /\ Rank(s, all) \in Int
  BY <1>1, RanksAreStrict
<1>3. \A s, t \in all : Rank(s, all) = Rank(t, all) => s = t
  <2> SUFFICES ASSUME NEW s \in all, NEW t \in all, s # t
               PROVE  Rank(s, all) # Rank(t, all)
    OBVIOUS
  <2>1. Above(s, t) \/ Above(t, s)
    BY RanksAreStrict
  <2>2. Rank(s, all) < Rank(t, all) \/ Rank(t, all) < Rank(s, all)
    BY <2>1, RanksAreStrict
  <2> QED
    BY <1>2, <2>2
<1>4. f \in Injection(all, R)
  <2>1. f \in [all -> R]
    BY <1>2
  <2> QED
    BY <1>3, <2>1 DEF Injection, IsInjective
<1>5. IsFiniteSet(R) /\ Cardinality(R) = Cardinality(all)
  BY <1>1, FS_Interval
<1>6. f \in Surjection(all, R)
  BY <1>4, <1>5, FS_Injection
<1>7. \A k \in R : \E s \in all : Rank(s, all) = k
  BY <1>6 DEF Surjection
<1> HIDE DEF R
<1>8. {Rank(s, all) : s \in all} = R
  BY <1>2, <1>7
<1> QED
  BY <1>8 DEF R

\* loadRankedLeaderboardCandidates returns one board, whatever the limit.
LEMMA CandidatesAreABoard ==
  ASSUME NEW all, Distinct(all), NEW limit \in Nat
  PROVE  Board(loadRankedLeaderboardCandidates(all, limit))
<1> DEFINE S == loadRankedLeaderboardCandidates(all, limit)
<1> DEFINE n == Cardinality(all)
<1>1. n \in Nat
  BY FS_CardinalityType DEF Distinct
<1>2. \A x \in S : /\ x.snap \in all /\ x.user = x.snap.user
                   /\ x.rank = Rank(x.snap, all) /\ x.rank <= limit
                   /\ x = [user |-> x.snap.user, snap |-> x.snap, rank |-> x.rank]
  BY DEF loadRankedLeaderboardCandidates
<1>3. \A s \in all : Rank(s, all) <= limit =>
         \E x \in S : x.snap = s /\ x.rank = Rank(s, all)
  <2> TAKE s \in all
  <2> HAVE Rank(s, all) <= limit
  <2>1. [user |-> s.user, snap |-> s, rank |-> Rank(s, all)] \in S
    BY DEF loadRankedLeaderboardCandidates
  <2> QED
    BY <2>1
<1>4. {Rank(s, all) : s \in all} = 1 .. n
  BY RanksAreDense
<1> HIDE DEF S, n
<1>5. \A x \in S : x.rank \in 1 .. n
  BY <1>2, <1>4
<1>6. PICK m \in Nat : \A k \in Int : k \in 1 .. m <=> k \in 1 .. n /\ k <= limit
  <2>1. CASE n <= limit
    BY <1>1, <2>1
  <2>2. CASE limit < n
    BY <1>1, <2>2
  <2> QED
    BY <1>1, <2>1, <2>2
<1>7. {x.rank : x \in S} = 1 .. m
  <2>1. \A x \in S : x.rank \in 1 .. m
    BY <1>2, <1>5, <1>6
  <2>2. ASSUME NEW k \in 1 .. m PROVE \E x \in S : x.rank = k
    <3>1. k \in 1 .. n /\ k <= limit
      BY <1>6
    <3>2. PICK s \in all : Rank(s, all) = k
      BY <1>4, <3>1
    <3> QED
      BY <1>3, <3>1, <3>2
  <2> QED
    BY <2>1, <2>2
<1>8. ASSUME NEW x \in S, NEW y \in S, x.user = y.user \/ x.rank = y.rank PROVE x = y
  <2>1. x.snap = y.snap
    <3>1. CASE x.user = y.user
      BY <1>2, <3>1 DEF Distinct
    <3>2. CASE x.rank = y.rank /\ x.snap # y.snap
      <4>1. Above(x.snap, y.snap) \/ Above(y.snap, x.snap)
        BY <1>2, <3>2, RanksAreStrict
      <4>2. Rank(x.snap, all) < Rank(y.snap, all) \/ Rank(y.snap, all) < Rank(x.snap, all)
        BY <1>2, <4>1, RanksAreStrict
      <4> QED
        BY <1>2, <1>5, <3>2, <4>2
    <3> QED
      BY <1>8, <3>1, <3>2
  <2> QED
    BY <1>2, <2>1
<1>9. ASSUME NEW x \in S, NEW y \in S, x.rank < y.rank PROVE Above(x.snap, y.snap)
  <2>1. x.snap # y.snap
    BY <1>2, <1>5, <1>9
  <2>2. ASSUME Above(y.snap, x.snap) PROVE FALSE
    <3>1. Rank(y.snap, all) < Rank(x.snap, all)
      BY <1>2, <2>2, RanksAreStrict
    <3> QED
      BY <1>2, <1>5, <1>9, <3>1
  <2> QED
    BY <1>2, <2>1, <2>2, RanksAreStrict
<1>10. \E k \in Nat : {x.rank : x \in S} = 1 .. k
  BY <1>7
<1>11. Board(S)
  BY <1>8, <1>9, <1>10 DEF Board
<1> QED
  BY <1>11 DEF S

\* What is stored of a board is one.
LEMMA StoredIsABoard ==
  ASSUME NEW cand, Board(cand), NEW w
  PROVE  Board({upsertLeaderboardSeasonSnapshot(w, c) : c \in cand})
<1> DEFINE new == {upsertLeaderboardSeasonSnapshot(w, c) : c \in cand}
<1>1. \A x \in new : \E c \in cand : /\ x = upsertLeaderboardSeasonSnapshot(w, c)
                                     /\ x.user = c.user /\ x.snap = c.snap /\ x.rank = c.rank
  BY DEF upsertLeaderboardSeasonSnapshot
<1>2. \A c \in cand : \E x \in new : x.rank = c.rank
  <2> TAKE c \in cand
  <2>1. /\ upsertLeaderboardSeasonSnapshot(w, c) \in new
        /\ upsertLeaderboardSeasonSnapshot(w, c).rank = c.rank
    BY DEF upsertLeaderboardSeasonSnapshot
  <2> QED
    BY <2>1
<1> HIDE DEF new
<1>3. {x.rank : x \in new} = {c.rank : c \in cand}
  BY <1>1, <1>2
<1>4. \A x, y \in new : x.user = y.user \/ x.rank = y.rank => x = y
  BY <1>1 DEF Board
<1>5. \A x, y \in new : x.rank < y.rank => Above(x.snap, y.snap)
  BY <1>1 DEF Board
<1> QED
  BY <1>3, <1>4, <1>5 DEF Board, new

----------------------------------------------------------------------------
(* The inductive invariant.                                                *)

Fields == {"ask", "pc", "now", "cand", "seen", "vis", "snap", "answer"}

Settings == {"public", "shows", "exact", "at", "ver", "late"}

AskFits(ask) ==
  /\ ask.kind \in Kinds
  /\ ask.kind \in {"board", "job", "history"} => ask.limit \in Nat
  /\ ask.kind \notin {"board", "job", "history"} => ask.user \in Users
  /\ ask.kind = "refresh" => ask.total \in Int
  /\ ask.kind = "hide" => ask.repo \in Repos /\ ask.hidden \in BOOLEAN
  /\ ask.kind = "update" =>
        \A field \in {"public", "shows"} :
            field \in DOMAIN ask.set => ask.set[field] \in BOOLEAN

\* Request q is about to take a step
Stands(q, step) ==
  /\ q.pc \in 1 .. Len(Steps(q.ask.kind))
  /\ Steps(q.ask.kind)[q.pc] = step

AnchorOf(q) ==
  IF q.ask.kind = "history" /\ q.pc > 2 THEN q.now - Week ELSE q.now

\* On the board, or off it since `at' or later
Allowed(o, u, at) == u \in Users /\ (o[u] = 0 \/ o[u] >= at)

\* What a run has read is one board of users who were on it when the run began
CandFits(cand, at, o) ==
  /\ Board(cand)
  /\ \A x \in cand : x.snap.at <= at /\ Allowed(o, x.user, at)

\* A board that was answered names nobody who was off it for longer than TTL
NamesFit(names, now, o) == \A u \in names : Allowed(o, u, now - TTL)

ReqFits(q, c, o) ==
  /\ DOMAIN q = Fields
  /\ AskFits(q.ask)
  /\ q.pc \in Nat /\ q.now \in Nat /\ q.now <= c
  /\ q.seen.shows \in BOOLEAN
  /\ q.answer # {} => q.pc = 100
  /\ Stands(q, "commit") => CandFits(q.cand, AnchorOf(q), o)
  /\ q.ask.kind = "board" => \A names \in q.answer : NamesFit(names, q.now, o)

ReqsFit ==
  /\ DOMAIN req = Requests
  /\ \A r \in Requests : \A q, c, o :
        q = req[r] /\ c = clock /\ o = out => ReqFits(q, c, o)

\* A stored season and what deletions took of it is one board of users who were
\* on it when its run began; keys are of events, g is who is gone
SeasonFits(w, s, keys, g, c, o) ==
  /\ DOMAIN s = {"at", "entries", "lost"}
  /\ Board(s.entries \cup s.lost)
  /\ Shown(s.entries) \cap g = {} /\ Shown(s.lost) \subseteq g
  /\ s.at \in Int /\ s.at <= c
  /\ s.at # 0 => currentLeaderboardSeason(s.at) = w
  /\ \A x \in s.entries : /\ x.snap.at <= s.at
                          /\ Allowed(o, x.user, s.at)
                          /\ EventKey(w, x) \in keys

SeasonsFit ==
  /\ DOMAIN seasons = 0 .. (MaxClock \div Week)
  /\ \A w \in DOMAIN seasons : \A s, keys, g, c, o :
        s = seasons[w] /\ keys = {v.key : v \in events} /\ g = gone /\ c = clock /\ o = out
          => SeasonFits(w, s, keys, g, c, o)

ClockFits == clock \in Nat /\ Start <= clock /\ clock <= MaxClock

\* A user is off the board exactly while the settings say so
SettingsFit ==
  /\ DOMAIN settings = Users /\ out \in [Users -> Nat]
  /\ \A u \in Users :
        /\ DOMAIN settings[u] = Settings
        /\ settings[u].public \in BOOLEAN /\ settings[u].shows \in BOOLEAN
        /\ out[u] <= clock
        /\ out[u] = 0 <=> Eligible(u)

SnapsFit == \A s \in snaps : s.user \in Users /\ s.at \in Int /\ s.total \in Int

Inv == ClockFits /\ SettingsFit /\ SnapsFit /\ SeasonsFit /\ ReqsFit

----------------------------------------------------------------------------
(* What the steps have in common.                                          *)

\* Whoever is off the board now was off it before or is since now.
Later(o, o2, c) == \A u \in Users : o2[u] = 0 \/ o2[u] = o[u] \/ o2[u] >= c

LEMMA AllowedLater ==
  ASSUME NEW o, NEW o2, NEW c, NEW u, NEW at \in Int, c \in Int,
         o2 \in [Users -> Nat], Later(o, o2, c), at <= c, Allowed(o, u, at)
  PROVE  Allowed(o2, u, at)
BY DEF Later, Allowed

\* An anchor is no later than the request.
LEMMA AnchorsArePast ==
  ASSUME NEW q, q.now \in Nat
  PROVE  AnchorOf(q) \in Int /\ AnchorOf(q) <= q.now
BY PagesAssumption DEF AnchorOf

LEMMA ReqLater ==
  ASSUME NEW q, NEW c, NEW o, NEW c2, NEW o2, ReqFits(q, c, o), c \in Int, c2 \in Int,
         c <= c2, o2 \in [Users -> Nat], Later(o, o2, c)
  PROVE  ReqFits(q, c2, o2)
<1>1. /\ q.now \in Nat /\ q.now <= c
      /\ AnchorOf(q) \in Int /\ AnchorOf(q) <= c
      /\ q.now - TTL \in Int /\ q.now - TTL <= c
  BY AnchorsArePast, PagesAssumption DEF ReqFits
<1>2. Stands(q, "commit") => CandFits(q.cand, AnchorOf(q), o2)
  BY <1>1, AllowedLater DEF ReqFits, CandFits
<1>3. q.ask.kind = "board" => \A names \in q.answer : NamesFit(names, q.now, o2)
  BY <1>1, AllowedLater DEF ReqFits, NamesFit
<1>4. q.now <= c2
  BY <1>1
<1> QED
  BY <1>2, <1>3, <1>4 DEF ReqFits

LEMMA SeasonLater ==
  ASSUME NEW w, NEW s, NEW keys, NEW g, NEW c, NEW o, NEW keys2, NEW c2, NEW o2,
         SeasonFits(w, s, keys, g, c, o), c \in Int, c2 \in Int, c <= c2, keys \subseteq keys2,
         o2 \in [Users -> Nat], Later(o, o2, c)
  PROVE  SeasonFits(w, s, keys2, g, c2, o2)
<1>1. \A x \in s.entries : Allowed(o2, x.user, s.at)
  BY AllowedLater DEF SeasonFits
<1> QED
  BY <1>1 DEF SeasonFits

\* Seasons stay as they fit when time passes and settings change.
LEMMA SeasonsLater ==
  ASSUME Inv, UNCHANGED <<seasons, events, gone>>, clock' \in Int, clock <= clock',
         out' \in [Users -> Nat], Later(out, out', clock)
  PROVE  SeasonsFit'
<1>1. PICK c : c = clock
  OBVIOUS
<1>2. PICK c2 : c2 = clock'
  OBVIOUS
<1>3. PICK o : o = out
  OBVIOUS
<1>4. PICK o2 : o2 = out'
  OBVIOUS
<1>5. PICK keys : keys = {v.key : v \in events}
  OBVIOUS
<1>0. PICK g : g = gone
  OBVIOUS
<1>6. \A w \in DOMAIN seasons : \A s : s = seasons[w] => SeasonFits(w, s, keys, g, c, o)
  BY <1>0, <1>1, <1>3, <1>5 DEF Inv, SeasonsFit
<1>7. c \in Int /\ c2 \in Int /\ c <= c2 /\ o2 \in [Users -> Nat] /\ Later(o, o2, c)
  BY <1>1, <1>2, <1>3, <1>4 DEF Inv, ClockFits
<1>8. \A w \in DOMAIN seasons : \A s : s = seasons[w] => SeasonFits(w, s, keys, g, c2, o2)
  BY <1>6, <1>7, SeasonLater
<1> QED
  BY <1>0, <1>2, <1>4, <1>5, <1>8 DEF Inv, SeasonsFit

\* The other requests stay as they fit when one of them takes a step.
LEMMA ReqsLater ==
  ASSUME Inv, NEW r \in Requests, NEW q, req' = [req EXCEPT ![r] = q],
         clock' = clock, out' \in [Users -> Nat], Later(out, out', clock),
         \A o : o = out' => ReqFits(q, clock, o)
  PROVE  ReqsFit'
<1>1. PICK c : c = clock
  OBVIOUS
<1>3. PICK o : o = out
  OBVIOUS
<1>4. PICK o2 : o2 = out'
  OBVIOUS
<1>5. \A s \in Requests : \A p : p = req[s] => ReqFits(p, c, o)
  BY <1>1, <1>3 DEF Inv, ReqsFit
<1>6. c \in Int /\ c <= c /\ o2 \in [Users -> Nat] /\ Later(o, o2, c)
  BY <1>1, <1>3, <1>4 DEF Inv, ClockFits
<1>7. \A s \in Requests : \A p : p = req[s] => ReqFits(p, c, o2)
  BY <1>5, <1>6, ReqLater
<1>8. \A p : p = q => ReqFits(p, c, o2)
  BY <1>1, <1>4
<1>9. DOMAIN req' = Requests /\ \A s \in Requests : req'[s] = IF s = r THEN q ELSE req[s]
  BY DEF Inv, ReqsFit
<1> QED
  BY <1>1, <1>4, <1>7, <1>8, <1>9 DEF ReqsFit

\* A run commits only what it read a step before.
LEMMA CommitFollows ==
  ASSUME NEW kind \in Kinds, NEW i \in Nat, i + 1 \in 1 .. Len(Steps(kind)),
         Steps(kind)[i + 1] = "commit"
  PROVE  /\ i \in 1 .. Len(Steps(kind)) /\ Steps(kind)[i] = "candidates"
         /\ kind = "history" => (i > 2 <=> i + 1 > 2)
         /\ kind # "page"
<1>1. CASE kind = "board"
  <2>1. Steps(kind) = <<"fresh", "candidates", "commit">>
    BY <1>1 DEF Steps
  <2> QED
    BY <1>1, <2>1
<1>2. CASE kind = "job"
  <2>1. Steps(kind) = <<"candidates", "commit">>
    BY <1>2 DEF Steps
  <2> QED
    BY <1>2, <2>1
<1>3. CASE kind = "history"
  <2>1. Steps(kind) = <<"candidates", "commit", "candidates", "commit">>
    BY <1>3 DEF Steps
  <2>2. i \in {0, 1, 2, 3}
    BY <2>1
  <2>3. i \in {1, 3}
    BY <2>1, <2>2
  <2>4. Steps(kind)[i] = "candidates" /\ i \in 1 .. Len(Steps(kind)) /\ (i > 2 <=> i + 1 > 2)
    BY <2>1, <2>3
  <2> QED
    BY <1>3, <2>4
<1>4. CASE kind = "page"
  <2>1. Steps(kind) = <<"settings?", "visibility?", "snapshot?", "get", "set">>
    BY <1>4 DEF Steps
  <2> QED
    BY <1>4, <2>1
<1>5. CASE kind = "update"
  <2>1. Steps(kind) = <<"load", "users", "settings">>
    BY <1>5 DEF Steps
  <2> QED
    BY <1>5, <2>1
<1>6. CASE kind \in {"hide", "refresh", "delete"}
  <2>1. Steps(kind) \in {<<"visibility">>, <<"insert">>, <<"delete">>}
    BY <1>6 DEF Steps
  <2> QED
    BY <1>6, <2>1
<1> QED
  BY <1>1, <1>2, <1>3, <1>4, <1>5, <1>6 DEF Kinds

\* No request has a hundred steps.
LEMMA StepsAreFew ==
  ASSUME NEW kind \in Kinds
  PROVE  Len(Steps(kind)) \in 1 .. 5
BY DEF Kinds, Steps

\* A request after a step that keeps fields f.
Stepped(q, f) ==
  [x \in DOMAIN q |-> IF x = "pc" THEN q.pc + 1 ELSE IF x \in DOMAIN f THEN f[x] ELSE q[x]]

\* A request that has been answered.
Ended(q, what) == [q EXCEPT !.pc = 100, !.answer = {what}]

LEMMA SteppedFits ==
  ASSUME NEW q, NEW c, NEW o, ReqFits(q, c, o), q.pc # 100, NEW f,
         DOMAIN f \subseteq {"now", "cand", "seen", "vis", "snap"},
         "seen" \in DOMAIN f => f.seen.shows \in BOOLEAN,
         "now" \in DOMAIN f => q.pc = 0 /\ f.now \in Nat /\ f.now <= c,
         Stands(q, "candidates") => "cand" \in DOMAIN f /\ CandFits(f.cand, AnchorOf(q), o)
  PROVE  ReqFits(Stepped(q, f), c, o)
<1> DEFINE p == Stepped(q, f)
<1>1. /\ DOMAIN p = Fields /\ p.pc = q.pc + 1 /\ p.ask = q.ask /\ p.answer = q.answer
      /\ p.now = IF "now" \in DOMAIN f THEN f.now ELSE q.now
      /\ p.cand = IF "cand" \in DOMAIN f THEN f.cand ELSE q.cand
      /\ p.seen = IF "seen" \in DOMAIN f THEN f.seen ELSE q.seen
  BY DEF ReqFits, Fields, Stepped
<1> HIDE DEF p
<1>2. q.answer = {} /\ q.pc \in Nat /\ q.now \in Nat /\ AskFits(q.ask) /\ q.ask.kind \in Kinds
  BY DEF ReqFits, AskFits
<1>3. ASSUME Stands(p, "commit") PROVE CandFits(p.cand, AnchorOf(p), o)
  <2>1. /\ q.pc + 1 \in 1 .. Len(Steps(q.ask.kind)) /\ Steps(q.ask.kind)[q.pc + 1] = "commit"
    BY <1>1, <1>3 DEF Stands
  <2>2. Stands(q, "candidates") /\ (q.ask.kind = "history" => (q.pc > 2 <=> q.pc + 1 > 2))
    BY <1>2, <2>1, CommitFollows DEF Stands
  <2>3. q.pc # 0
    BY <2>2 DEF Stands
  <2>4. p.now = q.now
    BY <1>1, <2>3
  <2>5. AnchorOf(p) = AnchorOf(q)
    BY <1>1, <2>2, <2>4 DEF AnchorOf
  <2> QED
    BY <1>1, <2>2, <2>5
<1>4. p.now \in Nat /\ p.now <= c /\ p.seen.shows \in BOOLEAN
  BY <1>1 DEF ReqFits
<1>5. ReqFits(p, c, o)
  BY <1>1, <1>2, <1>3, <1>4 DEF ReqFits
<1> QED
  BY <1>5 DEF p

\* Nothing is committed after an answer.
LEMMA EndStands ==
  ASSUME NEW q, q.ask.kind \in Kinds, q.pc = 100, NEW step
  PROVE  ~Stands(q, step)
BY StepsAreFew DEF Stands

LEMMA EndedFits ==
  ASSUME NEW q, NEW c, NEW o, ReqFits(q, c, o), NEW what,
         q.ask.kind = "board" => NamesFit(what, q.now, o)
  PROVE  ReqFits(Ended(q, what), c, o)
<1> DEFINE p == Ended(q, what)
<1>1. /\ DOMAIN p = Fields /\ p.pc = 100 /\ p.ask = q.ask /\ p.answer = {what}
      /\ p.now = q.now /\ p.cand = q.cand /\ p.seen = q.seen /\ p.vis = q.vis /\ p.snap = q.snap
  BY DEF ReqFits, Fields, Ended
<1> HIDE DEF p
<1>2. q.ask.kind \in Kinds
  BY DEF ReqFits, AskFits
<1>3. ~Stands(p, "commit")
  BY <1>1, <1>2, EndStands
<1>5. q.ask.kind = "board" => \A names \in p.answer : NamesFit(names, p.now, o)
  BY <1>1
<1>6. ReqFits(p, c, o)
  BY <1>1, <1>3, <1>5 DEF ReqFits
<1> QED
  BY <1>6 DEF p

\* An error is no answer that could be wrong.
LEMMA FailedFits ==
  ASSUME NEW q, NEW c, NEW o, ReqFits(q, c, o)
  PROVE  ReqFits([q EXCEPT !.pc = 100], c, o)
<1> DEFINE p == [q EXCEPT !.pc = 100]
<1>1. /\ DOMAIN p = Fields /\ p.pc = 100 /\ p.ask = q.ask /\ p.answer = q.answer
      /\ p.now = q.now /\ p.cand = q.cand /\ p.seen = q.seen /\ p.vis = q.vis /\ p.snap = q.snap
  BY DEF ReqFits, Fields
<1> HIDE DEF p
<1>2. q.ask.kind \in Kinds
  BY DEF ReqFits, AskFits
<1>3. ~Stands(p, "commit")
  BY <1>1, <1>2, EndStands
<1>5. q.ask.kind = "board" => \A names \in p.answer : NamesFit(names, p.now, o)
  BY <1>1 DEF ReqFits
<1>6. ReqFits(p, c, o)
  BY <1>1, <1>3, <1>5 DEF ReqFits
<1> QED
  BY <1>6 DEF p

----------------------------------------------------------------------------
(* Every step keeps the invariant.                                         *)

\* Steps that only concern one request.
Alone(r, q) ==
  /\ req' = [req EXCEPT ![r] = q]
  /\ UNCHANGED <<settings, snaps, seasons, events, gone, out, clock>>

LEMMA SameOut ==
  ASSUME Inv, UNCHANGED <<out, clock>>
  PROVE  out' \in [Users -> Nat] /\ Later(out, out', clock)
<1>1. out' = out /\ out \in [Users -> Nat]
  BY DEF Inv, SettingsFit
<1> QED
  BY <1>1 DEF Later

LEMMA AloneKeeps ==
  ASSUME Inv, NEW r \in Requests, NEW q, Alone(r, q), ReqFits(q, clock, out)
  PROVE  Inv'
<1>1. out' \in [Users -> Nat] /\ Later(out, out', clock)
  BY SameOut DEF Alone
<1>2. \A o : o = out' => ReqFits(q, clock, o)
  BY DEF Alone
<1>3. ReqsFit'
  BY <1>1, <1>2, ReqsLater DEF Alone
<1>4. SeasonsFit'
  BY <1>1, SeasonsLater DEF Alone, Inv, ClockFits
<1> QED
  BY <1>3, <1>4 DEF Alone, Inv, ClockFits, SettingsFit, Eligible, SnapsFit

\* A request as the invariant knows it.
LEMMA ReqIs ==
  ASSUME Inv, NEW r \in Requests, NEW step, At(r, step)
  PROVE  /\ ReqFits(req[r], clock, out)
         /\ Stands(req[r], step) /\ req[r].pc # 100
         /\ req[r].ask.kind \in Kinds
         /\ Anchor(r) = AnchorOf(req[r])
<1>1. ReqFits(req[r], clock, out)
  BY DEF Inv, ReqsFit
<1>2. req[r].ask.kind \in Kinds
  BY <1>1 DEF ReqFits, AskFits
<1>3. Stands(req[r], step)
  BY DEF At, Stands
<1>4. req[r].pc # 100
  BY <1>2, <1>3, EndStands
<1> QED
  BY <1>1, <1>2, <1>3, <1>4 DEF Anchor, AnchorOf

LEMMA GoIs ==
  ASSUME Inv, NEW r \in Requests, NEW f, Go(r, f)
  PROVE  req' = [req EXCEPT ![r] = Stepped(req[r], f)]
BY DEF Go, Stepped, Inv, ReqsFit

LEMMA AnswerIs ==
  ASSUME Inv, NEW r \in Requests, NEW what, Answer(r, what)
  PROVE  req' = [req EXCEPT ![r] = Ended(req[r], what)]
BY DEF Answer, Ended, Inv, ReqsFit

\* The requests' kinds and what they do
LEMMA KindsOfSteps ==
  ASSUME NEW q, q.ask.kind \in Kinds
  PROVE  /\ Stands(q, "fresh") => q.ask.kind = "board"
         /\ Stands(q, "candidates") \/ Stands(q, "commit")
              => q.ask.kind \in {"board", "job", "history"}
         /\ Stands(q, "load") \/ Stands(q, "users") \/ Stands(q, "settings")
              => q.ask.kind = "update"
         /\ Stands(q, "insert") => q.ask.kind = "refresh"
         /\ Stands(q, "delete") => q.ask.kind = "delete"
         /\ Stands(q, "visibility") => q.ask.kind = "hide"
         /\ Stands(q, "get") \/ Stands(q, "set") \/ Stands(q, "settings?") => q.ask.kind = "page"
         /\ Stands(q, "visibility?") \/ Stands(q, "snapshot?") => q.ask.kind = "page"
         /\ \A a, b : Stands(q, a) /\ Stands(q, b) => a = b
BY SMTT(30) DEF Kinds, Steps, Stands

\* A step that keeps fields f of its request.
LEMMA GoKeeps ==
  ASSUME Inv, NEW r \in Requests, NEW step, At(r, step), step # "candidates", NEW f, Go(r, f),
         DOMAIN f \subseteq {"cand", "seen", "vis", "snap"},
         "seen" \in DOMAIN f => f.seen.shows \in BOOLEAN,
         UNCHANGED <<settings, snaps, seasons, events, gone, out, clock>>
  PROVE  Inv'
<1>1. ReqFits(req[r], clock, out) /\ req[r].pc # 100
  BY ReqIs
<1>2. ~Stands(req[r], "candidates")
  BY ReqIs, KindsOfSteps
<1>3. "now" \notin DOMAIN f /\ DOMAIN f \subseteq {"now", "cand", "seen", "vis", "snap"}
  OBVIOUS
<1>4. ReqFits(Stepped(req[r], f), clock, out)
  BY <1>1, <1>2, <1>3, SteppedFits
<1>5. Alone(r, Stepped(req[r], f))
  BY GoIs DEF Alone
<1> QED
  BY <1>4, <1>5, AloneKeeps

\* An answer.
LEMMA AnswerKeeps ==
  ASSUME Inv, NEW r \in Requests, NEW step, At(r, step), NEW what, Answer(r, what),
         req[r].ask.kind = "board" => NamesFit(what, req[r].now, out),
         UNCHANGED <<settings, snaps, seasons, events, gone, out, clock>>
  PROVE  Inv'
<1>1. ReqFits(req[r], clock, out)
  BY ReqIs
<1>2. ReqFits(Ended(req[r], what), clock, out)
  BY <1>1, EndedFits
<1>3. Alone(r, Ended(req[r], what))
  BY AnswerIs DEF Alone
<1> QED
  BY <1>2, <1>3, AloneKeeps

\* An error.
LEMMA ErrorKeeps ==
  ASSUME Inv, NEW r \in Requests, Fail(r),
         UNCHANGED <<settings, snaps, seasons, events, gone, out, clock>>
  PROVE  Inv'
<1>1. ReqFits(req[r], clock, out)
  BY DEF Inv, ReqsFit
<1>2. ReqFits([req[r] EXCEPT !.pc = 100], clock, out)
  BY <1>1, FailedFits
<1>3. Alone(r, [req[r] EXCEPT !.pc = 100])
  BY DEF Alone, Fail
<1> QED
  BY <1>2, <1>3, AloneKeeps

LEMMA BeginKeeps ==
  ASSUME Inv, NEW r \in Requests, Begin(r)
  PROVE  Inv'
<1>0. UNCHANGED <<settings, snaps, seasons, events, gone, out, clock>>
  BY DEF Begin
<1>1. CASE Fail(r)
  BY <1>0, <1>1, ErrorKeeps
<1>2. CASE Go(r, [now |-> clock])
  <2>1. ReqFits(req[r], clock, out)
    BY DEF Inv, ReqsFit
  <2>2. req[r].pc = 0
    BY DEF Begin
  <2>3. ~Stands(req[r], "candidates")
    BY <2>2 DEF Stands
  <2>4. clock \in Nat /\ clock <= clock
    BY DEF Inv, ClockFits
  <2> DEFINE f == [now |-> clock]
  <2>5. DOMAIN f = {"now"} /\ f.now = clock
    OBVIOUS
  <2> HIDE DEF f
  <2>6. ReqFits(Stepped(req[r], f), clock, out)
    BY <2>1, <2>2, <2>3, <2>4, <2>5, SteppedFits
  <2>7. Go(r, f)
    BY <1>2 DEF f
  <2>8. Alone(r, Stepped(req[r], f))
    BY <1>0, <2>7, GoIs DEF Alone
  <2> QED
    BY <1>0, <2>6, <2>8, AloneKeeps
<1> QED
  BY <1>1, <1>2 DEF Begin

\* The stored season is answered while its time lies within the TTL.
LEMMA LoadFreshKeeps ==
  ASSUME Inv, NEW r \in Requests, LoadFresh(r)
  PROVE  Inv'
<1> DEFINE found == LoadFreshLeaderboardSeason(req[r].now, req[r].ask.limit)
<1> DEFINE w == currentLeaderboardSeason(req[r].now)
<1>0. UNCHANGED <<settings, snaps, seasons, events, gone, out, clock>> /\ At(r, "fresh")
  BY DEF LoadFresh
<1>1. ReqFits(req[r], clock, out) /\ req[r].ask.kind = "board"
  BY <1>0, ReqIs, KindsOfSteps
<1>2. w \in DOMAIN seasons
  <2>1. req[r].now \in Nat /\ req[r].now <= MaxClock
    BY <1>1, PagesAssumption DEF Inv, ClockFits, ReqFits
  <2> QED
    BY <2>1, WeekOfTheRun DEF Inv, SeasonsFit
<1>8. SeasonFits(w, seasons[w], {v.key : v \in events}, gone, clock, out)
  BY <1>2 DEF Inv, SeasonsFit
<1>3. \A x \in seasons[w].entries : Allowed(out, x.user, seasons[w].at)
  BY <1>8 DEF SeasonFits
<1>4. seasons[w].at \in Int
  BY <1>8 DEF SeasonFits
<1>5. NamesFit(Shown(found), req[r].now, out)
  <2> SUFFICES ASSUME NEW x \in found
               PROVE  Allowed(out, x.user, req[r].now - TTL)
    BY DEF NamesFit, Shown
  <2>1. x \in seasons[w].entries /\ seasons[w].at >= req[r].now - TTL
    BY DEF LoadFreshLeaderboardSeason
  <2>2. out \in [Users -> Nat] /\ req[r].now - TTL \in Int
    BY <1>1, PagesAssumption DEF Inv, SettingsFit, ReqFits
  <2>3. Allowed(out, x.user, seasons[w].at)
    BY <1>3, <2>1
  <2> QED
    BY <1>4, <2>1, <2>2, <2>3 DEF Allowed
<1>6. CASE Answer(r, Shown(found))
  BY <1>0, <1>1, <1>5, <1>6, AnswerKeeps
<1>7. CASE Go(r, << >>)
  BY <1>0, <1>7, GoKeeps
<1> QED
  BY <1>6, <1>7 DEF LoadFresh

\* What a run reads is one board of users who are on it now.
LEMMA LoadCandidatesKeeps ==
  ASSUME Inv, NEW r \in Requests, LoadCandidates(r)
  PROVE  Inv'
<1> DEFINE at == AnchorOf(req[r])
<1>0. UNCHANGED <<settings, snaps, seasons, events, gone, out, clock>> /\ At(r, "candidates")
  BY DEF LoadCandidates
<1>1. /\ ReqFits(req[r], clock, out) /\ req[r].pc # 100 /\ Anchor(r) = at
      /\ req[r].ask.kind \in {"board", "job", "history"}
      /\ Stands(req[r], "candidates")
  BY <1>0, ReqIs, KindsOfSteps
<1>2. PICK all \in latest_snapshots(at) :
         Go(r, [cand |-> loadRankedLeaderboardCandidates(all, Limit(r))])
  BY <1>1 DEF LoadCandidates
<1> DEFINE listed == {u \in Users : Eligible(u) /\ LatestAsOf(u, at) # {}}
<1>3. PICK pick \in [listed -> snaps] : /\ \A u \in listed : pick[u] \in LatestAsOf(u, at)
                                        /\ all = {pick[u] : u \in listed}
  BY DEF latest_snapshots
<1>4. \A u \in listed : /\ pick[u] \in snaps /\ pick[u].user = u /\ pick[u].at <= at
                        /\ Eligible(u) /\ u \in Users
  BY <1>3 DEF LatestAsOf
<1> HIDE DEF listed
<1>5. IsFiniteSet(all)
  <2>1. IsFiniteSet(listed)
    BY PagesAssumption, FS_Subset DEF listed
  <2>2. pick \in Surjection(listed, all)
    BY <1>3 DEF Surjection
  <2> QED
    BY <2>1, <2>2, FS_Surjection
<1>6. \A s \in all : s \in snaps /\ s.user \in listed /\ s = pick[s.user]
  BY <1>3, <1>4
<1>7. \A s \in all : s.user \in Int /\ s.at \in Int /\ s.total \in Int
  BY <1>6, PagesAssumption DEF Inv, SnapsFit
<1>8. Distinct(all)
  <2>1. ASSUME NEW s \in all, NEW t \in all, s.user = t.user PROVE s = t
    BY <1>6, <2>1
  <2> QED
    BY <1>5, <1>7, <2>1 DEF Distinct
<1>9. Limit(r) \in Nat
  BY <1>1, PagesAssumption DEF Limit, ReqFits, AskFits
<1> DEFINE cand == loadRankedLeaderboardCandidates(all, Limit(r))
<1>10. Board(cand)
  BY <1>8, <1>9, CandidatesAreABoard
<1>11. ASSUME NEW x \in cand PROVE x.snap.at <= at /\ Allowed(out, x.user, at)
  <2>1. x.snap \in all /\ x.user = x.snap.user
    BY DEF loadRankedLeaderboardCandidates
  <2>2. x.user \in listed /\ x.snap = pick[x.user]
    BY <1>6, <2>1
  <2>3. x.user \in Users /\ Eligible(x.user) /\ x.snap.at <= at
    BY <1>4, <2>2
  <2>4. out[x.user] = 0
    BY <2>3 DEF Inv, SettingsFit
  <2> QED
    BY <2>3, <2>4 DEF Allowed
<1> DEFINE f == [cand |-> cand]
<1>12. DOMAIN f = {"cand"} /\ f.cand = cand
  OBVIOUS
<1>13. CandFits(cand, at, out)
  BY <1>10, <1>11 DEF CandFits
<1>14. Go(r, f)
  BY <1>2
<1> HIDE DEF f, cand
<1>15. ReqFits(Stepped(req[r], f), clock, out)
  BY <1>1, <1>12, <1>13, SteppedFits
<1>16. Alone(r, Stepped(req[r], f))
  BY <1>0, <1>14, GoIs DEF Alone
<1> QED
  BY <1>0, <1>15, <1>16, AloneKeeps

\* The committed season is the board that was read, stamped with the time its
\* run began, and every entry has its event.
LEMMA MaterializeKeeps ==
  ASSUME Inv, NEW r \in Requests, MaterializeLeaderboardSeason(r)
  PROVE  Inv'
<1> DEFINE at == AnchorOf(req[r])
<1> DEFINE w == currentLeaderboardSeason(at)
<1> DEFINE cand == req[r].cand
<1> DEFINE new == {upsertLeaderboardSeasonSnapshot(w, c) : c \in cand}
<1>0. /\ UNCHANGED <<settings, snaps, gone, out, clock>>
      /\ At(r, "commit")
  BY DEF MaterializeLeaderboardSeason
<1>1. /\ ReqFits(req[r], clock, out) /\ req[r].pc # 100 /\ Anchor(r) = at
      /\ Stands(req[r], "commit")
  BY <1>0, ReqIs
<1>2. /\ seasons' = [seasons EXCEPT ![w] = [at |-> at, entries |-> new, lost |-> {}]]
      /\ events' = upsertLeaderboardRankMovement(w, new)
      /\ IF req[r].ask.kind = "board"
         THEN Answer(r, Shown({x \in new : x.rank <= req[r].ask.limit}))
         ELSE Go(r, [cand |-> << >>])
  BY <1>1 DEF MaterializeLeaderboardSeason, upsertLeaderboardSeason,
              deleteStaleLeaderboardSeasonSnapshots
<1>3. CandFits(cand, at, out) /\ at \in Int /\ at <= clock /\ clock \in Int
  BY <1>1, AnchorsArePast DEF ReqFits, Inv, ClockFits
<1>4. /\ \A x \in new : \E c \in cand : x.user = c.user /\ x.snap = c.snap
      /\ \A c \in cand : c.user \notin gone
  BY DEF upsertLeaderboardSeasonSnapshot, MaterializeLeaderboardSeason
<1>5. Board(new)
  BY <1>3, StoredIsABoard DEF CandFits
<1>6. \A x \in new : x.snap.at <= at /\ Allowed(out, x.user, at)
  BY <1>3, <1>4 DEF CandFits
<1> DEFINE moved == {[key |-> EventKey(w, x), delta |-> x.move] : x \in new}
<1>7. events' = {v \in events : \A m \in moved : m.key # v.key} \cup moved
  BY <1>2 DEF upsertLeaderboardRankMovement
<1>8. \A x \in new : \E m \in moved : m.key = EventKey(w, x)
  <2> TAKE x \in new
  <2>1. /\ [key |-> EventKey(w, x), delta |-> x.move] \in moved
        /\ [key |-> EventKey(w, x), delta |-> x.move].key = EventKey(w, x)
    OBVIOUS
  <2> QED
    BY <2>1
<1> HIDE DEF moved, new, w, cand
<1>9. PICK keys : keys = {v.key : v \in events}
  OBVIOUS
<1>10. PICK keys2 : keys2 = {v.key : v \in events'}
  OBVIOUS
<1>11. keys \subseteq keys2
  <2> SUFFICES ASSUME NEW v \in events PROVE \E v2 \in events' : v2.key = v.key
    BY <1>9, <1>10
  <2> QED
    BY <1>7
<1>12. \A x \in new : EventKey(w, x) \in keys2
  BY <1>7, <1>8, <1>10
<1>13. PICK c : c = clock
  OBVIOUS
<1>14. PICK o : o = out
  OBVIOUS
<1>21. PICK g : g = gone
  OBVIOUS
<1>22. g = gone' /\ Shown(new) \cap g = {}
  BY <1>0, <1>4, <1>21 DEF Shown
<1>15. o \in [Users -> Nat] /\ Later(o, o, c) /\ out' = o /\ clock' = c /\ c \in Int
  BY <1>0, <1>3, <1>13, <1>14 DEF Inv, SettingsFit, Later
<1>16. \A v \in DOMAIN seasons : \A s : s = seasons[v] => SeasonFits(v, s, keys2, g, c, o)
  <2>1. \A v \in DOMAIN seasons : \A s : s = seasons[v] => SeasonFits(v, s, keys, g, c, o)
    BY <1>9, <1>13, <1>14, <1>21 DEF Inv, SeasonsFit
  <2> QED
    BY <1>11, <1>15, <2>1, SeasonLater
<1>17. \A s : s = [at |-> at, entries |-> new, lost |-> {}] => SeasonFits(w, s, keys2, g, c, o)
  <2> SUFFICES ASSUME NEW s, s = [at |-> at, entries |-> new, lost |-> {}]
               PROVE  SeasonFits(w, s, keys2, g, c, o)
    OBVIOUS
  <2>1. /\ DOMAIN s = {"at", "entries", "lost"} /\ s.at = at /\ s.entries = new /\ s.lost = {}
        /\ s.entries \cup s.lost = new /\ Shown(s.lost) = {}
    BY DEF Shown
  <2> QED
    BY <1>3, <1>5, <1>6, <1>12, <1>13, <1>14, <1>22, <2>1 DEF SeasonFits, w
<1>18. DOMAIN seasons' = DOMAIN seasons /\
       \A v \in DOMAIN seasons' :
          seasons'[v] = IF v = w THEN [at |-> at, entries |-> new, lost |-> {}] ELSE seasons[v]
  BY <1>2 DEF new, w, cand
<1>19. SeasonsFit'
  BY <1>10, <1>15, <1>16, <1>17, <1>18, <1>22 DEF Inv, SeasonsFit
<1>20. ReqsFit'
  <2>1. out' \in [Users -> Nat] /\ Later(out, out', clock)
    BY <1>14, <1>15, <1>13
  <2>2. CASE req[r].ask.kind = "board"
    <3> DEFINE names == Shown({x \in new : x.rank <= req[r].ask.limit})
    <3>1. NamesFit(names, req[r].now, out)
      <4> SUFFICES ASSUME NEW x \in new PROVE Allowed(out, x.user, req[r].now - TTL)
        BY DEF NamesFit, Shown
      <4>1. at = req[r].now /\ at \in Int /\ out \in [Users -> Nat]
        BY <1>3, <1>14, <1>15, <2>2 DEF AnchorOf
      <4>2. Allowed(out, x.user, req[r].now)
        BY <1>6, <4>1
      <4>3. req[r].now \in Int /\ TTL \in Nat
        BY <4>1, PagesAssumption
      <4> HIDE DEF at
      <4> QED
        BY <4>1, <4>2, <4>3 DEF Allowed
    <3>2. req' = [req EXCEPT ![r] = Ended(req[r], names)]
      BY <1>2, <2>2, AnswerIs DEF new, w, cand
    <3> HIDE DEF names
    <3>4. ReqFits(Ended(req[r], names), clock, out)
      BY <1>1, <3>1, EndedFits
    <3>5. \A p : p = out' => ReqFits(Ended(req[r], names), clock, p)
      BY <1>14, <1>15, <3>4
    <3> QED
      BY <1>13, <1>15, <2>1, <3>2, <3>5, ReqsLater
  <2>3. CASE req[r].ask.kind # "board"
    <3> DEFINE f == [cand |-> << >>]
    <3>1. DOMAIN f = {"cand"} /\ Go(r, f)
      BY <1>2, <2>3
    <3> HIDE DEF f
    <3>2. ~Stands(req[r], "candidates")
      BY <1>1, KindsOfSteps DEF ReqFits, AskFits
    <3>3. ReqFits(Stepped(req[r], f), clock, out)
      BY <1>1, <3>1, <3>2, SteppedFits
    <3>4. req' = [req EXCEPT ![r] = Stepped(req[r], f)]
      BY <3>1, GoIs
    <3>5. \A p : p = out' => ReqFits(Stepped(req[r], f), clock, p)
      BY <1>14, <1>15, <3>3
    <3> QED
      BY <1>13, <1>15, <2>1, <3>4, <3>5, ReqsLater
  <2> QED
    BY <2>2, <2>3
<1> QED
  BY <1>0, <1>19, <1>20 DEF Inv, ClockFits, SettingsFit, Eligible, SnapsFit

LEMMA InsertKeeps ==
  ASSUME Inv, NEW r \in Requests, InsertSnapshot(r)
  PROVE  Inv'
<1>0. At(r, "insert") /\ Go(r, << >>) /\ UNCHANGED <<settings, seasons, events, cache, gone, out, clock>>
  BY DEF InsertSnapshot
<1>1. /\ ReqFits(req[r], clock, out) /\ req[r].pc # 100 /\ req[r].ask.kind = "refresh"
      /\ ~Stands(req[r], "candidates")
  BY <1>0, ReqIs, KindsOfSteps
<1>2. ReqFits(Stepped(req[r], << >>), clock, out)
  BY <1>1, SteppedFits
<1>3. req' = [req EXCEPT ![r] = Stepped(req[r], << >>)]
  BY <1>0, GoIs
<1>4. out' \in [Users -> Nat] /\ Later(out, out', clock)
  BY <1>0, SameOut
<1>5. \A o : o = out' => ReqFits(Stepped(req[r], << >>), clock, o)
  BY <1>0, <1>2
<1>6. ReqsFit'
  BY <1>0, <1>3, <1>4, <1>5, ReqsLater
<1>7. SeasonsFit'
  BY <1>0, <1>4, SeasonsLater DEF Inv, ClockFits
<1>8. SnapsFit'
  BY <1>1 DEF Inv, SnapsFit, InsertSnapshot, ReqFits, AskFits
<1> QED
  BY <1>0, <1>6, <1>7, <1>8 DEF Inv, ClockFits, SettingsFit, Eligible

\* A change of settings takes a user off the board now or puts the user back.
LEMMA ChangeKeeps ==
  ASSUME Inv, NEW r \in Requests, At(r, "users") \/ At(r, "settings"), Go(r, << >>),
         NEW u \in Users, NEW new, Change(u, new),
         DOMAIN new = Settings, new.public \in BOOLEAN, new.shows \in BOOLEAN,
         UNCHANGED <<snaps, seasons, events, gone, clock>>
  PROVE  Inv'
<1>1. /\ ReqFits(req[r], clock, out) /\ req[r].pc # 100
      /\ ~Stands(req[r], "candidates")
  BY ReqIs, KindsOfSteps
<1>2. clock \in Nat /\ clock > 0 /\ out \in [Users -> Nat]
  BY PagesAssumption DEF Inv, ClockFits, SettingsFit
<1>10. CASE u \in gone
  <2>1. UNCHANGED <<settings, snaps, seasons, events, gone, out, clock>>
    BY <1>10 DEF Change
  <2>2. DOMAIN << >> = {}
    OBVIOUS
  <2> QED
    BY <2>1, <2>2, GoKeeps
<1> SUFFICES ASSUME u \notin gone PROVE Inv'
  BY <1>10
<1>3. /\ out' \in [Users -> Nat]
      /\ \A v \in Users : out'[v] = out[v] \/ v = u
      /\ out'[u] = IF new.public /\ new.shows THEN 0 ELSE IF out[u] > 0 THEN out[u] ELSE clock
  BY <1>2 DEF Change
<1>4. Later(out, out', clock)
  BY <1>2, <1>3 DEF Later
<1>5. SettingsFit'
  <2>0. gone' = gone
    OBVIOUS
  <2>1. /\ DOMAIN settings' = Users
        /\ \A v \in Users : settings'[v] = IF v = u THEN new ELSE settings[v]
    BY DEF Change, Inv, SettingsFit
  <2>2. \A v \in Users : out'[v] <= clock' /\ (out'[v] = 0 <=> Eligible(v)')
    BY <1>2, <1>3, <2>0, <2>1 DEF Inv, SettingsFit, Eligible
  <2> QED
    BY <1>3, <2>1, <2>2 DEF Inv, SettingsFit
<1>6. ReqFits(Stepped(req[r], << >>), clock, out)
  BY <1>1, SteppedFits
<1>7. \A o : o = out' => ReqFits(Stepped(req[r], << >>), clock, o)
  <2> SUFFICES ASSUME NEW o, o = out' PROVE ReqFits(Stepped(req[r], << >>), clock, o)
    OBVIOUS
  <2>1. o \in [Users -> Nat] /\ Later(out, o, clock) /\ clock <= clock /\ clock \in Int
    BY <1>2, <1>3, <1>4
  <2> QED
    BY <1>6, <2>1, ReqLater
<1>8. ReqsFit'
  BY <1>3, <1>4, <1>7, GoIs, ReqsLater
<1>9. SeasonsFit'
  BY <1>2, <1>3, <1>4, SeasonsLater
<1> QED
  BY <1>5, <1>8, <1>9 DEF Inv, ClockFits, SnapsFit

LEMMA UpdateUsersKeeps ==
  ASSUME Inv, NEW r \in Requests, UpdateUsers(r)
  PROVE  Inv'
<1> DEFINE u == req[r].ask.user
<1> DEFINE new == [settings[u] EXCEPT !.public = Asked(r, "public", @)]
<1>1. /\ At(r, "users") /\ Go(r, << >>) /\ Change(u, new)
      /\ UNCHANGED <<snaps, seasons, events, gone, clock>>
  BY DEF UpdateUsers
<1>2. ReqFits(req[r], clock, out) /\ req[r].ask.kind = "update"
  BY <1>1, ReqIs, KindsOfSteps
<1>3. u \in Users
  BY <1>2 DEF ReqFits, AskFits
<1>4. /\ DOMAIN settings[u] = Settings
      /\ settings[u].public \in BOOLEAN /\ settings[u].shows \in BOOLEAN
  BY <1>3 DEF Inv, SettingsFit
<1>5. Asked(r, "public", settings[u].public) \in BOOLEAN
  BY <1>2, <1>4 DEF ReqFits, AskFits, Asked
<1>6. DOMAIN new = Settings /\ new.public \in BOOLEAN /\ new.shows \in BOOLEAN
  BY <1>4, <1>5 DEF Settings
<1> QED
  BY <1>1, <1>3, <1>6, ChangeKeeps

LEMMA UpdateProfileSettingsKeeps ==
  ASSUME Inv, NEW r \in Requests, UpdateProfileSettings(r)
  PROVE  Inv'
<1> DEFINE u == req[r].ask.user
<1> DEFINE new == [settings[u] EXCEPT !.shows = Asked(r, "shows", req[r].seen.shows),
                                      !.exact = Asked(r, "exact", req[r].seen.exact),
                                      !.at = req[r].now, !.ver = @ + 1,
                                      !.late = Late(settings[u].at, req[r].now, @)]
<1>1. /\ At(r, "settings") /\ Go(r, << >>) /\ Change(u, new)
      /\ UNCHANGED <<snaps, seasons, events, gone, clock>>
  BY DEF UpdateProfileSettings
<1>2. ReqFits(req[r], clock, out) /\ req[r].ask.kind = "update"
  BY <1>1, ReqIs, KindsOfSteps
<1>3. u \in Users
  BY <1>2 DEF ReqFits, AskFits
<1>4. /\ DOMAIN settings[u] = Settings
      /\ settings[u].public \in BOOLEAN /\ settings[u].shows \in BOOLEAN
  BY <1>3 DEF Inv, SettingsFit
<1>5. Asked(r, "shows", req[r].seen.shows) \in BOOLEAN
  BY <1>2 DEF ReqFits, AskFits, Asked
<1>6. DOMAIN new = Settings /\ new.public \in BOOLEAN /\ new.shows \in BOOLEAN
  BY <1>4, <1>5 DEF Settings
<1> QED
  BY <1>1, <1>3, <1>6, ChangeKeeps

\* The page's reads and the settings' load only keep what they read.
LEMMA ReadKeeps ==
  ASSUME Inv, NEW r \in Requests,
         LoadProfileSettings(r) \/ UpsertRepositoryVisibility(r) \/ PageSettings(r)
           \/ LoadRepositoryVisibility(r) \/ PageSnapshot(r)
  PROVE  Inv'
<1>1. CASE LoadProfileSettings(r)
  <2>1. /\ At(r, "load") /\ Go(r, [seen |-> settings[req[r].ask.user]])
        /\ UNCHANGED <<settings, snaps, seasons, events, gone, out, clock>>
    BY <1>1 DEF LoadProfileSettings
  <2>2. req[r].ask.user \in Users
    BY <2>1, ReqIs, KindsOfSteps DEF ReqFits, AskFits
  <2>3. settings[req[r].ask.user].shows \in BOOLEAN
    BY <2>2 DEF Inv, SettingsFit
  <2> DEFINE f == [seen |-> settings[req[r].ask.user]]
  <2>4. DOMAIN f = {"seen"} /\ f.seen.shows \in BOOLEAN /\ Go(r, f)
    BY <2>1, <2>3
  <2> HIDE DEF f
  <2> QED
    BY <2>1, <2>4, GoKeeps
<1>2. CASE UpsertRepositoryVisibility(r)
  <2>1. /\ At(r, "visibility") /\ Go(r, << >>) /\ DOMAIN << >> = {}
        /\ UNCHANGED <<settings, snaps, seasons, events, gone, out, clock>>
    BY SMTT(30), <1>2 DEF UpsertRepositoryVisibility
  <2> QED
    BY <2>1, GoKeeps
<1>3. CASE PageSettings(r)
  <2>1. /\ At(r, "settings?")
        /\ UNCHANGED <<settings, snaps, seasons, events, gone, out, clock>>
        /\ \/ Go(r, [seen |-> settings[req[r].ask.user]])
           \/ Fail(r)
    BY <1>3 DEF PageSettings
  <2>2. req[r].ask.user \in Users
    BY <2>1, ReqIs, KindsOfSteps DEF ReqFits, AskFits
  <2>3. settings[req[r].ask.user].shows \in BOOLEAN
    BY <2>2 DEF Inv, SettingsFit
  <2>4. CASE Fail(r)
    BY <2>1, <2>4, ErrorKeeps
  <2>5. CASE Go(r, [seen |-> settings[req[r].ask.user]])
    <3> DEFINE f == [seen |-> settings[req[r].ask.user]]
    <3>1. DOMAIN f = {"seen"} /\ f.seen.shows \in BOOLEAN /\ Go(r, f)
      BY <2>3, <2>5
    <3> HIDE DEF f
    <3> QED
      BY <2>1, <3>1, GoKeeps
  <2> QED
    BY <2>1, <2>4, <2>5
<1>4. CASE LoadRepositoryVisibility(r)
  <2> DEFINE f == [vis |-> View(req[r].ask.user)]
  <2>1. /\ At(r, "visibility?")
        /\ UNCHANGED <<settings, snaps, seasons, events, gone, out, clock>>
        /\ Go(r, f) /\ DOMAIN f = {"vis"}
    BY <1>4 DEF LoadRepositoryVisibility
  <2> HIDE DEF f
  <2> QED
    BY <2>1, GoKeeps
<1>5. CASE PageSnapshot(r)
  <2>1. PICK s : Go(r, [snap |-> s])
    BY <1>5 DEF PageSnapshot
  <2> DEFINE f == [snap |-> s]
  <2>2. /\ At(r, "snapshot?")
        /\ UNCHANGED <<settings, snaps, seasons, events, gone, out, clock>>
        /\ Go(r, f) /\ DOMAIN f = {"snap"}
    BY <1>5, <2>1 DEF PageSnapshot
  <2> HIDE DEF f
  <2> QED
    BY <2>2, GoKeeps
<1> QED
  BY <1>1, <1>2, <1>3, <1>4, <1>5

LEMMA CacheKeeps ==
  ASSUME Inv, NEW r \in Requests, GetJSON(r) \/ SetJSON(r)
  PROVE  Inv'
<1>1. PICK step \in {"get", "set"} : At(r, step)
  BY DEF GetJSON, SetJSON
<1>2. UNCHANGED <<settings, snaps, seasons, events, gone, out, clock>>
  BY DEF GetJSON, SetJSON
<1>3. req[r].ask.kind = "page"
  BY <1>1, ReqIs, KindsOfSteps
<1>4. CASE Go(r, << >>)
  <2>1. DOMAIN << >> = {} /\ step # "candidates"
    OBVIOUS
  <2> QED
    BY <1>1, <1>2, <1>4, <2>1, GoKeeps
<1>5. ASSUME NEW page, Answer(r, page) PROVE Inv'
  BY <1>1, <1>2, <1>3, <1>5, AnswerKeeps
<1> QED
  BY <1>4, <1>5 DEF GetJSON, SetJSON

\* A run whose users are gone stores nothing; nor does a request about one.
LEMMA FailKeeps ==
  ASSUME Inv, NEW r \in Requests, CommitFails(r) \/ UserIsGone(r)
  PROVE  Inv'
BY ErrorKeeps DEF CommitFails, UserIsGone

\* Deletion takes a user's entries, and with them the events they need, from
\* every season; the written board stays what it was.
LEMMA DeleteKeeps ==
  ASSUME Inv, NEW r \in Requests, DeleteAccount(r)
  PROVE  Inv'
<1> DEFINE u == req[r].ask.user
<1>1. At(r, "delete") /\ Go(r, << >>) /\ UNCHANGED <<settings, clock>>
  BY DEF DeleteAccount
<1>2. /\ ReqFits(req[r], clock, out) /\ req[r].pc # 100 /\ req[r].ask.kind = "delete"
      /\ ~Stands(req[r], "candidates")
  BY <1>1, ReqIs, KindsOfSteps
<1>3. u \in Users
  BY <1>2 DEF ReqFits, AskFits
<1>4. /\ gone' = gone \cup {u}
      /\ snaps' = {s \in snaps : s.user # u}
      /\ events' = {v \in events : v.key.user # u}
      /\ seasons' = [w \in DOMAIN seasons |-> WithoutEntries(seasons[w], u)]
      /\ out' = [out EXCEPT ![u] = IF @ > 0 THEN @ ELSE clock]
  BY DEF DeleteAccount
<1> HIDE DEF u
<1>5. clock \in Nat /\ clock > 0 /\ out \in [Users -> Nat]
  BY PagesAssumption DEF Inv, ClockFits, SettingsFit
<1>6. /\ out' \in [Users -> Nat]
      /\ \A v \in Users : out'[v] = out[v] \/ v = u
      /\ out'[u] = IF out[u] > 0 THEN out[u] ELSE clock
  BY <1>3, <1>4, <1>5
<1>7. Later(out, out', clock)
  BY <1>5, <1>6 DEF Later
<1>8. SettingsFit'
  <2>1. \A v \in Users : out'[v] <= clock' /\ (out'[v] = 0 <=> Eligible(v)')
    BY <1>1, <1>4, <1>5, <1>6 DEF Inv, SettingsFit, Eligible
  <2> QED
    BY <1>1, <1>6, <2>1 DEF Inv, SettingsFit
<1>9. ReqsFit'
  <2>1. ReqFits(Stepped(req[r], << >>), clock, out)
    BY <1>2, SteppedFits
  <2>2. \A o : o = out' => ReqFits(Stepped(req[r], << >>), clock, o)
    <3> SUFFICES ASSUME NEW o, o = out' PROVE ReqFits(Stepped(req[r], << >>), clock, o)
      OBVIOUS
    <3>1. o \in [Users -> Nat] /\ Later(out, o, clock) /\ clock <= clock /\ clock \in Int
      BY <1>5, <1>6, <1>7
    <3> QED
      BY <2>1, <3>1, ReqLater
  <2> QED
    BY <1>1, <1>6, <1>7, <2>2, GoIs, ReqsLater
<1>10. SeasonsFit'
  <2>1. PICK c : c = clock
    OBVIOUS
  <2>2. PICK o : o = out
    OBVIOUS
  <2>3. PICK o2 : o2 = out'
    OBVIOUS
  <2>4. PICK keys : keys = {v.key : v \in events}
    OBVIOUS
  <2>5. PICK keys2 : keys2 = {v.key : v \in events'}
    OBVIOUS
  <2>6. PICK g : g = gone
    OBVIOUS
  <2>7. c \in Int /\ c <= c /\ o2 \in [Users -> Nat] /\ Later(o, o2, c)
    BY <1>5, <1>6, <1>7, <2>1, <2>2, <2>3
  <2>8. \A w, x : x.user # u /\ EventKey(w, x) \in keys => EventKey(w, x) \in keys2
    <3> SUFFICES ASSUME NEW w, NEW x, x.user # u, EventKey(w, x) \in keys
                 PROVE  EventKey(w, x) \in keys2
      OBVIOUS
    <3>1. PICK v \in events : v.key = EventKey(w, x)
      BY <2>4
    <3>2. v.key.user # u
      BY <3>1 DEF EventKey
    <3> QED
      BY <1>4, <2>5, <3>1, <3>2
  <2>9. ASSUME NEW w \in DOMAIN seasons, NEW s, s = WithoutEntries(seasons[w], u)
        PROVE  SeasonFits(w, s, keys2, g \cup {u}, c, o2)
    <3>1. PICK t : t = seasons[w]
      OBVIOUS
    <3>2. SeasonFits(w, t, keys, g, c, o2)
      BY <2>1, <2>2, <2>4, <2>6, <2>7, <3>1, SeasonLater DEF Inv, SeasonsFit
    <3> DEFINE of == {x \in t.entries : x.user = u}
    <3>3. /\ DOMAIN s = {"at", "entries", "lost"} /\ s.at = t.at
          /\ s.entries = t.entries \ of /\ s.lost = t.lost \cup of
      BY <2>9, <3>1, <3>2 DEF WithoutEntries, SeasonFits
    <3>4. \A x : x \in s.entries <=> x \in t.entries /\ x.user # u
      BY <3>3
    <3>5. s.entries \cup s.lost = t.entries \cup t.lost
      BY <3>3
    <3>6. Shown(s.entries) \cap (g \cup {u}) = {}
      BY <3>2, <3>4 DEF SeasonFits, Shown
    <3>7. Shown(s.lost) \subseteq g \cup {u}
      BY <3>2, <3>3 DEF SeasonFits, Shown
    <3> HIDE DEF of
    <3>8. \A x \in s.entries : /\ x.snap.at <= s.at /\ Allowed(o2, x.user, s.at)
                              /\ EventKey(w, x) \in keys2
      BY <2>8, <3>2, <3>3, <3>4 DEF SeasonFits
    <3> QED
      BY <3>2, <3>3, <3>5, <3>6, <3>7, <3>8 DEF SeasonFits
  <2>10. gone' = g \cup {u} /\ clock' = c /\ DOMAIN seasons' = DOMAIN seasons
         /\ \A w \in DOMAIN seasons : seasons'[w] = WithoutEntries(seasons[w], u)
    BY <1>1, <1>4, <2>1, <2>6
  <2> QED
    BY <2>3, <2>5, <2>9, <2>10 DEF Inv, SeasonsFit
<1>11. SnapsFit'
  BY <1>4 DEF Inv, SnapsFit
<1> QED
  BY <1>1, <1>8, <1>9, <1>10, <1>11 DEF Inv, ClockFits

LEMMA TickKeeps ==
  ASSUME Inv, Tick
  PROVE  Inv'
<1>1. /\ clock \in Nat /\ clock' = clock + 1 /\ clock < MaxClock
      /\ UNCHANGED <<settings, visibility, snaps, seasons, events, cache, gone, out, req>>
  BY DEF Tick, Inv, ClockFits
<1>2. PICK c : c = clock
  OBVIOUS
<1>3. PICK c2 : c2 = clock'
  OBVIOUS
<1>4. PICK o : o = out
  OBVIOUS
<1>5. o \in [Users -> Nat] /\ Later(o, o, c) /\ c \in Int /\ c2 \in Int /\ c <= c2
  BY <1>1, <1>2, <1>3, <1>4 DEF Inv, SettingsFit, Later
<1>6. SeasonsFit'
  <2>1. out' \in [Users -> Nat] /\ Later(out, out', clock) /\ clock' \in Int /\ clock <= clock'
    BY <1>1, <1>4, <1>5, <1>2
  <2> QED
    BY <1>1, <2>1, SeasonsLater
<1>7. ReqsFit'
  <2>1. \A r \in Requests : \A q : q = req[r] => ReqFits(q, c, o)
    BY <1>2, <1>4 DEF Inv, ReqsFit
  <2>2. \A r \in Requests : \A q : q = req[r] => ReqFits(q, c2, o)
    BY <1>5, <2>1, ReqLater
  <2> QED
    BY <1>1, <1>3, <1>4, <2>2 DEF Inv, ReqsFit
<1>8. SettingsFit'
  BY <1>1 DEF Inv, SettingsFit, Eligible
<1>9. ClockFits'
  BY <1>1, PagesAssumption DEF Inv, ClockFits
<1> QED
  BY <1>1, <1>6, <1>7, <1>8, <1>9 DEF Inv, SnapsFit

LEMMA StutterKeeps ==
  ASSUME Inv, UNCHANGED <<settings, snaps, seasons, events, gone, out, req, clock>>
  PROVE  Inv'
<1>1. ReqsFit'
  BY DEF Inv, ReqsFit
<1>2. SeasonsFit'
  BY SameOut, SeasonsLater DEF Inv, ClockFits
<1> QED
  BY <1>1, <1>2 DEF Inv, ClockFits, SettingsFit, Eligible, SnapsFit

LEMMA NextKeeps ==
  ASSUME Inv, [Next]_vars
  PROVE  Inv'
<1>1. CASE UNCHANGED vars
  BY <1>1, StutterKeeps DEF vars
<1>2. CASE Tick
  BY <1>2, TickKeeps
<1>3. CASE Expire
  BY <1>3, StutterKeeps DEF Expire
<1>4. ASSUME NEW r \in Requests,
             \/ Begin(r) \/ LoadFresh(r) \/ LoadCandidates(r) \/ MaterializeLeaderboardSeason(r)
             \/ CommitFails(r) \/ DeleteAccount(r) \/ UserIsGone(r)
             \/ InsertSnapshot(r) \/ LoadProfileSettings(r) \/ UpdateUsers(r)
             \/ UpdateProfileSettings(r) \/ UpsertRepositoryVisibility(r)
             \/ PageSettings(r) \/ LoadRepositoryVisibility(r) \/ PageSnapshot(r)
             \/ GetJSON(r) \/ SetJSON(r)
      PROVE  Inv'
  BY <1>4, BeginKeeps, LoadFreshKeeps, LoadCandidatesKeeps, MaterializeKeeps, InsertKeeps,
     FailKeeps, DeleteKeeps, UpdateUsersKeeps, UpdateProfileSettingsKeeps, ReadKeeps, CacheKeeps
<1> QED
  BY <1>1, <1>2, <1>3, <1>4 DEF Next

\* At first nothing is stored and everyone is on the board.
LEMMA InitInv == Init => Inv
<1> SUFFICES ASSUME Init PROVE Inv
  OBVIOUS
<1>1. PICK plan \in Plans :
        req = [r \in Requests |->
                 [ask |-> plan[r], pc |-> 0, now |-> 0, cand |-> << >>,
                  seen |-> Defaults, vis |-> NoRows, snap |-> 0, answer |-> {}]]
  BY DEF Init
<1>2. ClockFits
  BY PagesAssumption DEF Init, ClockFits
<1>3. SettingsFit
  <2>1. /\ DOMAIN settings = Users /\ out = [u \in Users |-> 0]
        /\ \A u \in Users : settings[u] = [public |-> TRUE, shows |-> TRUE, exact |-> TRUE,
                                          at |-> 0, ver |-> 0, late |-> 0]
        /\ gone = {}
    BY DEF Init, Defaults
  <2>2. \A u \in Users : /\ DOMAIN settings[u] = Settings
                         /\ settings[u].public = TRUE /\ settings[u].shows = TRUE
    BY <2>1 DEF Settings
  <2>3. \A u \in Users : out[u] = 0 /\ Eligible(u)
    BY <2>1, <2>2 DEF Eligible
  <2>4. out \in [Users -> Nat]
    BY <2>1
  <2>5. 0 <= clock
    BY <1>2 DEF ClockFits
  <2> QED
    BY <2>1, <2>2, <2>3, <2>4, <2>5 DEF SettingsFit
<1>4. SnapsFit
  BY PagesAssumption DEF Init, SnapsFit
<1>5. SeasonsFit
  <2>1. /\ DOMAIN seasons = 0 .. (MaxClock \div Week)
        /\ \A w \in DOMAIN seasons : seasons[w] = [at |-> 0, entries |-> {}, lost |-> {}]
    BY DEF Init, NoSeason
  <2>2. Board({})
    <3>1. {x.rank : x \in {}} = 1 .. 0
      OBVIOUS
    <3>2. 0 \in Nat
      OBVIOUS
    <3> QED
      BY <3>1, <3>2 DEF Board
  <2>3. clock \in Nat
    BY <1>2 DEF ClockFits
  <2>4. \A w \in DOMAIN seasons : /\ DOMAIN seasons[w] = {"at", "entries", "lost"}
                                  /\ seasons[w].at = 0
                                  /\ seasons[w].entries = {} /\ seasons[w].lost = {}
    BY <2>1
  <2>5. \A w, s, keys, g, o :
           DOMAIN s = {"at", "entries", "lost"} /\ s.at = 0 /\ s.entries = {} /\ s.lost = {}
             => SeasonFits(w, s, keys, g, clock, o)
    <3>1. {} \cup {} = {} /\ Shown({}) = {}
      BY DEF Shown
    <3> QED
      BY <2>2, <2>3, <3>1 DEF SeasonFits
  <2> QED
    BY <2>1, <2>4, <2>5 DEF SeasonsFit
<1>6. ReqsFit
  <2>1. DOMAIN req = Requests
    BY <1>1
  <2>2. ASSUME NEW r \in Requests PROVE ReqFits(req[r], clock, out)
    <3>1. /\ DOMAIN req[r] = Fields /\ req[r].ask = plan[r] /\ req[r].pc = 0 /\ req[r].now = 0
          /\ req[r].seen.shows = TRUE /\ req[r].answer = {}
      BY <1>1 DEF Fields, Defaults
    <3>2. AskFits(plan[r])
      BY PlansAssumption DEF AskFits
    <3>3. ~Stands(req[r], "commit")
      BY <3>1 DEF Stands
    <3>4. 0 <= clock
      BY <1>2 DEF ClockFits
    <3>5. req[r].pc \in Nat /\ req[r].now \in Nat /\ req[r].now <= clock
      BY <3>1, <3>4
    <3>6. req[r].seen.shows \in BOOLEAN
      BY <3>1, Zenon
    <3> QED
      BY <3>1, <3>2, <3>3, <3>5, <3>6 DEF ReqFits
  <2> QED
    BY <2>1, <2>2 DEF ReqsFit
<1> QED
  BY <1>2, <1>3, <1>4, <1>5, <1>6 DEF Inv

----------------------------------------------------------------------------
\* The invariant holds in every state, for any number of users and requests:
\* what the runs of a season read and store are boards of users who were on
\* them (MaterializeLeaderboardSeason), and where a board has lost places the
\* users who held them are gone (DeleteAccount).
THEOREM Invariance == Spec => []Inv
<1> QED
  BY InitInv, NextKeeps, PTL DEF Spec

\* A stored season is one board whatever runs wrote it: dense ranks, one entry
\* a user, in the order of totals, and an event for each
\* (loadRankedLeaderboardCandidates, deleteStaleLeaderboardSeasonSnapshots).
THEOREM SeasonsAreBoards == Spec => []SeasonIsOneBoard
<1>1. Inv => SeasonIsOneBoard
  <2> SUFFICES ASSUME Inv, NEW w \in DOMAIN seasons
               PROVE  LET entries == seasons[w].entries
                          lost == seasons[w].lost
                          written == entries \cup lost
                      IN  /\ {x.rank : x \in written} = 1 .. Cardinality(written)
                          /\ Cardinality(Shown(written)) = Cardinality(written)
                          /\ \A x, y \in written : x.rank < y.rank => Above(x.snap, y.snap)
                          /\ Shown(entries) \cap gone = {} /\ Shown(lost) \subseteq gone
                          /\ seasons[w].at # 0 => currentLeaderboardSeason(seasons[w].at) = w
                          /\ \A x \in entries : /\ x.snap.at <= seasons[w].at
                                                /\ \E v \in events : v.key = EventKey(w, x)
    BY DEF SeasonIsOneBoard
  <2>1. SeasonFits(w, seasons[w], {v.key : v \in events}, gone, clock, out)
    BY DEF Inv, SeasonsFit
  <2>2. Board(seasons[w].entries \cup seasons[w].lost)
    BY <2>1 DEF SeasonFits
  <2>3. \A x \in seasons[w].entries : \E v \in events : v.key = EventKey(w, x)
    BY <2>1 DEF SeasonFits
  <2> DEFINE written == seasons[w].entries \cup seasons[w].lost
  <2>4. /\ {x.rank : x \in written} = 1 .. Cardinality(written)
        /\ Cardinality(Shown(written)) = Cardinality(written)
        /\ \A x, y \in written : x.rank < y.rank => Above(x.snap, y.snap)
    BY <2>2, BoardCounts DEF Board
  <2> HIDE DEF written
  <2> QED
    BY <2>1, <2>3, <2>4 DEF SeasonFits, written
<1> QED
  BY Invariance, <1>1, PTL

\* Whoever has been private or opted out for longer than the TTL is on no board
\* that is answered (LoadFreshLeaderboardSeason reads no settings again).
THEOREM OptingOutWorks == Spec => []OptedOutLeavesBoard
<1>1. Inv => OptedOutLeavesBoard
  <2> SUFFICES ASSUME Inv, NEW r \in Requests, req[r].ask.kind = "board",
                      NEW shown \in req[r].answer, NEW u \in shown
               PROVE  ~(out[u] > 0 /\ out[u] < req[r].now - TTL)
    BY DEF OptedOutLeavesBoard
  <2>1. ReqFits(req[r], clock, out)
    BY DEF Inv, ReqsFit
  <2>2. Allowed(out, u, req[r].now - TTL) /\ req[r].now \in Nat
    BY <2>1 DEF ReqFits, NamesFit
  <2> QED
    BY <2>2, PagesAssumption DEF Allowed, Inv, SettingsFit
<1> QED
  BY Invariance, <1>1, PTL

----------------------------------------------------------------------------
(* The page cache.  What was read of one user's settings, or of the rows of *)
(* the hidden repositories, lies on one line: readings with the same number *)
(* of late changes are in the order of their times.                         *)

\* The greatest of finitely many numbers.
LEMMA MaxMember ==
  ASSUME NEW N \in Nat, NEW S, S \subseteq 0 .. N, S # {}
  PROVE  Max(S) \in S
<1> DEFINE T == {N - x : x \in S}
<1>1. T \subseteq Nat /\ T # {}
  <2>1. ASSUME NEW x \in S PROVE N - x \in Nat
    <3>1. x \in 0 .. N
      OBVIOUS
    <3> QED
      BY <3>1
  <2>2. PICK x : x \in S
    OBVIOUS
  <2> QED
    BY <2>1, <2>2
<1> HIDE DEF T
<1>2. PICK t \in T : \A y \in T : ~(<<y, t>> \in OpToRel(<, Nat))
  BY <1>1, NatLessThanWellFounded, WFMin
<1>3. \A y \in T : t <= y
  <2> SUFFICES ASSUME NEW y \in T PROVE t <= y
    OBVIOUS
  <2>1. ~(<<y, t>> \in OpToRel(<, Nat))
    BY <1>2
  <2>2. y \in Nat /\ t \in Nat
    BY <1>1
  <2>3. ~(y < t)
    BY <2>1, <2>2 DEF OpToRel
  <2> QED
    BY <2>2, <2>3
<1>4. PICK m \in S : t = N - m
  BY DEF T
<1>5. \A y \in S : m >= y
  <2> TAKE y \in S
  <2>1. t <= N - y
    BY <1>3 DEF T
  <2>2. m \in 0 .. N /\ y \in 0 .. N
    OBVIOUS
  <2> QED
    BY <1>4, <2>1, <2>2
<1> QED
  BY <1>5 DEF Max

\* The key's time is one of the rows', or 0.
LEMMA LatestIsATime ==
  ASSUME NEW times \in [Repos -> 0 .. MaxClock]
  PROVE  Latest(times) \in Nat
<1> DEFINE S == {0} \cup {times[x] : x \in Repos}
<1>1. S \subseteq 0 .. MaxClock /\ S # {} /\ MaxClock \in Nat
  BY PagesAssumption
<1>2. Max(S) \in S
  BY <1>1, MaxMember
<1> QED
  BY <1>1, <1>2 DEF Latest

Stamp(x) == x.at \in Nat /\ x.ver \in Nat /\ x.late \in Nat

\* x was read before y
Past(x, y) ==
  /\ x.ver <= y.ver /\ x.late <= y.late
  /\ x.late = y.late => x.at <= y.at
  /\ x.late = y.late /\ x.at = y.at => x.ver = y.ver

\* S was read of what is now cur
Line(S, cur) ==
  /\ Stamp(cur)
  /\ \A x \in S : Stamp(x) /\ Past(x, cur)
  /\ \A x, y \in S : x.late = y.late /\ x.at = y.at => x.ver = y.ver

\* One change, in time order or late, or none
Moves(x, y) ==
  /\ Stamp(y)
  /\ \/ y.at = x.at /\ y.ver = x.ver /\ y.late = x.late
     \/ /\ y.ver = x.ver + 1
        /\ \/ y.late = x.late + 1
           \/ y.late = x.late /\ y.at > x.at

LEMMA LineGrows ==
  ASSUME NEW S, NEW cur, NEW S2, NEW cur2,
         Line(S, cur), Moves(cur, cur2), S2 \subseteq S \cup {cur}
  PROVE  Line(S2, cur2)
<1>1. Stamp(cur) /\ Stamp(cur2)
  BY DEF Line, Moves
<1>2. Past(cur, cur2)
  BY <1>1 DEF Moves, Past, Stamp
<1>3. ASSUME NEW x \in S PROVE Stamp(x) /\ Past(x, cur2)
  BY <1>1, <1>3 DEF Line, Moves, Past, Stamp
<1>4. ASSUME NEW x \in S2, NEW y \in S2, x.late = y.late, x.at = y.at PROVE x.ver = y.ver
  <2>1. CASE x \in S /\ y \in S
    BY <1>4, <2>1 DEF Line
  <2>2. CASE x \in S /\ y = cur
    BY <1>4, <2>2 DEF Line, Past
  <2>3. CASE x = cur /\ y \in S
    BY <1>4, <2>3 DEF Line, Past
  <2>4. CASE x = cur /\ y = cur
    BY <2>4
  <2> QED
    BY <2>1, <2>2, <2>3, <2>4
<1> QED
  BY <1>1, <1>2, <1>3, <1>4 DEF Line

PageFits(page, q) ==
  /\ page.snap = q.snap
  /\ page.seen.ver = q.seen.ver \/ page.seen.late # q.seen.late
  /\ page.vis.ver = q.vis.ver \/ page.vis.late # q.vis.late

PagesOf(u) == {r \in Requests : req[r].ask.kind = "page" /\ req[r].ask.user = u}

CachedOf(u) == {k \in DOMAIN cache : k[1] = u}

SeenOf(u) == {req[r].seen : r \in PagesOf(u)} \cup {cache[k].seen : k \in CachedOf(u)}

VisOf(u) == {req[r].vis : r \in PagesOf(u)} \cup {cache[k].vis : k \in CachedOf(u)}

RowsFit ==
  visibility \in [Users -> [hidden : SUBSET Repos, times : [Repos -> 0 .. MaxClock],
                            ver : Nat, late : Nat]]

LinesFit ==
  \A u \in Users : \A S, T, s, v :
      S = SeenOf(u) /\ T = VisOf(u) /\ s = settings[u] /\ v = View(u)
        => Line(S, s) /\ Line(T, v)

\* A cached page is under the times it was made of
KeysFit ==
  \A k \in DOMAIN cache :
      cache[k].snap = k[2] /\ cache[k].seen.at = k[3] /\ cache[k].vis.at = k[4]

AnswersFit ==
  \A r \in Requests : \A q : q = req[r] /\ q.ask.kind = "page" =>
      \A page \in q.answer : PageFits(page, q)

PagesFit == RowsFit /\ LinesFit /\ KeysFit /\ AnswersFit

\* What a step may do to a request that reads settings s and rows v
QMoves(q, q2, s, v) ==
  /\ q2.ask = q.ask
  /\ q.ask.kind = "page" => /\ q2.seen = q.seen \/ q2.seen = s
                            /\ q2.vis = q.vis \/ q2.vis = v
                            /\ \A page \in q2.answer : PageFits(page, q2)

LEMMA SteppedMoves ==
  ASSUME NEW q, NEW f, NEW s, NEW v, DOMAIN q = Fields, q.answer = {},
         DOMAIN f \subseteq {"now", "cand", "seen", "vis", "snap"},
         q.ask.kind = "page" /\ "seen" \in DOMAIN f => f.seen = s,
         "vis" \in DOMAIN f => f.vis = v
  PROVE  QMoves(q, Stepped(q, f), s, v)
<1> DEFINE p == Stepped(q, f)
<1>1. /\ p.ask = q.ask /\ p.answer = q.answer
      /\ p.seen = IF "seen" \in DOMAIN f THEN f.seen ELSE q.seen
      /\ p.vis = IF "vis" \in DOMAIN f THEN f.vis ELSE q.vis
  BY DEF Fields, Stepped
<1> HIDE DEF p
<1>2. QMoves(q, p, s, v)
  BY <1>1 DEF QMoves
<1> QED
  BY <1>2 DEF p

LEMMA EndedMoves ==
  ASSUME NEW q, NEW what, NEW s, NEW v, DOMAIN q = Fields,
         q.ask.kind = "page" => PageFits(what, q)
  PROVE  QMoves(q, Ended(q, what), s, v)
<1> DEFINE p == Ended(q, what)
<1>1. /\ p.ask = q.ask /\ p.answer = {what}
      /\ p.seen = q.seen /\ p.vis = q.vis /\ p.snap = q.snap
  BY DEF Fields, Ended
<1> HIDE DEF p
<1>2. q.ask.kind = "page" => PageFits(what, p)
  BY <1>1 DEF PageFits
<1>3. QMoves(q, p, s, v)
  BY <1>1, <1>2 DEF QMoves
<1> QED
  BY <1>3 DEF p

LEMMA FailedMoves ==
  ASSUME NEW q, NEW s, NEW v, DOMAIN q = Fields,
         q.ask.kind = "page" => \A page \in q.answer : PageFits(page, q)
  PROVE  QMoves(q, [q EXCEPT !.pc = 100], s, v)
<1> DEFINE p == [q EXCEPT !.pc = 100]
<1>1. /\ p.ask = q.ask /\ p.answer = q.answer
      /\ p.seen = q.seen /\ p.vis = q.vis /\ p.snap = q.snap
  BY DEF Fields
<1> HIDE DEF p
<1>2. q.ask.kind = "page" => \A page \in p.answer : PageFits(page, p)
  BY <1>1 DEF PageFits
<1>3. QMoves(q, p, s, v)
  BY <1>1, <1>2 DEF QMoves
<1> QED
  BY <1>3 DEF p

\* A request as both invariants know it.
LEMMA PageIs ==
  ASSUME Inv, PagesFit, NEW r \in Requests
  PROVE  /\ DOMAIN req = Requests /\ DOMAIN req[r] = Fields
         /\ ReqFits(req[r], clock, out) /\ req[r].ask.kind \in Kinds
         /\ req[r].pc # 100 => req[r].answer = {}
         /\ req[r].ask.kind = "page" =>
               /\ req[r].ask.user \in Users
               /\ \A page \in req[r].answer : PageFits(page, req[r])
<1>1. ReqFits(req[r], clock, out) /\ DOMAIN req = Requests
  BY DEF Inv, ReqsFit
<1>2. req[r].ask.kind = "page" => \A page \in req[r].answer : PageFits(page, req[r])
  BY DEF PagesFit, AnswersFit
<1> QED
  BY <1>1, <1>2 DEF ReqFits, AskFits

\* One request moves; the cache gains at most the page it has made; settings
\* and rows change at most once.
LEMMA PagesMove ==
  ASSUME Inv, PagesFit, RowsFit',
         \A s \in Requests :
            \A q, q2, x, v : q = req[s] /\ q2 = req'[s] /\ x = settings[q.ask.user]
                               /\ v = View(q.ask.user) => QMoves(q, q2, x, v),
         \A k \in DOMAIN cache' :
            \/ k \in DOMAIN cache /\ cache'[k] = cache[k]
            \/ \E s \in Requests : /\ req[s].ask.kind = "page" /\ k = cacheKey(s)
                                   /\ cache'[k] = publicResponseFromSnapshot(s),
         \A u \in Users : \A x, x2, v, v2 :
            x = settings[u] /\ x2 = settings'[u] /\ v = View(u) /\ v2 = View(u)'
              => Moves(x, x2) /\ Moves(v, v2)
  PROVE  PagesFit'
<1>1. \A s \in Requests : /\ req'[s].ask = req[s].ask
                          /\ req[s].ask.kind = "page" =>
                               /\ req'[s].seen \in {req[s].seen, settings[req[s].ask.user]}
                               /\ req'[s].vis \in {req[s].vis, View(req[s].ask.user)}
                               /\ \A page \in req'[s].answer : PageFits(page, req'[s])
  BY DEF QMoves
<1>2. LinesFit'
  <2> SUFFICES ASSUME NEW u \in Users
               PROVE  \A S2, T2, x2, v2 :
                         S2 = SeenOf(u)' /\ T2 = VisOf(u)' /\ x2 = settings'[u] /\ v2 = View(u)'
                           => Line(S2, x2) /\ Line(T2, v2)
    BY DEF LinesFit
  <2> SUFFICES ASSUME NEW S2, NEW T2, NEW x2, NEW v2, S2 = SeenOf(u)', T2 = VisOf(u)',
                      x2 = settings'[u], v2 = View(u)'
               PROVE  Line(S2, x2) /\ Line(T2, v2)
    OBVIOUS
  <2>1. PICK S : S = SeenOf(u)
    OBVIOUS
  <2>2. PICK T : T = VisOf(u)
    OBVIOUS
  <2>3. PICK x : x = settings[u]
    OBVIOUS
  <2>4. PICK v : v = View(u)
    OBVIOUS
  <2>5. Line(S, x) /\ Line(T, v)
    BY <2>1, <2>2, <2>3, <2>4 DEF PagesFit, LinesFit
  <2>6. Moves(x, x2) /\ Moves(v, v2)
    BY <2>3, <2>4
  <2>7. PagesOf(u)' = PagesOf(u)
    BY <1>1 DEF PagesOf
  <2>8. ASSUME NEW k \in CachedOf(u)'
        PROVE  \/ k \in CachedOf(u) /\ cache'[k] = cache[k]
               \/ \E s \in PagesOf(u) : cache'[k].seen = req[s].seen /\ cache'[k].vis = req[s].vis
    <3>1. k \in DOMAIN cache' /\ k[1] = u
      BY DEF CachedOf
    <3>2. CASE k \in DOMAIN cache /\ cache'[k] = cache[k]
      BY <3>1, <3>2 DEF CachedOf
    <3>3. ASSUME NEW s \in Requests, req[s].ask.kind = "page", k = cacheKey(s),
                 cache'[k] = publicResponseFromSnapshot(s)
          PROVE  s \in PagesOf(u) /\ cache'[k].seen = req[s].seen /\ cache'[k].vis = req[s].vis
      <4>1. k[1] = req[s].ask.user
        BY <3>3 DEF cacheKey
      <4> QED
        BY <3>1, <3>3, <4>1 DEF PagesOf, publicResponseFromSnapshot
    <3> QED
      BY <3>1, <3>2, <3>3
  <2>9. S2 \subseteq S \cup {x}
    <3> SUFFICES ASSUME NEW y \in S2 PROVE y \in S \cup {x}
      OBVIOUS
    <3>1. CASE \E r \in PagesOf(u)' : y = req'[r].seen
      BY <1>1, <2>1, <2>3, <2>7, <3>1 DEF SeenOf, PagesOf
    <3>2. CASE \E k \in CachedOf(u)' : y = cache'[k].seen
      BY <2>1, <2>8, <3>2 DEF SeenOf
    <3> QED
      BY <3>1, <3>2 DEF SeenOf
  <2>10. T2 \subseteq T \cup {v}
    <3> SUFFICES ASSUME NEW y \in T2 PROVE y \in T \cup {v}
      OBVIOUS
    <3>1. CASE \E r \in PagesOf(u)' : y = req'[r].vis
      BY <1>1, <2>2, <2>4, <2>7, <3>1 DEF VisOf, PagesOf
    <3>2. CASE \E k \in CachedOf(u)' : y = cache'[k].vis
      BY <2>2, <2>8, <3>2 DEF VisOf
    <3> QED
      BY <3>1, <3>2 DEF VisOf
  <2> QED
    BY <2>5, <2>6, <2>9, <2>10, LineGrows
<1>3. KeysFit'
  <2> SUFFICES ASSUME NEW k \in DOMAIN cache'
               PROVE  /\ cache'[k].snap = k[2] /\ cache'[k].seen.at = k[3]
                      /\ cache'[k].vis.at = k[4]
    BY DEF KeysFit
  <2>1. CASE k \in DOMAIN cache /\ cache'[k] = cache[k]
    BY <2>1 DEF PagesFit, KeysFit
  <2>2. ASSUME NEW s \in Requests, k = cacheKey(s), cache'[k] = publicResponseFromSnapshot(s)
        PROVE  /\ cache'[k].snap = k[2] /\ cache'[k].seen.at = k[3]
               /\ cache'[k].vis.at = k[4]
    BY <2>2 DEF cacheKey, publicResponseFromSnapshot
  <2> QED
    BY <2>1, <2>2
<1>4. AnswersFit'
  <2> SUFFICES ASSUME NEW s \in Requests, NEW q, q = req'[s], q.ask.kind = "page",
                      NEW page \in q.answer
               PROVE  PageFits(page, q)
    BY DEF AnswersFit
  <2> QED
    BY <1>1
<1> QED
  BY <1>2, <1>3, <1>4 DEF PagesFit

\* The rows and the settings as they are.
LEMMA NothingMoves ==
  ASSUME Inv, PagesFit, NEW u \in Users
  PROVE  /\ \A x, x2 : x = settings[u] /\ x2 = settings[u] => Moves(x, x2)
         /\ \A v, v2 : v = View(u) /\ v2 = View(u) => Moves(v, v2)
<1>1. \A x, v : x = settings[u] /\ v = View(u) => Stamp(x) /\ Stamp(v)
  BY DEF PagesFit, LinesFit, Line
<1> QED
  BY <1>1 DEF Moves

\* The request of a step moves, the others do not.
LEMMA OneMoves ==
  ASSUME Inv, PagesFit, NEW r \in Requests, NEW q2, req' = [req EXCEPT ![r] = q2],
         \A q, x, v : q = req[r] /\ x = settings[q.ask.user] /\ v = View(q.ask.user)
                        => QMoves(q, q2, x, v)
  PROVE  \A s \in Requests :
            \A q, p, x, v : q = req[s] /\ p = req'[s] /\ x = settings[q.ask.user]
                              /\ v = View(q.ask.user) => QMoves(q, p, x, v)
<1> TAKE s \in Requests
<1>1. DOMAIN req = Requests
  BY PageIs
<1>2. CASE s = r
  BY <1>1, <1>2
<1>3. CASE s # r
  <2>1. req'[s] = req[s]
    BY <1>1, <1>3
  <2>2. req[s].ask.kind = "page" => \A page \in req[s].answer : PageFits(page, req[s])
    BY PageIs
  <2>3. \A q, x, v : q = req[s] => QMoves(q, q, x, v)
    BY <2>2 DEF QMoves
  <2> QED
    BY <2>1, <2>3
<1> QED
  BY <1>2, <1>3

\* A step of a request that changes neither settings nor rows.
LEMMA QuietMoves ==
  ASSUME Inv, PagesFit, NEW r \in Requests, NEW q2, req' = [req EXCEPT ![r] = q2],
         UNCHANGED <<settings, visibility>>,
         \A q, x, v : q = req[r] /\ x = settings[q.ask.user] /\ v = View(q.ask.user)
                        => QMoves(q, q2, x, v),
         \A k \in DOMAIN cache' :
            \/ k \in DOMAIN cache /\ cache'[k] = cache[k]
            \/ \E s \in Requests : /\ req[s].ask.kind = "page" /\ k = cacheKey(s)
                                   /\ cache'[k] = publicResponseFromSnapshot(s)
  PROVE  PagesFit'
<1>1. RowsFit'
  BY DEF PagesFit, RowsFit
<1>2. \A u \in Users : \A x, x2, v, v2 :
         x = settings[u] /\ x2 = settings'[u] /\ v = View(u) /\ v2 = View(u)'
           => Moves(x, x2) /\ Moves(v, v2)
  <2> TAKE u \in Users
  <2>1. settings'[u] = settings[u] /\ View(u)' = View(u)
    BY DEF View
  <2> QED
    BY <2>1, NothingMoves
<1> QED
  BY <1>1, <1>2, OneMoves, PagesMove

\* A step that keeps what it has read.
LEMMA GoMoves ==
  ASSUME Inv, PagesFit, NEW r \in Requests, req[r].pc # 100, NEW f, Go(r, f),
         DOMAIN f \subseteq {"now", "cand", "seen", "vis", "snap"},
         \A x, v : x = settings[req[r].ask.user] /\ v = View(req[r].ask.user) =>
            /\ req[r].ask.kind = "page" /\ "seen" \in DOMAIN f => f.seen = x
            /\ "vis" \in DOMAIN f => f.vis = v
  PROVE  /\ req' = [req EXCEPT ![r] = Stepped(req[r], f)]
         /\ \A q, q2, x, v : q = req[r] /\ q2 = Stepped(req[r], f)
               /\ x = settings[q.ask.user] /\ v = View(q.ask.user) => QMoves(q, q2, x, v)
<1>1. DOMAIN req[r] = Fields /\ req[r].answer = {}
  BY PageIs
<1> QED
  BY <1>1, GoIs, SteppedMoves

LEMMA FailMoves ==
  ASSUME Inv, PagesFit, NEW r \in Requests, Fail(r), UNCHANGED <<settings, visibility, cache>>
  PROVE  PagesFit'
<1>1. DOMAIN req[r] = Fields
  BY PageIs
<1>2. req[r].ask.kind = "page" => \A page \in req[r].answer : PageFits(page, req[r])
  BY PageIs
<1>3. req' = [req EXCEPT ![r] = [req[r] EXCEPT !.pc = 100]]
  BY DEF Fail
<1>4. \A q, x, v : q = req[r] => QMoves(q, [req[r] EXCEPT !.pc = 100], x, v)
  BY <1>1, <1>2, FailedMoves
<1> QED
  BY <1>3, <1>4, QuietMoves

LEMMA QuietGo ==
  ASSUME Inv, PagesFit, NEW r \in Requests, req[r].pc # 100, NEW f, Go(r, f),
         DOMAIN f \subseteq {"now", "cand", "seen", "vis", "snap"},
         \A x, v : x = settings[req[r].ask.user] /\ v = View(req[r].ask.user) =>
            /\ req[r].ask.kind = "page" /\ "seen" \in DOMAIN f => f.seen = x
            /\ "vis" \in DOMAIN f => f.vis = v,
         UNCHANGED <<settings, visibility, cache>>
  PROVE  PagesFit'
<1>1. PICK q2 : q2 = Stepped(req[r], f)
  OBVIOUS
<1>2. req' = [req EXCEPT ![r] = q2]
  BY <1>1, GoMoves
<1>3. \A q, x, v : q = req[r] /\ x = settings[q.ask.user] /\ v = View(q.ask.user)
                     => QMoves(q, q2, x, v)
  BY <1>1, GoMoves
<1> QED
  BY <1>2, <1>3, QuietMoves

LEMMA AnswerMoves ==
  ASSUME Inv, PagesFit, NEW r \in Requests, NEW what, Answer(r, what),
         req[r].ask.kind = "page" => PageFits(what, req[r]),
         UNCHANGED <<settings, visibility>>,
         \A k \in DOMAIN cache' :
            \/ k \in DOMAIN cache /\ cache'[k] = cache[k]
            \/ \E s \in Requests : /\ req[s].ask.kind = "page" /\ k = cacheKey(s)
                                   /\ cache'[k] = publicResponseFromSnapshot(s)
  PROVE  PagesFit'
<1>1. PICK q2 : q2 = Ended(req[r], what)
  OBVIOUS
<1>2. req' = [req EXCEPT ![r] = q2]
  BY <1>1, AnswerIs
<1>3. \A q, x, v : q = req[r] => QMoves(q, q2, x, v)
  BY <1>1, PageIs, EndedMoves
<1> QED
  BY <1>2, <1>3, QuietMoves

\* A change of the settings or the rows by a request that has read nothing.
LEMMA ChangeMoves ==
  ASSUME Inv, PagesFit, NEW r \in Requests, NEW step, At(r, step), Go(r, << >>), RowsFit',
         UNCHANGED cache,
         \A u \in Users : \A x, x2, v, v2 :
            x = settings[u] /\ x2 = settings'[u] /\ v = View(u) /\ v2 = View(u)'
              => Moves(x, x2) /\ Moves(v, v2)
  PROVE  PagesFit'
<1>1. req[r].pc # 100
  BY ReqIs
<1>2. PICK f : f = << >>
  OBVIOUS
<1>3. DOMAIN f = {} /\ Go(r, f)
  BY <1>2
<1>4. PICK q2 : q2 = Stepped(req[r], f)
  OBVIOUS
<1>5. /\ req' = [req EXCEPT ![r] = q2]
      /\ \A q, x, v : q = req[r] /\ x = settings[q.ask.user] /\ v = View(q.ask.user)
                        => QMoves(q, q2, x, v)
  BY <1>1, <1>3, <1>4, GoMoves
<1>6. \A s \in Requests :
         \A q, p, x, v : q = req[s] /\ p = req'[s] /\ x = settings[q.ask.user]
                           /\ v = View(q.ask.user) => QMoves(q, p, x, v)
  BY <1>5, OneMoves
<1> QED
  BY <1>6, PagesMove

\* An update moves the time on or counts as late; a user's visibility setting
\* has no time of its own.
LEMMA SettingsMove ==
  ASSUME Inv, PagesFit, NEW r \in Requests, UpdateUsers(r) \/ UpdateProfileSettings(r)
  PROVE  PagesFit'
<1> DEFINE u == req[r].ask.user
<1>1. PICK step \in {"users", "settings"} : At(r, step)
  BY DEF UpdateUsers, UpdateProfileSettings
<1>2. Go(r, << >>) /\ UNCHANGED <<visibility, cache>>
  BY DEF UpdateUsers, UpdateProfileSettings
<1>3. ReqFits(req[r], clock, out) /\ req[r].ask.kind = "update" /\ req[r].now \in Nat
  BY <1>1, ReqIs, KindsOfSteps DEF ReqFits
<1>4. u \in Users
  BY <1>3 DEF ReqFits, AskFits
<1>5. DOMAIN settings = Users /\ DOMAIN settings[u] = Settings
  BY <1>4 DEF Inv, SettingsFit
<1>6. Stamp(settings[u])
  BY <1>4 DEF PagesFit, LinesFit, Line
<1>7. PICK x2 : x2 = settings'[u]
  OBVIOUS
<1>8. Moves(settings[u], x2)
  <2>1. CASE settings' = settings
    BY <1>4, <1>7, <2>1, NothingMoves
  <2>2. ASSUME NEW new, settings' = [settings EXCEPT ![u] = new],
               UpdateUsers(r), new = [settings[u] EXCEPT !.public = Asked(r, "public", @)]
        PROVE  Moves(settings[u], x2)
    <3>1. x2 = new
      BY <1>4, <1>5, <1>7, <2>2
    <3>2. new.at = settings[u].at /\ new.ver = settings[u].ver /\ new.late = settings[u].late
      BY <1>5, <2>2 DEF Settings
    <3> QED
      BY <1>6, <3>1, <3>2 DEF Moves, Stamp
  <2>3. ASSUME NEW new, settings' = [settings EXCEPT ![u] = new],
               new = [settings[u] EXCEPT !.shows = Asked(r, "shows", req[r].seen.shows),
                                         !.exact = Asked(r, "exact", req[r].seen.exact),
                                         !.at = req[r].now, !.ver = @ + 1,
                                         !.late = Late(settings[u].at, req[r].now, @)]
        PROVE  Moves(settings[u], x2)
    <3>1. x2 = new
      BY <1>4, <1>5, <1>7, <2>3
    <3>2. /\ new.at = req[r].now /\ new.ver = settings[u].ver + 1
          /\ new.late = Late(settings[u].at, req[r].now, settings[u].late)
      BY <1>5, <2>3 DEF Settings
    <3> QED
      BY <1>3, <1>6, <3>1, <3>2 DEF Moves, Stamp, Late
  <2>4. CASE UpdateUsers(r)
    BY <2>1, <2>2, <2>4 DEF UpdateUsers, Change
  <2>5. CASE UpdateProfileSettings(r)
    BY <2>1, <2>3, <2>5 DEF UpdateProfileSettings, Change
  <2> QED
    BY <2>4, <2>5
<1>9. \A w \in Users : w # u => settings'[w] = settings[w]
  BY <1>4, <1>5 DEF UpdateUsers, UpdateProfileSettings, Change
<1>10. \A w \in Users : \A x, y, v, v2 :
         x = settings[w] /\ y = settings'[w] /\ v = View(w) /\ v2 = View(w)'
           => Moves(x, y) /\ Moves(v, v2)
  <2> TAKE w \in Users
  <2>1. View(w)' = View(w)
    BY <1>2 DEF View
  <2>2. CASE w = u
    BY <1>7, <1>8, <2>1, <2>2, NothingMoves
  <2>3. CASE w # u
    BY <1>9, <2>1, <2>3, NothingMoves
  <2> QED
    BY <2>2, <2>3
<1>11. RowsFit'
  BY <1>2 DEF PagesFit, RowsFit
<1> QED
  BY <1>1, <1>2, <1>10, <1>11, ChangeMoves

\* So does a change of the rows, which a deletion takes away.
LEMMA RowsMove ==
  ASSUME Inv, PagesFit, NEW r \in Requests, UpsertRepositoryVisibility(r) \/ DeleteAccount(r)
  PROVE  PagesFit'
<1>0. PICK u : u = req[r].ask.user
  OBVIOUS
<1>1. PICK step \in {"visibility", "delete"} : At(r, step)
  BY DEF UpsertRepositoryVisibility, DeleteAccount
<1>2. Go(r, << >>) /\ UNCHANGED <<settings, cache>>
  BY DEF UpsertRepositoryVisibility, DeleteAccount
<1>3. /\ ReqFits(req[r], clock, out) /\ req[r].now \in 0 .. MaxClock
      /\ req[r].ask.kind \in {"hide", "delete"}
      /\ step = "visibility" => req[r].ask.kind = "hide"
  BY <1>1, ReqIs, KindsOfSteps, PagesAssumption DEF ReqFits, Inv, ClockFits
<1>4. u \in Users /\ (step = "visibility" => req[r].ask.repo \in Repos)
  BY <1>0, <1>3 DEF ReqFits, AskFits
<1>5. visibility[u] \in [hidden : SUBSET Repos, times : [Repos -> 0 .. MaxClock],
                         ver : Nat, late : Nat]
  BY <1>4 DEF PagesFit, RowsFit
<1>6. PICK old : old = visibility[u]
  OBVIOUS
<1>7. /\ old.hidden \subseteq Repos /\ old.times \in [Repos -> 0 .. MaxClock]
      /\ old.ver \in Nat /\ old.late \in Nat
      /\ old = [hidden |-> old.hidden, times |-> old.times, ver |-> old.ver, late |-> old.late]
  BY <1>5, <1>6
<1>8. \E hidden \in SUBSET Repos, times \in [Repos -> 0 .. MaxClock], late \in Nat :
         /\ visibility' = [visibility EXCEPT ![u] =
               [hidden |-> hidden, times |-> times, ver |-> old.ver + 1, late |-> late]]
         /\ \/ late = old.late + 1
            \/ late = old.late /\ Latest(times) > Latest(old.times)
  <2>1. CASE UpsertRepositoryVisibility(r)
    <3>1. req[r].ask.repo \in Repos
      <4>1. At(r, "visibility")
        BY <2>1 DEF UpsertRepositoryVisibility
      <4>2. req[r].ask.kind = "hide"
        BY <4>1, ReqIs, KindsOfSteps
      <4> QED
        BY <1>3, <4>2 DEF ReqFits, AskFits
    <3> DEFINE x == req[r].ask.repo
    <3> DEFINE hidden == IF req[r].ask.hidden THEN old.hidden \cup {x} ELSE old.hidden \ {x}
    <3> DEFINE times == [old.times EXCEPT ![x] = req[r].now]
    <3> DEFINE late == Late(Latest(old.times), Latest(times), old.late)
    <3>2. hidden \in SUBSET Repos /\ times \in [Repos -> 0 .. MaxClock]
      BY <1>3, <1>7, <3>1
    <3>3. /\ late \in Nat
          /\ \/ late = old.late + 1
             \/ late = old.late /\ Latest(times) > Latest(old.times)
      BY <1>7 DEF Late
    <3>4. visibility' = [visibility EXCEPT ![u] =
             [hidden |-> hidden, times |-> times, ver |-> old.ver + 1, late |-> late]]
      BY <1>0, <1>6, <2>1 DEF UpsertRepositoryVisibility
    <3> HIDE DEF hidden, times, late
    <3> QED
      BY <3>2, <3>3, <3>4
  <2>2. CASE DeleteAccount(r)
    <3> DEFINE times == [x \in Repos |-> 0]
    <3>1. {} \in SUBSET Repos /\ times \in [Repos -> 0 .. MaxClock] /\ old.late + 1 \in Nat
      BY <1>7, PagesAssumption
    <3>2. WithoutRows(old) =
             [hidden |-> {}, times |-> times, ver |-> old.ver + 1, late |-> old.late + 1]
      BY <1>7 DEF WithoutRows
    <3>3. visibility' = [visibility EXCEPT ![u] = WithoutRows(old)]
      BY <1>0, <1>6, <2>2 DEF DeleteAccount
    <3> HIDE DEF times
    <3> QED
      BY <3>1, <3>2, <3>3
  <2> QED
    BY <2>1, <2>2
<1>9. PICK hidden \in SUBSET Repos, times \in [Repos -> 0 .. MaxClock], late \in Nat :
         /\ visibility' = [visibility EXCEPT ![u] =
               [hidden |-> hidden, times |-> times, ver |-> old.ver + 1, late |-> late]]
         /\ \/ late = old.late + 1
            \/ late = old.late /\ Latest(times) > Latest(old.times)
  BY <1>8
<1>10. RowsFit'
  BY <1>4, <1>7, <1>9 DEF PagesFit, RowsFit
<1>11. DOMAIN visibility = Users
  BY DEF PagesFit, RowsFit
<1>12. /\ View(u) = [hidden |-> old.hidden, at |-> Latest(old.times),
                     ver |-> old.ver, late |-> old.late]
       /\ View(u)' = [hidden |-> hidden, at |-> Latest(times),
                      ver |-> old.ver + 1, late |-> late]
  <2>1. visibility'[u] = [hidden |-> hidden, times |-> times, ver |-> old.ver + 1, late |-> late]
    BY <1>4, <1>9, <1>11
  <2> QED
    BY <1>6, <2>1 DEF View
<1>13. \A v, v2 : v = View(u) /\ v2 = View(u)' => Moves(v, v2)
  <2> SUFFICES ASSUME NEW v, NEW v2, v = View(u), v2 = View(u)'
               PROVE  Moves(v, v2)
    OBVIOUS
  <2>1. /\ v.at = Latest(old.times) /\ v.ver = old.ver /\ v.late = old.late
        /\ v2.at = Latest(times) /\ v2.ver = old.ver + 1 /\ v2.late = late
    BY <1>12
  <2>2. Latest(times) \in Nat
    BY LatestIsATime
  <2> QED
    BY <1>7, <1>9, <2>1, <2>2 DEF Moves, Stamp
<1>14. \A w \in Users : w # u => View(w)' = View(w)
  BY <1>9, <1>11 DEF View
<1>15. \A w \in Users : \A x, y, v, v2 :
         x = settings[w] /\ y = settings'[w] /\ v = View(w) /\ v2 = View(w)'
           => Moves(x, y) /\ Moves(v, v2)
  <2> TAKE w \in Users
  <2>1. settings'[w] = settings[w]
    BY <1>2
  <2>2. CASE w = u
    BY <1>13, <2>1, <2>2, NothingMoves
  <2>3. CASE w # u
    BY <1>14, <2>1, <2>3, NothingMoves
  <2> QED
    BY <2>2, <2>3
<1> QED
  BY <1>1, <1>2, <1>10, <1>15, ChangeMoves

\* The steps of boards and of requests that only read.
LEMMA ReadMoves ==
  ASSUME Inv, PagesFit, NEW r \in Requests,
         \/ Begin(r) \/ LoadFresh(r) \/ LoadCandidates(r) \/ MaterializeLeaderboardSeason(r)
         \/ InsertSnapshot(r) \/ LoadProfileSettings(r)
         \/ PageSettings(r) \/ LoadRepositoryVisibility(r) \/ PageSnapshot(r)
  PROVE  PagesFit'
<1>1. UNCHANGED <<settings, visibility, cache>>
  BY DEF Begin, LoadFresh, LoadCandidates, MaterializeLeaderboardSeason, InsertSnapshot,
         LoadProfileSettings, PageSettings, LoadRepositoryVisibility, PageSnapshot
<1>2. CASE Fail(r)
  BY <1>1, <1>2, FailMoves
<1>3. req[r].pc # 100
  <2>1. CASE Begin(r)
    BY <2>1 DEF Begin
  <2>2. CASE ~Begin(r)
    <3>1. PICK step : At(r, step)
      BY <2>2 DEF LoadFresh, LoadCandidates, MaterializeLeaderboardSeason, InsertSnapshot,
                  LoadProfileSettings, PageSettings, LoadRepositoryVisibility, PageSnapshot
    <3> QED
      BY <3>1, ReqIs
  <2> QED
    BY <2>1, <2>2
<1>4. ASSUME NEW f, Go(r, f), DOMAIN f \subseteq {"now", "cand", "snap"} PROVE PagesFit'
  BY <1>1, <1>3, <1>4, QuietGo
<1>5. ASSUME NEW names, Answer(r, names), req[r].ask.kind # "page" PROVE PagesFit'
  BY <1>1, <1>5, AnswerMoves
<1>6. CASE Begin(r)
  <2>1. ASSUME Go(r, [now |-> clock]) PROVE PagesFit'
    <3>1. DOMAIN [now |-> clock] \subseteq {"now", "cand", "snap"}
      OBVIOUS
    <3> QED
      BY <1>4, <2>1, <3>1
  <2> QED
    BY <1>2, <1>6, <2>1 DEF Begin
<1>7. CASE LoadFresh(r)
  <2>1. req[r].ask.kind # "page"
    BY <1>7, ReqIs, KindsOfSteps DEF LoadFresh
  <2>2. DOMAIN << >> \subseteq {"now", "cand", "snap"}
    OBVIOUS
  <2> QED
    BY <1>4, <1>5, <1>7, <2>1, <2>2 DEF LoadFresh
<1>8. CASE LoadCandidates(r)
  <2>1. PICK cand : Go(r, [cand |-> cand])
    BY <1>8 DEF LoadCandidates
  <2>2. DOMAIN [cand |-> cand] \subseteq {"now", "cand", "snap"}
    OBVIOUS
  <2> QED
    BY <1>4, <2>1, <2>2
<1>9. CASE MaterializeLeaderboardSeason(r)
  <2>1. req[r].ask.kind # "page"
    BY <1>9, ReqIs, KindsOfSteps DEF MaterializeLeaderboardSeason
  <2>2. DOMAIN [cand |-> << >>] \subseteq {"now", "cand", "snap"}
    OBVIOUS
  <2>3. (\E names : Answer(r, names)) \/ Go(r, [cand |-> << >>])
    BY <1>9 DEF MaterializeLeaderboardSeason
  <2> QED
    BY <1>4, <1>5, <2>1, <2>2, <2>3
<1>10. CASE InsertSnapshot(r)
  <2>1. DOMAIN << >> \subseteq {"now", "cand", "snap"}
    OBVIOUS
  <2> QED
    BY <1>4, <1>10, <2>1 DEF InsertSnapshot
<1>11. CASE PageSnapshot(r)
  <2>1. PICK s : Go(r, [snap |-> s])
    BY <1>11 DEF PageSnapshot
  <2>2. DOMAIN [snap |-> s] \subseteq {"now", "cand", "snap"}
    OBVIOUS
  <2> QED
    BY <1>4, <2>1, <2>2
<1>12. CASE LoadProfileSettings(r) \/ PageSettings(r)
  <2>1. ASSUME Go(r, [seen |-> settings[req[r].ask.user]]) PROVE PagesFit'
    <3>1. PICK f : f = [seen |-> settings[req[r].ask.user]]
      OBVIOUS
    <3>2. Go(r, f) /\ DOMAIN f = {"seen"} /\ f.seen = settings[req[r].ask.user]
      BY <2>1, <3>1
    <3> QED
      BY <1>1, <1>3, <3>2, QuietGo
  <2> QED
    BY <1>2, <1>12, <2>1 DEF LoadProfileSettings, PageSettings
<1>13. CASE LoadRepositoryVisibility(r)
  <2>1. PICK f : f = [vis |-> View(req[r].ask.user)]
    OBVIOUS
  <2>2. Go(r, f) /\ DOMAIN f = {"vis"} /\ f.vis = View(req[r].ask.user)
    BY <1>13, <2>1 DEF LoadRepositoryVisibility
  <2> QED
    BY <1>1, <1>3, <2>2, QuietGo
<1> QED
  BY <1>6, <1>7, <1>8, <1>9, <1>10, <1>11, <1>12, <1>13

\* A page under the key of what was read was made of readings with the same
\* times: with as many late changes they are the same readings.
LEMMA CacheMoves ==
  ASSUME Inv, PagesFit, NEW r \in Requests, GetJSON(r) \/ SetJSON(r)
  PROVE  PagesFit'
<1>1. PICK step \in {"get", "set"} : At(r, step)
  BY DEF GetJSON, SetJSON
<1>2. req[r].ask.kind = "page" /\ req[r].pc # 100
  BY <1>1, ReqIs, KindsOfSteps
<1>3. UNCHANGED <<settings, visibility>>
  BY DEF GetJSON, SetJSON
<1>4. req[r].ask.user \in Users /\ r \in PagesOf(req[r].ask.user)
  BY <1>2, PageIs DEF PagesOf
<1>5. CASE Go(r, << >>) /\ UNCHANGED cache
  <2>1. DOMAIN << >> = {}
    OBVIOUS
  <2> QED
    BY <1>2, <1>3, <1>5, <2>1, QuietGo
<1>6. CASE cacheKey(r) \in DOMAIN cache /\ Answer(r, cache[cacheKey(r)]) /\ UNCHANGED cache
  <2> DEFINE u == req[r].ask.user
  <2> DEFINE k == cacheKey(r)
  <2>1. k[1] = u /\ k[2] = req[r].snap /\ k[3] = req[r].seen.at /\ k[4] = req[r].vis.at
    BY DEF cacheKey
  <2>2. cache[k].snap = k[2] /\ cache[k].seen.at = k[3] /\ cache[k].vis.at = k[4]
    BY <1>6 DEF PagesFit, KeysFit
  <2>3. k \in CachedOf(u)
    BY <1>6, <2>1 DEF CachedOf
  <2> HIDE DEF k, u
  <2>4. /\ cache[k].seen \in SeenOf(u) /\ req[r].seen \in SeenOf(u)
        /\ cache[k].vis \in VisOf(u) /\ req[r].vis \in VisOf(u)
    BY <1>4, <2>3 DEF SeenOf, VisOf, u
  <2>5. Line(SeenOf(u), settings[u]) /\ Line(VisOf(u), View(u))
    BY <1>4 DEF PagesFit, LinesFit, u
  <2>6. PageFits(cache[k], req[r])
    BY <2>1, <2>2, <2>4, <2>5 DEF PageFits, Line
  <2> QED
    BY <1>3, <1>6, <2>6, AnswerMoves DEF k
<1>7. CASE SetJSON(r)
  <2>1. Answer(r, publicResponseFromSnapshot(r))
    BY <1>7 DEF SetJSON
  <2>2. PageFits(publicResponseFromSnapshot(r), req[r])
    BY DEF PageFits, publicResponseFromSnapshot
  <2>3. \A k \in DOMAIN cache' :
           \/ k \in DOMAIN cache /\ cache'[k] = cache[k]
           \/ \E s \in Requests : /\ req[s].ask.kind = "page" /\ k = cacheKey(s)
                                  /\ cache'[k] = publicResponseFromSnapshot(s)
    BY <1>2, <1>7 DEF SetJSON
  <2> QED
    BY <1>3, <2>1, <2>2, <2>3, AnswerMoves
<1> QED
  BY <1>5, <1>6, <1>7 DEF GetJSON

LEMMA TimeMoves ==
  ASSUME Inv, PagesFit, \/ Tick \/ Expire \/ UNCHANGED vars
  PROVE  PagesFit'
<1>1. UNCHANGED <<settings, visibility, req>> /\ (cache' = cache \/ cache' = << >>)
  BY DEF Tick, Expire, vars
<1>2. \A k \in DOMAIN cache' : k \in DOMAIN cache /\ cache'[k] = cache[k]
  BY <1>1
<1>3. \A s \in Requests :
         \A q, q2, x, v : q = req[s] /\ q2 = req'[s] => QMoves(q, q2, x, v)
  <2> TAKE s \in Requests
  <2>1. req'[s] = req[s]
    BY <1>1
  <2>2. req[s].ask.kind = "page" => \A page \in req[s].answer : PageFits(page, req[s])
    BY PageIs
  <2> QED
    BY <2>1, <2>2 DEF QMoves
<1>4. \A u \in Users : \A x, x2, v, v2 :
         x = settings[u] /\ x2 = settings'[u] /\ v = View(u) /\ v2 = View(u)'
           => Moves(x, x2) /\ Moves(v, v2)
  <2> TAKE u \in Users
  <2>1. settings'[u] = settings[u] /\ View(u)' = View(u)
    BY <1>1 DEF View
  <2> QED
    BY <2>1, NothingMoves
<1>5. RowsFit'
  BY <1>1 DEF PagesFit, RowsFit
<1> QED
  BY <1>2, <1>3, <1>4, <1>5, PagesMove

LEMMA PagesNext ==
  ASSUME Inv, PagesFit, [Next]_vars
  PROVE  PagesFit'
<1>1. CASE Tick \/ Expire \/ UNCHANGED vars
  BY <1>1, TimeMoves
<1>2. ASSUME NEW r \in Requests,
             \/ Begin(r) \/ LoadFresh(r) \/ LoadCandidates(r) \/ MaterializeLeaderboardSeason(r)
             \/ CommitFails(r) \/ DeleteAccount(r) \/ UserIsGone(r)
             \/ InsertSnapshot(r) \/ LoadProfileSettings(r) \/ UpdateUsers(r)
             \/ UpdateProfileSettings(r) \/ UpsertRepositoryVisibility(r)
             \/ PageSettings(r) \/ LoadRepositoryVisibility(r) \/ PageSnapshot(r)
             \/ GetJSON(r) \/ SetJSON(r)
      PROVE  PagesFit'
  <2>1. CASE CommitFails(r) \/ UserIsGone(r)
    BY <2>1, FailMoves DEF CommitFails, UserIsGone
  <2> QED
    BY <1>2, <2>1, ReadMoves, CacheMoves, SettingsMove, RowsMove
<1> QED
  BY <1>1, <1>2 DEF Next

\* At first nothing has changed, and everything read is as it is.
LEMMA InitPages == Init => PagesFit
<1> SUFFICES ASSUME Init PROVE PagesFit
  OBVIOUS
<1>1. PICK plan \in Plans :
        req = [r \in Requests |->
                 [ask |-> plan[r], pc |-> 0, now |-> 0, cand |-> << >>,
                  seen |-> Defaults, vis |-> NoRows, snap |-> 0, answer |-> {}]]
  BY DEF Init
<1>2. cache = << >> /\ DOMAIN cache = {}
  BY DEF Init
<1>3. RowsFit
  <2>1. [x \in Repos |-> 0] \in [Repos -> 0 .. MaxClock]
    BY PagesAssumption
  <2> QED
    BY <2>1 DEF Init, RowsFit
<1>4. LinesFit
  <2> SUFFICES ASSUME NEW u \in Users, NEW S, NEW T, NEW s, NEW v,
                      S = SeenOf(u), T = VisOf(u), s = settings[u], v = View(u)
               PROVE  Line(S, s) /\ Line(T, v)
    BY DEF LinesFit
  <2>1. CachedOf(u) = {}
    BY <1>2 DEF CachedOf
  <2>2. S \subseteq {Defaults} /\ T \subseteq {NoRows}
    BY <1>1, <2>1 DEF SeenOf, VisOf, PagesOf
  <2>3. s = Defaults
    BY DEF Init
  <2>4. /\ Defaults.at = 0 /\ Defaults.ver = 0 /\ Defaults.late = 0
        /\ NoRows.at = 0 /\ NoRows.ver = 0 /\ NoRows.late = 0
    BY DEF Defaults, NoRows
  <2>5. v.at = 0 /\ v.ver = 0 /\ v.late = 0
    <3>1. visibility[u] = [hidden |-> {}, times |-> [x \in Repos |-> 0], ver |-> 0, late |-> 0]
      BY DEF Init
    <3>2. v.ver = 0 /\ v.late = 0 /\ v.at = Latest([x \in Repos |-> 0])
      BY <3>1 DEF View
    <3> DEFINE Z == {0} \cup {[x \in Repos |-> 0][y] : y \in Repos}
    <3>3. Z = {0}
      OBVIOUS
    <3>4. Max({0}) = 0
      <4>1. \A x \in {0} : 0 >= x
        OBVIOUS
      <4> QED
        BY <4>1 DEF Max
    <3>5. Latest([x \in Repos |-> 0]) = Max(Z)
      BY DEF Latest
    <3> HIDE DEF Z
    <3> QED
      BY <3>2, <3>3, <3>4, <3>5
  <2> QED
    BY <2>2, <2>3, <2>4, <2>5 DEF Line, Stamp, Past
<1>5. KeysFit
  BY <1>2 DEF KeysFit
<1>6. AnswersFit
  BY <1>1 DEF AnswersFit
<1> QED
  BY <1>3, <1>4, <1>5, <1>6 DEF PagesFit

\* What requests have read and pages were made of keeps its order, for any
\* number of users, requests and repositories (LoadProfileSettings,
\* LoadRepositoryVisibility, cacheKey).
THEOREM ReadingsKeepOrder == Spec => [](Inv /\ PagesFit)
<1> QED
  BY InitInv, InitPages, NextKeeps, PagesNext, PTL DEF Spec

\* A page shows what its request read, though the cache is filled and read by
\* others, unless a change that did not move the key's time on came between the
\* two readings (PublicProfile, cacheKey, store.go:532-540).
THEOREM PagesAreAsRead == Spec => []PageIsAsRead
<1>1. PagesFit => PageIsAsRead
  BY DEF PagesFit, AnswersFit, PageFits, PageIsAsRead
<1> QED
  BY ReadingsKeepOrder, <1>1, PTL
=============================================================================
