------------------------------ MODULE Calendar ------------------------------
(***************************************************************************)
(* Birthdays and the days they fall on: the date arithmetic that the app   *)
(* and the server share (utils/birthday.ts, lib/dates.ts), a birthday on   *)
(* somebody's calendar (birthday.service.ts), the reminders its owner gets *)
(* (reminder.service.ts), and the feed in which strangers celebrate it     *)
(* (global.service.ts).                                                    *)
(*                                                                         *)
(* A clock walks through the days of a span, in slots of a day, so that    *)
(* a zone behind or ahead of UTC is on another date for part of the time.  *)
(* Dates are records; a birthday has no year of its own.                   *)
(***************************************************************************)
EXTENDS Integers

CONSTANTS
  Spans,       \* bound: stretches of time, each <<first day, last day>> in UTC
  Birthday,    \* [month, day] of the people considered
  BirthYears,  \* the years they may be born in
  Zone,        \* slots by which a zone is ahead of UTC
  Slots,       \* slots in a day
  DigestSlot,  \* slot of the local day from which reminders may be sent
  AllowedOffsets, \* ALLOWED_REMINDER_OFFSETS_DAYS
  Offsets,     \* the days ahead at which this owner wants to be reminded
  MinAge,      \* GLOBAL_BIRTHDAYS.minAge
  MaxMissed,   \* bound: days on which the worker is down after the digest hour
  MaxEdits     \* bound: changes of the calendar entry or of the profile

IsLeapYear(y) == (y % 4 = 0 /\ y % 100 # 0) \/ y % 400 = 0

DaysInMonth(m, y) ==
  CASE m = 2 -> IF IsLeapYear(y) THEN 29 ELSE 28
    [] m \in {4, 6, 9, 11} -> 30
    [] OTHER -> 31

\* The days there are, in the years that matter here.
Date == {d \in [year : Nat \ {0}, month : 1 .. 12, day : 1 .. 31] :
           d.day <= DaysInMonth(d.month, d.year)}

\* isValidBirthday: a birthday is a day of some year; 2000 has them all.
ASSUME CalendarAssumption ==
  /\ Spans \subseteq Date \X Date
  /\ Birthday \subseteq [month : 1 .. 12, day : 1 .. 31]
  /\ \A b \in Birthday : b.day <= DaysInMonth(b.month, 2000)
  /\ BirthYears \subseteq Nat /\ MinAge \in Nat
  /\ Slots \in Nat \ {0} /\ DigestSlot \in 0 .. Slots - 1
  /\ \A z \in Zone : z \in Int /\ -Slots < z /\ z < Slots
  /\ Offsets \subseteq AllowedOffsets /\ AllowedOffsets \subseteq 0 .. 60
  /\ MaxMissed \in Nat /\ MaxEdits \in Nat

VARIABLES
  utc, slot,  \* the clock
  last,       \* last day of the span
  zone,       \* where the celebrated person and the calendar's owner live
  profile,    \* birthday and birth year in the person's profile
  optedIn,    \* privacy.celebrateGlobally
  entry,      \* the row of tracked_birthdays
  reminded,   \* reminder keys in notification_dispatches: <<row, year, days>>
  ran,        \* the reminder job has run since the local digest hour
  missed, edits

calendarVars ==
  <<utc, slot, last, zone, profile, optedIn, entry, reminded, ran, missed, edits>>

-----------------------------------------------------------------------------
(***************************************************************************)
(* Civil dates.                                                            *)
(***************************************************************************)
Lesser(a, b) == IF a < b THEN a ELSE b

\* Days of a common year before each month.
MonthStart == <<0, 31, 59, 90, 120, 151, 181, 212, 243, 273, 304, 334>>

\* Date.UTC: days since a fixed day.
DayNumber(d) ==
  LET y == d.year - 1 IN
  365 * y + y \div 4 - y \div 100 + y \div 400
    + MonthStart[d.month] + (IF d.month > 2 /\ IsLeapYear(d.year) THEN 1 ELSE 0)
    + d.day

CivilDaysBetween(from, to) == DayNumber(to) - DayNumber(from)

\* A day beyond its month, or before it, counted from the next month or the
\* one before.
FromNextMonth(d) ==
  [year |-> IF d.month = 12 THEN d.year + 1 ELSE d.year,
   month |-> IF d.month = 12 THEN 1 ELSE d.month + 1,
   day |-> d.day - DaysInMonth(d.month, d.year)]

FromLastMonth(d) ==
  LET y == IF d.month = 1 THEN d.year - 1 ELSE d.year
      m == IF d.month = 1 THEN 12 ELSE d.month - 1
  IN [year |-> y, month |-> m, day |-> d.day + DaysInMonth(m, y)]

\* Date.UTC carries such a day over.
Carry(d) ==
  CASE d.day > DaysInMonth(d.month, d.year) -> FromNextMonth(d)
    [] d.day < 1 -> FromLastMonth(d)
    [] OTHER -> d

\* At most 60 days either way: three months at the most.
AddCivilDays(d, n) == Carry(Carry(Carry([d EXCEPT !.day = @ + n])))

\* The local date and slot in a zone.
ZonedNow(z) ==
  LET s == slot + z IN
  CASE s < 0      -> [date |-> AddCivilDays(utc, -1), slot |-> s + Slots]
    [] s >= Slots -> [date |-> AddCivilDays(utc, 1), slot |-> s - Slots]
    [] OTHER      -> [date |-> utc, slot |-> s]

Today == ZonedNow(zone).date

-----------------------------------------------------------------------------
(***************************************************************************)
(* When a birthday is celebrated.                                          *)
(***************************************************************************)
CelebrationDayInYear(b, y) ==
  [year |-> y, month |-> b.month, day |-> Lesser(b.day, DaysInMonth(b.month, y))]

\* Slip: the day itself is already over.
Strictly(b, today) ==
  LET in(y) == CivilDaysBetween(today, CelebrationDayInYear(b, y)) IN
  IF in(today.year) > 0 THEN [days |-> in(today.year), year |-> today.year]
                        ELSE [days |-> in(today.year + 1), year |-> today.year + 1]

\* getBirthdayCountdown and the worker's daysUntilCelebration.
Countdown(b, today) ==
  LET in(y) == CivilDaysBetween(today, CelebrationDayInYear(b, y)) IN
  IF in(today.year) >= 0 THEN [days |-> in(today.year), year |-> today.year]
                         ELSE [days |-> in(today.year + 1), year |-> today.year + 1]

\* getCalendarMonth: the day on which a month's page has the birthday.
DayOnPage(b, month, year) ==
  IF CelebrationDayInYear(b, year).month = month
    THEN {CelebrationDayInYear(b, year).day} ELSE {}

\* What is shown as today: the month's page, where the phone marks its own
\* date; and every card and list, whose countdown goes by the server's date.
ShownToday(b) ==
  [page |-> Today.day \in DayOnPage(b, Today.month, Today.year),
   card |-> Countdown(b, utc).days = 0]

LeapDay == [month |-> 2, day |-> 29]
Anniversary(d) == [month |-> d.month, day |-> d.day]

\* Slip: the date itself and nothing else.
ThatDate(d) == {Anniversary(d)}

\* Birthdays that may be celebrated on a date, for a database query; the feed
\* leaves 29 February out in a leap year, when nobody it finds would be kept.
MayCelebrate(d) ==
  {Anniversary(d)} \union (IF d.month = 2 /\ d.day = 28 THEN {LeapDay} ELSE {})

CandidateDates(today) ==
  UNION {MayCelebrate(AddCivilDays(today, n)) : n \in AllowedOffsets}

-----------------------------------------------------------------------------
(***************************************************************************)
(* Strangers.                                                              *)
(***************************************************************************)
\* Slip: by the date of birth, as computeAge of the shared package does.
AgeByDate(p, d) ==
  LET b == p.birthday
      had == d.month > b.month \/ (d.month = b.month /\ d.day >= b.day)
  IN d.year - p.year - (IF had THEN 0 ELSE 1)

AgeOn(p, d) ==
  LET c == CelebrationDayInYear(p.birthday, d.year)
      had == d.month > c.month \/ (d.month = c.month /\ d.day >= c.day)
  IN d.year - p.year - (IF had THEN 0 ELSE 1)

Eligible == AgeOn(profile, Today) >= MinAge

BirthdayToday == CelebrationDayInYear(profile.birthday, Today.year) = Today

LatestBirthYear == utc.year - MinAge + 1

\* listCelebratingToday, asked by an eligible viewer who is not blocked.
InFeed ==
  /\ optedIn
  /\ profile.year <= LatestBirthYear
  /\ profile.birthday \in UNION {MayCelebrate(AddCivilDays(utc, n)) : n \in -1 .. 1}
  /\ BirthdayToday /\ Eligible

-----------------------------------------------------------------------------
\* isValidBirthday: nobody is born on a date that their year does not have.
Persons == {p \in [birthday : Birthday, year : BirthYears] :
              p.birthday.day <= DaysInMonth(p.birthday.month, p.year)}

CalendarTypeOK ==
  /\ utc \in Date
  /\ slot \in 0 .. Slots - 1 /\ last \in Date /\ zone \in Zone
  /\ profile \in Persons
  /\ optedIn \in BOOLEAN
  /\ entry \in [id : 1 .. MaxEdits + 1, is : {"kept", "deleted"}, birthday : Birthday]
  /\ reminded \subseteq (1 .. MaxEdits + 1) \X Nat \X Offsets
  /\ ran \in BOOLEAN /\ missed \in 0 .. MaxMissed /\ edits \in 0 .. MaxEdits

CalendarInit ==
  /\ \E s \in Spans : utc = s[1] /\ last = s[2]
  /\ slot = 0
  /\ zone \in Zone
  /\ profile \in Persons /\ profile.year <= utc.year
  /\ optedIn = FALSE
  /\ entry = [id |-> 1, is |-> "kept", birthday |-> profile.birthday]
  /\ reminded = {}
  /\ ran = FALSE
  /\ missed = 0 /\ edits = 0

people == <<zone, profile, optedIn>>

\* A new local day starts with its digest still to come.
Tick ==
  LET midnight == ZonedNow(zone).slot = Slots - 1 IN
  /\ utc # last
  /\ slot' = (slot + 1) % Slots
  /\ utc' = IF slot = Slots - 1 THEN AddCivilDays(utc, 1) ELSE utc
  /\ ran' = (ran /\ ~midnight)
  /\ missed' = IF midnight /\ ~ran THEN missed + 1 ELSE missed
  /\ missed' <= MaxMissed
  /\ UNCHANGED <<last, people, entry, reminded, edits>>

\* runBirthdayReminders, every few minutes: a key is claimed for the entry
\* when the day is one of the owner's offsets ahead.
RunBirthdayReminders ==
  LET next == Countdown(entry.birthday, Today)
      due == /\ entry.is = "kept" /\ entry.birthday \in CandidateDates(Today)
             /\ next.days \in Offsets
  IN
  /\ ZonedNow(zone).slot >= DigestSlot
  /\ ran' = TRUE
  /\ reminded' = IF due THEN reminded \union {<<entry.id, next.year, next.days>>}
                       ELSE reminded
  /\ UNCHANGED <<utc, slot, last, people, entry, missed, edits>>

Edit(e) ==
  /\ edits < MaxEdits /\ edits' = edits + 1
  /\ entry' = e
  /\ UNCHANGED <<utc, slot, last, people, reminded, missed>>

\* The entry, linked to nobody, is corrected by its owner; the day's digest may come too late.
UpdateTrackedBirthday(b) ==
  entry.is = "kept" /\ Edit([entry EXCEPT !.birthday = b]) /\ ran' = FALSE

DeleteTrackedBirthday ==
  entry.is = "kept" /\ Edit([entry EXCEPT !.is = "deleted"]) /\ UNCHANGED ran

\* Another row for the person; or the same row again, from the address book.
CreateTrackedBirthday(b) ==
  /\ entry.is = "deleted"
  /\ Edit([id |-> entry.id + 1, is |-> "kept", birthday |-> b]) /\ ran' = FALSE

ConfirmContactImport(b) ==
  Edit([entry EXCEPT !.is = "kept", !.birthday = b]) /\ ran' = FALSE

\* The person corrects the birthday in their own profile.
UpdateProfile(p) ==
  /\ p.year <= utc.year
  /\ edits < MaxEdits /\ edits' = edits + 1
  /\ profile' = p
  /\ UNCHANGED <<utc, slot, last, zone, optedIn, entry, reminded, ran, missed>>

UpdateGlobalSettings(on) ==
  /\ on => Eligible
  /\ optedIn' = on
  /\ UNCHANGED <<utc, slot, last, zone, profile, entry, reminded, ran, missed,
                 edits>>

CalendarNext ==
  \/ Tick \/ RunBirthdayReminders \/ DeleteTrackedBirthday
  \/ \E b \in Birthday : \/ UpdateTrackedBirthday(b) \/ CreateTrackedBirthday(b)
                         \/ ConfirmContactImport(b)
  \/ \E p \in Persons : UpdateProfile(p)
  \/ \E on \in BOOLEAN : UpdateGlobalSettings(on)

CalendarSpec == CalendarInit /\ [][CalendarNext]_calendarVars

-----------------------------------------------------------------------------
(***************************************************************************)
(* Correctness, against a calendar on the wall: a birthday is celebrated   *)
(* on its date, and one on 29 February on the last day of a February that  *)
(* has no such date.                                                       *)
(***************************************************************************)
IsCelebration(b, d) ==
  \/ Anniversary(d) = b
  \/ b = LeapDay /\ d.month = 2 /\ Anniversary(AddCivilDays(d, 1)) = [month |-> 3, day |-> 1]

\* The day on which somebody completes the age, by the same calendar.
CameOfAge(p, d) ==
  \E c \in {[year |-> p.year + MinAge, month |-> p.birthday.month, day |-> n] :
              n \in {28, 29, p.birthday.day}} :
    /\ c.day <= DaysInMonth(c.month, c.year)
    /\ IsCelebration(p.birthday, c) /\ CivilDaysBetween(c, d) >= 0

\* birthday.service.ts: "the calendar and the countdown never disagree", each
\* on the date that it goes by; and a stranger sees an adult in the feed for
\* the whole of the day where they live, and nobody else.
EveryViewShowsTheDay ==
  /\ ShownToday(entry.birthday).page <=> IsCelebration(entry.birthday, Today)
  /\ ShownToday(entry.birthday).card <=> IsCelebration(entry.birthday, utc)
  /\ InFeed <=> /\ optedIn /\ IsCelebration(profile.birthday, Today)
                /\ CameOfAge(profile, Today)

\* The countdown goes down by one every day, over leap days, year ends and
\* centuries, and starts again only after the day itself.
CountsDown ==
  [][entry' = entry /\ utc' # utc =>
       LET now == Countdown(entry.birthday, utc)
           new == Countdown(entry.birthday, utc') IN
       IF now.days > 0 THEN new = [now EXCEPT !.days = @ - 1]
                       ELSE new.year = now.year + 1 /\ new.days \in {364, 365}
  ]_calendarVars

\* Whenever the job has run on a day, the owner has had every reminder that
\* the day calls for.
RemindedInTime ==
  ran /\ entry.is = "kept" /\ ZonedNow(zone).slot >= DigestSlot =>
    \A n \in Offsets :
      IsCelebration(entry.birthday, AddCivilDays(Today, n)) =>
        <<entry.id, AddCivilDays(Today, n).year, n>> \in reminded
=============================================================================
