------------------------------ MODULE Screens ------------------------------
(* The screens of the mobile app (src/apps/mobile/app): for each one the      *)
(* views of the server it reads (React Query's keys), the views without       *)
(* which it shows only a spinner, the views whose realtime room it joins, the *)
(* views marked old when it closes, the calls its controls make, and the      *)
(* screens it leads to.  Layout, wording and the contents of forms are left   *)
(* out.                                                                       *)
(*                                                                            *)
(* A view is named by its query key; ['birthdays', ...] and ['wishlist', ...] *)
(* are families, because screens mark them old by their common prefix.        *)
(* Module Client says what the presses and the views do over time.            *)

EXTENDS TLC

Birthdays == {"birthdays/upcoming", "birthdays/calendar", "birthdays/all",
              "birthdays/detail"}
Wishlists == {"wishlist/mine", "wishlist/user", "wishlist/share"}

(* What of it is written to disk.                                             *)
PersistedRoots ==
  {"me", "home", "my-wishlists", "friends", "interests", "profile"}
  \cup Birthdays \cup Wishlists

Stay == {"stay"}
Back == {"back"}

(* A control that calls the API.                                              *)
(*   once     it is disabled while the call is pending (a Button's loading)   *)
(*   retried  it is a useMutation: repeated when the network fails            *)
(*   key      its idempotency key is made once per "visit" of the screen,     *)
(*            once per "attempt", or there is "none"                          *)
(*   also     calls it makes the API do as well, without the key              *)
(*   old      the views marked old when the answer comes; err: when it is an  *)
(*            error                                                           *)
(*   puts     the views the answer is written into; makes: even when absent   *)
(*   to       where the app goes then; anyway: also when the call failed      *)
Button(call, old, to) ==
  [call |-> call, once |-> TRUE, retried |-> TRUE, key |-> "none",
   also |-> {},
   old |-> old, err |-> {}, puts |-> {}, makes |-> {}, to |-> to,
   anyway |-> FALSE]
Tap(call, old, to)   == [Button(call, old, to) EXCEPT !.once = FALSE]
Plain(call, old, to) == [Tap(call, old, to) EXCEPT !.retried = FALSE]
Form(call, to)       == [Button(call, {}, to) EXCEPT !.retried = FALSE]

Page(reads, waits, presses, opens) ==
  [reads |-> reads, waits |-> waits, presses |-> presses, opens |-> opens,
   hears |-> {}, leaves |-> {}]

-----------------------------------------------------------------------------
(* Signing in and the first steps.                                            *)

Welcome == Page({}, {}, {}, {"sign-up", "sign-in"})
SignIn == Page({}, {}, {Form("login", {"enter"}),
                        Form("request-otp", {"verify"})},
               {"forgot-password", "sign-up"})
SignUp == Page({}, {}, {Form("register", {"enter", "verify"})}, {"sign-in"})
Verify == Page({}, {}, {Form("verify-otp", {"enter"})}, {})
ForgotPassword ==
  Page({}, {}, {Form("forgot-password", Stay),
                Form("reset-password", {"sign-in"})}, {})

OnboardingBirthday == Page({}, {}, {}, {"onboarding/interests"})
OnboardingInterests ==
  Page({"interests"}, {}, {}, {"onboarding/permissions"})
OnboardingPermissions ==
  Page({}, {}, {Form("onboarding", {"contacts-import", "home"})},
       {"onboarding/birthday"})

-----------------------------------------------------------------------------
(* The tabs.                                                                  *)

TabsLayout == {"unread-count"}

BirthdayCard == {"birthday/[id]", "person/[id]", "send-gift", "wish/send"}
NextBirthdayHero == {"birthday/[id]", "send-gift", "wish/send"}
MyBirthdayHero == {"celebration", "wishes"}
StartHere == {"birthday/new", "contacts-import"}
BirthdayPoster == {"birthday/[id]"}
Home ==
  Page(TabsLayout \cup {"home"}, {}, {},
       {"search", "notifications", "person/[id]", "birthdays", "global",
        "gift-finder", "product/[id]", "memories", "gifts", "events", "chats",
        "birthday/new"}
       \cup NextBirthdayHero \cup MyBirthdayHero \cup StartHere
       \cup BirthdayPoster)

UpcomingView == {"birthdays/upcoming"}
MonthView == {"birthdays/calendar"}
ListView == {"birthdays/all"}
BirthdaysTab ==
  Page(TabsLayout \cup {"friend-groups"} \cup UpcomingView \cup MonthView
         \cup ListView, {}, {},
       {"contacts-import", "birthday/new", "event/[id]"} \cup BirthdayCard)

Gifts ==
  Page(TabsLayout \cup {"products"}, {}, {},
       {"orders", "gift-finder", "product/[id]"})

WishlistTab ==
  Page(TabsLayout \cup {"my-wishlists", "wishlist/mine"}, {},
       {Tap("wishlist item delete", {"wishlist/mine", "my-wishlists"}, Stay)},
       {"wishlist/item-new", "wishlist/settings"})

Profile ==
  Page(TabsLayout \cup {"me"}, {},
       {Plain("avatar or cover", {"me"}, Stay),
        [Plain("push token delete", {}, {"out"}) EXCEPT !.anyway = TRUE]},
       {"person/[id]", "friends", "events", "surprises", "chats", "wishes",
        "reservations", "gift-history", "memories", "orders", "wallet",
        "settings/public-page", "settings/profile", "settings/notifications",
        "settings/privacy", "vendor", "settings/account"})

-----------------------------------------------------------------------------
(* People and birthdays.                                                      *)

Friends ==
  LET stale == {"friends", "friend-requests", "user-search"} \cup Birthdays
  IN  Page({"friends", "friend-requests", "user-search"}, {},
           {Tap("friend respond", stale, Stay),
            Tap("friend request", stale, Stay),
            Tap("friend cancel", stale, Stay),
            Tap("friend remove", stale, Stay),
            Tap("block", stale, Stay),
            Tap("friend favorite", stale, Stay)},
           {"person/[id]", "report", "invite", "contacts-import"})

GifterItem ==
  [Button("reserve", {"wishlist/user"}, Stay) EXCEPT !.err = {"wishlist/user"}]
Person ==
  [Page({"profile", "wishlist/user"}, {"profile"},
        {Button("friend request", {"profile"}, Stay),
         Plain("conversation create", {}, {"chat/[id]"}),
         GifterItem},
        {"friends", "wish/send", "send-gift", "gift-finder", "reservations",
         "product/[id]", "group-gift/new"})
   EXCEPT !.hears = {"wishlist/user"}]

BirthdayDetail ==
  Page({"birthdays/detail"}, {"birthdays/detail"},
       {Tap("birthday favorite", Birthdays, Stay),
        Tap("birthday delete", Birthdays, Back)},
       {"person/[id]", "wish/send", "send-gift", "gift-finder",
        "surprise/new", "invite", "birthday/new"})
BirthdayForm ==
  Page({"birthdays/detail", "friend-groups"}, {},
       {Button("birthday save", Birthdays \cup {"home"}, {"birthday/[id]"})},
       {})
ContactsImport ==
  Page({}, {},
       {Form("import preview", Stay),
        Button("import confirm", Birthdays \cup {"home"}, {"birthdays"})},
       {"home", "person/[id]"})
Invite == Page({}, {}, {Tap("invite create", {}, Stay)}, {})
AcceptInvite ==
  Page({"invite"}, {"invite"},
       {Button("invite redeem", {"friends"} \cup Birthdays, {"home"})},
       {"sign-up"})
Search ==
  Page({"search"}, {}, {},
       {"person/[id]", "product/[id]", "wishlist-share/[slug]", "event/[id]"})

CelebrantCard == {"wish/send", "digital-gift/send"}
MyGlobalBirthday == {"celebration"}
JoinCard ==
  [Button("global settings", {"global/today"}, Stay)
   EXCEPT !.makes = {"global/me"}]
GlobalBirthdays ==
  Page({"global/me", "global/today", "global/twins"}, {},
       {[Button("cheer", {"global/me"}, Stay)
         EXCEPT !.puts = {"global/today", "global/twins"}],
        JoinCard},
       CelebrantCard \cup MyGlobalBirthday)

Celebration ==
  Page({"me", "my-birthday-today", "wishes-received", "digital-received",
        "global/me"}, {},
       {Tap("friend request", {}, Stay), Plain("wishes read", {}, Stay),
        Plain("wish react", {"wishes-received"}, Stay)},
       {"digital-gift/[id]", "wishes", "report"})
WishSlide == Plain("wish react", {}, Stay)
WishWall ==
  Page({"wishes-received"}, {"wishes-received"},
       {Plain("wishes read", {}, Stay), WishSlide}, {})

-----------------------------------------------------------------------------
(* Gifts, wishes and money.  Only the three screens that call useState for    *)
(* their idempotency key send the same key when the network makes them        *)
(* repeat a call; the others make one inside the mutation's function.  A wish *)
(* carries the key with its money only: without money it has none.            *)

SendGift ==
  Page({"birthdays/detail"}, {}, {},
       {"person/[id]", "gift-finder", "gifts", "digital-gift/send",
        "group-gift/new", "surprise/new"})

SendWish ==
  Page({"birthdays/detail", "card-templates", "providers"}, {},
       {Button("wish send", {}, Back),
        [Button("wish with money", {}, Stay)
         EXCEPT !.key = "visit", !.also = {"wish send"}]},
       {"invite"})
SendDigitalGift ==
  Page({"birthdays/detail", "digital-catalog", "providers"},
       {"digital-catalog"},
       {[Button("digital gift send", {}, Stay) EXCEPT !.key = "visit"]}, {})
Product ==
  Page({"product", "reviews", "friends", "addresses", "providers"},
       {"product"},
       {[Button("order place", {"orders"}, Stay) EXCEPT !.key = "visit"]},
       {"order/[id]", "review"})

DigitalGiftDetail ==
  Page({"digital-gift"}, {"digital-gift"},
       {[Button("digital gift open", {}, Stay)
         EXCEPT !.makes = {"digital-gift"}]},
       {"thank-you"})

GroupGift ==
  LET refresh == {"group-gift"}
  IN  [Page({"group-gift", "friends", "providers"}, {"group-gift"},
            {[Button("contribute", refresh, Stay) EXCEPT !.key = "attempt"],
             Button("group gift invite", refresh, Stay),
             Button("group gift purchased", refresh, Stay),
             Button("group gift reveal", refresh, Stay)},
            {"chat/[id]"})
       EXCEPT !.hears = refresh]
NewGroupGift ==
  Page({"friends"}, {}, {Button("group gift create", {}, {"group-gift/[id]"})},
       {})

Wallet ==
  Page({"wallet", "payments", "premium-price", "withdrawals", "providers"},
       {"wallet"},
       {[Button("withdraw", {"withdrawals", "wallet", "payments", "me"}, Stay)
         EXCEPT !.key = "attempt"],
        [Button("topup", {}, Stay) EXCEPT !.key = "attempt"],
        [Button("premium", {}, Stay) EXCEPT !.key = "attempt"]},
       {})

Orders == Page({"orders"}, {}, {}, {"order/[id]"})
OrderDetail ==
  [Page({"order"}, {"order"},
        {Tap("order cancel", {"order"}, Stay),
         Button("payment verify", {"order"}, Stay)},
        {"thank-you", "review"})
   EXCEPT !.hears = {"order"}]
Review == Page({}, {}, {Button("review", {"reviews"}, Back)}, {})
ThankYou == Page({}, {}, {Button("thank you", {}, Back)}, {})
Report == Page({}, {}, {Button("report", {}, Back)}, {})

Reservations ==
  Page({"reservations"}, {},
       {Tap("reservation update", {"reservations"}, Stay)}, {"person/[id]"})
GiftFinder ==
  Page({"birthdays/detail", "ai-status"}, {},
       {Button("gift suggestions", {}, Stay)}, {"product/[id]"})
GiftHistory == Page({"gift-history", "thank-yous"}, {}, {}, {"memories"})
Memories ==
  Page({"memories"}, {},
       {Button("memory save", {"memories"}, Stay),
        Tap("memory media delete", {"memories"}, Stay),
        Plain("memory photos", {"memories"}, Stay)}, {})

-----------------------------------------------------------------------------
(* Wishlists of one's own and shared ones.                                    *)

WishlistItemForm ==
  Page({"wishlist-item"}, {},
       {Button("unfurl", {}, Stay),
        Button("wishlist item save", Wishlists \cup {"my-wishlists"}, Back)},
       {})

WishlistSettings ==
  LET invalidate == {"wishlist/mine", "wishlist-share", "my-wishlists"}
  IN  Page({"wishlist/mine", "wishlist-share"}, {"wishlist/mine"},
           {Button("wishlist save", invalidate, Stay),
            Button("share rotate", invalidate, Stay),
            Button("wishlist create", invalidate, {"wishlist/settings"}),
            Tap("wishlist delete", invalidate, Back)}, {})
SharedWishlist ==
  Page({"wishlist/share"}, {"wishlist/share"}, {}, {"person/[id]", "sign-up"})

-----------------------------------------------------------------------------
(* Plans, talk and notices.                                                   *)

Events == Page({"events"}, {}, {}, {"event/new", "event/[id]"})
NewEvent ==
  Page({"my-wishlists", "friends"}, {},
       {Button("event create", {}, {"event/[id]"})}, {})
EventDetail ==
  [Page({"event"}, {"event"},
        {[Tap("rsvp", {}, Stay) EXCEPT !.makes = {"event"}],
         Tap("event cancel", {}, Back),
         Button("invite links", {}, Stay)},
        {"chat/[id]", "person/[id]"})
   EXCEPT !.hears = {"event"}]

Surprises ==
  Page({"surprises", "group-gifts"}, {}, {},
       {"surprise/[id]", "group-gift/[id]"})
NewSurprise ==
  Page({"birthdays/detail", "friends"}, {},
       {Button("surprise create", {}, {"surprise/[id]"})}, {})
SurpriseDetail ==
  Page({"surprise", "group-gift", "friends"}, {"surprise"},
       {Button("surprise members", {"surprise"}, Stay),
        Tap("surprise leave", {}, Back),
        Tap("surprise reveal", {"surprise"}, Stay)},
       {"chat/[id]", "group-gift/[id]", "group-gift/new", "gift-finder",
        "person/[id]"})

Chats == Page({"conversations"}, {}, {}, {"chat/[id]"})
Chat ==
  Page({"conversation", "messages"}, {},
       {[Tap("message send", {}, Stay)
         EXCEPT !.key = "attempt", !.puts = {"messages"}],
        [Button("poll create", {}, Stay) EXCEPT !.puts = {"messages"}],
        [Tap("poll vote", {}, Stay) EXCEPT !.puts = {"messages"}],
        Plain("chat read", {"conversations"}, Stay)},
       {"group-gift/[id]", "event/[id]"})

(* routeForDeepLink: where a notification leads, in the list or tapped as a   *)
(* push.                                                                      *)
DeepLinks ==
  {"birthday/[id]", "birthdays", "group-gift/[id]", "order/[id]", "orders",
   "chat/[id]", "chats", "event/[id]", "events", "person/[id]", "wishlist",
   "wishes", "celebration", "digital-gift/[id]", "gift-history", "wallet",
   "global", "notifications"}
Notifications ==
  [Page({"notifications"}, {},
       {Tap("notifications read", {"notifications", "unread-count"}, Stay),
        Plain("notification read", {"notifications"}, Stay)},
       DeepLinks)
   EXCEPT !.leaves = {"unread-count"}]

-----------------------------------------------------------------------------
(* Settings and the vendor's pages.                                           *)

AccountSettings ==
  Page({}, {},
       {Button("change password", {}, Stay), Button("export", {}, Stay),
        Button("deactivate", {}, {"out"}),
        Button("account delete", {}, {"out"})}, {})
NotificationSettings ==
  Page({}, {}, {Button("notification preferences", {}, Stay)}, {})
PrivacySettings ==
  Page({"blocked"}, {},
       {Button("privacy", {}, Stay), Tap("unblock", {"blocked"}, Stay)},
       {"settings/public-page", "global"})
EditProfile ==
  Page({"profile"}, {"profile"},
       {Button("profile save", {"me", "profile"}, Back)}, {})
PublicPageSettings ==
  Page({"addresses"}, {}, {Tap("privacy", {}, Stay)}, {"settings/account"})

Apply == Button("vendor apply", {"my-vendor"}, Stay)
Dashboard == Button("delivery advance", {"vendor-orders"}, Stay)
VendorHome ==
  Page({"my-vendor", "vendor-products", "vendor-orders"}, {"my-vendor"},
       {Apply, Dashboard}, {"vendor/product"})
VendorProduct ==
  Page({"categories", "vendor-products"}, {},
       {Button("product save", {"vendor-products"}, Back),
        Tap("product archive", {"vendor-products"}, Back)}, {})

-----------------------------------------------------------------------------
(* What a person expects to see after an own change: the page that made it    *)
(* and the page it returns to.  <<screen, call, view>>.                       *)
OwedToPeople ==
  {"friends"} \X {"friend respond", "friend request", "friend cancel"}
              \X {"friend-requests"}
  \cup {"friends"} \X {"friend remove", "block", "friend favorite"}
                   \X {"friends"}
  \cup {"birthday/[id]"} \X {"birthday favorite", "birthday delete"}
                         \X {"birthdays/upcoming", "birthdays/detail"}
  \cup {"birthday/new"} \X {"birthday save"} \X {"birthdays/upcoming", "home"}
  \cup {"contacts-import"} \X {"import confirm"} \X {"birthdays/all", "home"}
  \cup {"wishlist"} \X {"wishlist item delete"}
                    \X {"my-wishlists", "wishlist/mine"}
  \cup {"wishlist/item-new"} \X {"wishlist item save"}
                             \X {"my-wishlists", "wishlist/mine"}
  \cup {"wishlist/settings"} \X {"wishlist save", "wishlist delete"}
                             \X {"my-wishlists"}
  \cup {"group-gift/[id]"}
       \X {"contribute", "group gift invite", "group gift purchased",
           "group gift reveal"} \X {"group-gift"}
  \cup {"surprise/[id]"} \X {"surprise members", "surprise reveal"}
                         \X {"surprise"}
  \cup {"memories"} \X {"memory save", "memory media delete", "memory photos"}
                    \X {"memories"}
  \cup {<<"person/[id]", "friend request", "profile">>,
        <<"person/[id]", "reserve", "wishlist/user">>,
        <<"wallet", "withdraw", "wallet">>,
        <<"wallet", "withdraw", "withdrawals">>,
        <<"order/[id]", "order cancel", "order">>,
        <<"order/[id]", "payment verify", "order">>,
        <<"review", "review", "reviews">>,
        <<"reservations", "reservation update", "reservations">>,
        <<"settings/profile", "profile save", "me">>,
        <<"settings/privacy", "unblock", "blocked">>,
        <<"vendor/product", "product save", "vendor-products">>,
        <<"vendor", "delivery advance", "vendor-orders">>}

-----------------------------------------------------------------------------
(* The routes: a file under app/ is a screen of that name.                    *)

AppScreen ==
  "welcome" :> Welcome @@ "sign-in" :> SignIn @@ "sign-up" :> SignUp
  @@ "verify" :> Verify @@ "forgot-password" :> ForgotPassword
  @@ "onboarding/birthday" :> OnboardingBirthday
  @@ "onboarding/interests" :> OnboardingInterests
  @@ "onboarding/permissions" :> OnboardingPermissions
  @@ "home" :> Home @@ "birthdays" :> BirthdaysTab @@ "gifts" :> Gifts
  @@ "wishlist" :> WishlistTab @@ "profile" :> Profile
  @@ "friends" :> Friends @@ "person/[id]" :> Person
  @@ "birthday/[id]" :> BirthdayDetail @@ "birthday/new" :> BirthdayForm
  @@ "contacts-import" :> ContactsImport @@ "invite" :> Invite
  @@ "invite/[code]" :> AcceptInvite @@ "search" :> Search
  @@ "global" :> GlobalBirthdays @@ "celebration" :> Celebration
  @@ "wishes" :> WishWall @@ "send-gift" :> SendGift
  @@ "wish/send" :> SendWish @@ "digital-gift/send" :> SendDigitalGift
  @@ "product/[id]" :> Product @@ "digital-gift/[id]" :> DigitalGiftDetail
  @@ "group-gift/[id]" :> GroupGift @@ "group-gift/new" :> NewGroupGift
  @@ "wallet" :> Wallet @@ "orders" :> Orders @@ "order/[id]" :> OrderDetail
  @@ "review" :> Review @@ "thank-you" :> ThankYou @@ "report" :> Report
  @@ "reservations" :> Reservations @@ "gift-finder" :> GiftFinder
  @@ "gift-history" :> GiftHistory @@ "memories" :> Memories
  @@ "wishlist/item-new" :> WishlistItemForm
  @@ "wishlist/settings" :> WishlistSettings
  @@ "wishlist-share/[slug]" :> SharedWishlist
  @@ "events" :> Events @@ "event/new" :> NewEvent
  @@ "event/[id]" :> EventDetail @@ "surprises" :> Surprises
  @@ "surprise/new" :> NewSurprise @@ "surprise/[id]" :> SurpriseDetail
  @@ "chats" :> Chats @@ "chat/[id]" :> Chat
  @@ "notifications" :> Notifications
  @@ "settings/account" :> AccountSettings
  @@ "settings/notifications" :> NotificationSettings
  @@ "settings/privacy" :> PrivacySettings
  @@ "settings/profile" :> EditProfile
  @@ "settings/public-page" :> PublicPageSettings
  @@ "vendor" :> VendorHome @@ "vendor/product" :> VendorProduct
=============================================================================
