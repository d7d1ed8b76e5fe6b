----------------------------- MODULE AdminPages -----------------------------
(* The pages of the admin dashboard (src/apps/admin/src/pages), in the form   *)
(* of module Screens.  A link of the sidebar replaces the page; a drawer      *)
(* opens over its page, covers the sidebar and leaves the page mounted.  A    *)
(* page with two tabs is two.  Mutations are not retried here, for the        *)
(* query client sets no such default, and no call carries an idempotency key. *)
EXTENDS Screens

(* The sidebar, and the second tab of the payments.                           *)
Nav == {"/", "/reports", "/users", "/complaints", "/vendors", "/products",
        "/categories", "/promotions", "/orders", "/payments",
        "/payments reconciliation", "/broadcast", "/audit"}
Beside == Nav \ {"/payments reconciliation"}

(* A button that is disabled while its call is pending, and one that is not.  *)
Close == {"close"}
Decides(call, old, to) == [Button(call, old, to) EXCEPT !.retried = FALSE]
Changes(call, old, to) == Plain(call, old, to)

(* A page with the drawers it opens, and a drawer over the page it shows.     *)
Listing(reads, presses, drawers) ==
  Page(reads, {}, presses, Beside \cup drawers)
Drawer(reads, waits, presses) == Page(reads, waits, presses, {})

-----------------------------------------------------------------------------
DashboardPage == Listing({"stats"}, {}, {})
ReportsPage == Listing({"engagement"}, {}, {})
AuditPage == Listing({"audit"}, {}, {})
BroadcastPage == Listing({}, {Decides("broadcast", {}, Stay)}, {})

UsersPage == Listing({"users"}, {}, {"/users drawer"})
UserDrawer ==
  LET update(p) == [p EXCEPT !.makes = {"user"}]
  IN  Drawer({"users", "user"}, {"user"},
        {update(Decides("user status", {"users"}, Stay)),
         update(Changes("user update", {"users"}, Stay)),
         Decides("user delete", {"users"}, Close)})

ComplaintsPage == Listing({"complaints"}, {}, {"/complaints drawer"})
ReportDrawer ==
  Drawer({"complaints"}, {},
    {Decides("complaint resolve", {"complaints"}, Close)})

VendorsPage == Listing({"vendors"}, {}, {"/vendors drawer"})
VendorDrawer ==
  Drawer({"vendors"}, {}, {Decides("vendor review", {"vendors"}, Close)})

ProductsPage == Listing({"admin-products"}, {}, {"/products drawer"})
ProductDrawer ==
  Drawer({"admin-products"}, {},
    {Decides("product review", {"admin-products"}, Close)})

CategoriesPage ==
  Listing({"admin categories"},
    {Changes("category delete", {"admin categories"}, Stay)},
    {"/categories drawer"})
CategoryForm ==
  Drawer({"admin categories"}, {},
    {Decides("category save", {"admin categories"}, Close)})

PromotionsPage ==
  Listing({"promotions"}, {Changes("promotion end", {"promotions"}, Stay)},
    {"/promotions drawer"})
PromotionForm ==
  Drawer({"promotions"}, {},
    {Decides("promotion save", {"promotions"}, Close)})

OrdersPage == Listing({"admin orders"}, {}, {"/orders drawer"})
OrderDrawer ==
  LET refresh == {"admin order", "admin orders"}
  IN  Drawer(refresh, {"admin order"},
        {Decides("admin delivery", refresh, Stay),
         Changes("admin order status", refresh, Stay),
         Decides("admin refund", refresh, Stay)})

PaymentsPage == "/payments reconciliation"
Transactions == Listing({"admin payments"}, {}, {PaymentsPage})
ReconciliationView ==
  [Listing({"reconciliation"},
     {Decides("refund complete", {"reconciliation"}, Stay)}, {})
   EXCEPT !.waits = {"reconciliation"}]

-----------------------------------------------------------------------------
(* What an administrator expects to see after a decision.  The answer to a    *)
(* change of a user is written over the drawer, and a read of it still on its *)
(* way over that: only the list is owed.                                      *)
OwedToAdmins ==
  {"/users drawer"} \X {"user status", "user update"} \X {"users"}
  \cup {"/orders drawer"}
       \X {"admin delivery", "admin order status", "admin refund"}
       \X {"admin order", "admin orders"}
  \cup {<<"/users drawer", "user delete", "users">>,
        <<"/complaints drawer", "complaint resolve", "complaints">>,
        <<"/vendors drawer", "vendor review", "vendors">>,
        <<"/products drawer", "product review", "admin-products">>,
        <<"/categories drawer", "category save", "admin categories">>,
        <<"/categories", "category delete", "admin categories">>,
        <<"/promotions drawer", "promotion save", "promotions">>,
        <<"/promotions", "promotion end", "promotions">>,
        <<"/payments reconciliation", "refund complete", "reconciliation">>}

OwedChanges == OwedToPeople \cup OwedToAdmins

AdminScreen ==
  "/" :> DashboardPage @@ "/reports" :> ReportsPage @@ "/audit" :> AuditPage
  @@ "/broadcast" :> BroadcastPage
  @@ "/users" :> UsersPage @@ "/users drawer" :> UserDrawer
  @@ "/complaints" :> ComplaintsPage @@ "/complaints drawer" :> ReportDrawer
  @@ "/vendors" :> VendorsPage @@ "/vendors drawer" :> VendorDrawer
  @@ "/products" :> ProductsPage @@ "/products drawer" :> ProductDrawer
  @@ "/categories" :> CategoriesPage @@ "/categories drawer" :> CategoryForm
  @@ "/promotions" :> PromotionsPage @@ "/promotions drawer" :> PromotionForm
  @@ "/orders" :> OrdersPage @@ "/orders drawer" :> OrderDrawer
  @@ "/payments" :> Transactions
  @@ "/payments reconciliation" :> ReconciliationView

Pages == AppScreen @@ AdminScreen
=============================================================================
