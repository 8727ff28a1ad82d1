------------------------------ MODULE Catalog ------------------------------
(***************************************************************************)
(* The menu (server/apps/orders/catalog.py): the options a drink is built  *)
(* from, the menu items, and what a built drink costs and takes from the   *)
(* store.  Prices are cents, quantities hundredths of a unit.  Of an       *)
(* option's tags there are those that a dietary preference or a            *)
(* recommendation looks at; labels and stock-keeping data are left out.    *)
(***************************************************************************)
EXTENDS FiniteSetsExt, TLC

Sizes == {"small", "medium", "large"}
Diets == {"dairy-free", "caffeine-free", "zero-sugar", "citrus-free"}
NoOption == ""      \* no soda, no ice cream

-----------------------------------------------------------------------------
(* Options *)

Sodas ==
    {"coke", "diet-coke", "coke-zero", "dr-pepper", "diet-dr-pepper", "pepsi",
     "diet-pepsi", "sprite", "sprite-zero", "root-beer", "orange-soda",
     "mountain-dew", "diet-mountain-dew", "lemon-lime", "club-soda", "cream-soda"}

Syrups ==
    {"vanilla", "french-vanilla", "cherry", "coconut", "lime", "lemon",
     "raspberry", "strawberry", "peach", "mango", "blackberry", "watermelon",
     "pineapple", "blue-raspberry", "passion-fruit", "pomegranate", "hazelnut",
     "butterscotch", "caramel", "brown-sugar-cinnamon", "grapefruit", "guava",
     "orange", "lavender", "cinnamon"}

AddIns ==
    {"cream", "coconut-cream", "half-and-half", "whip", "lime-wedge", "lemon-wedge", "strawberry-puree", "mango-puree", "fresh-mint"}

IceCreams == {"scoop-vanilla", "scoop-chocolate", "scoop-strawberry"}

Options == Sodas \cup Syrups \cup AddIns \cup IceCreams

\* Tags
Cola ==
    {"coke", "diet-coke", "coke-zero", "dr-pepper", "diet-dr-pepper", "pepsi",
     "diet-pepsi"}
Caffeinated ==
    {"coke", "diet-coke", "coke-zero", "dr-pepper", "diet-dr-pepper", "pepsi",
     "diet-pepsi", "mountain-dew", "diet-mountain-dew"}
SugarFree ==
    {"diet-coke", "coke-zero", "diet-dr-pepper", "diet-pepsi", "sprite-zero",
     "diet-mountain-dew", "club-soda"}
Citrus ==
    {"sprite", "sprite-zero", "orange-soda", "mountain-dew", "diet-mountain-dew", "lemon-lime", "lime", "lemon", "grapefruit", "orange", "lime-wedge",
     "lemon-wedge"}
Dairy ==
    {"cream", "half-and-half", "whip", "scoop-vanilla", "scoop-chocolate",
     "scoop-strawberry"}

\* The groups the builder shows its options in.
SodaGroups ==
    { {"coke", "diet-coke", "coke-zero", "dr-pepper", "diet-dr-pepper",
      "pepsi", "diet-pepsi"},
      {"sprite", "sprite-zero", "lemon-lime", "club-soda", "orange-soda",
      "mountain-dew", "diet-mountain-dew"},
      {"root-beer", "cream-soda"} }
SyrupGroups ==
    { {"strawberry", "cherry", "raspberry", "blackberry", "peach",
      "watermelon", "blue-raspberry"},
      {"lime", "lemon", "orange", "grapefruit", "pineapple", "mango",
      "guava", "passion-fruit", "pomegranate"},
      {"vanilla", "french-vanilla", "caramel", "butterscotch", "hazelnut",
      "brown-sugar-cinnamon", "cinnamon"},
      {"lavender", "coconut"} }
AddInGroups ==
    { {"cream", "coconut-cream", "half-and-half", "whip"},
      {"lime-wedge", "lemon-wedge", "fresh-mint"},
      {"strawberry-puree", "mango-puree"} }

DearSyrups ==
    {"coconut", "mango", "blackberry", "pineapple", "blue-raspberry", "passion-fruit", "pomegranate", "hazelnut", "butterscotch", "caramel", "brown-sugar-cinnamon", "guava", "lavender"}

\* A soda is in the price of the drink.
Price(option) ==
    CASE option \in Sodas -> 0
      [] option \in DearSyrups -> 30
      [] option \in Syrups \ DearSyrups -> 25
      [] option \in {"lime-wedge", "lemon-wedge", "fresh-mint"} -> 20
      [] option = "cream" -> 40
      [] option = "coconut-cream" -> 50
      [] option \in {"half-and-half", "whip", "strawberry-puree", "mango-puree"} -> 45
      [] option \in IceCreams -> 95

\* inventory_quantity, by size for a soda.
Quantity(option, size) ==
    CASE option \in Sodas -> [small |-> 40, medium |-> 55, large |-> 70][size]
      [] option \in Syrups -> 35
      [] option \in {"lime-wedge", "lemon-wedge"} \cup IceCreams -> 100
      [] option = "whip" -> 15
      [] option = "fresh-mint" -> 10
      [] OTHER -> 20

-----------------------------------------------------------------------------
(* Menu items *)

Drink(small, medium, large, soda, syrups, addIns, iceCream) ==
    [base |-> [small |-> small, medium |-> medium, large |-> large],
     soda |-> soda, syrups |-> syrups, addIns |-> addIns, iceCream |-> iceCream]

MENU_ITEMS ==
    "berry-burst"             :> Drink(295, 355, 415, "sprite", {"strawberry"}, {}, NoOption)
 @@ "vanilla-sunset"          :> Drink(305, 365, 425, "coke", {"vanilla"}, {"lime-wedge"}, NoOption)
 @@ "cache-float"             :> Drink(345, 405, 475, "root-beer", {"vanilla"}, {"cream"}, "scoop-vanilla")
 @@ "citrus-mint-drive"       :> Drink(285, 345, 405, "lemon-lime", {"lime"}, {"fresh-mint"}, NoOption)
 @@ "double-berry-float"      :> Drink(355, 420, 485, "sprite", {"strawberry", "raspberry"}, {"cream"}, "scoop-strawberry")
 @@ "cherry-cola-cruise"      :> Drink(310, 370, 430, "coke", {"cherry", "vanilla"}, {"lime-wedge"}, NoOption)
 @@ "midnight-cola-zero"      :> Drink(300, 360, 420, "coke-zero", {"blackberry", "lime"}, {}, NoOption)
 @@ "pepsi-peach-wave"        :> Drink(305, 365, 425, "pepsi", {"peach", "lemon"}, {}, NoOption)
 @@ "pepsi-vanilla-drift"     :> Drink(325, 390, 450, "diet-pepsi", {"french-vanilla"}, {"coconut-cream"}, NoOption)
 @@ "dew-lime-launch"         :> Drink(310, 375, 435, "mountain-dew", {"lime", "pineapple"}, {}, NoOption)
 @@ "dew-tropic-rush"         :> Drink(315, 380, 440, "diet-mountain-dew", {"mango", "guava"}, {}, NoOption)
 @@ "pepper-cherry-stack"     :> Drink(320, 385, 445, "dr-pepper", {"cherry", "vanilla"}, {}, NoOption)
 @@ "pepper-cream-cloud"      :> Drink(330, 395, 455, "diet-dr-pepper", {"vanilla"}, {"coconut-cream"}, NoOption)
 @@ "pepper-berry-lift"       :> Drink(320, 385, 445, "dr-pepper", {"blackberry", "lime"}, {}, NoOption)
 @@ "sprite-garden-fizz"      :> Drink(305, 365, 425, "sprite-zero", {"lavender", "lemon"}, {"fresh-mint"}, NoOption)
 @@ "root-beer-caramel-cream" :> Drink(350, 410, 480, "root-beer", {"caramel"}, {"half-and-half"}, NoOption)
 @@ "orange-creamsicle"       :> Drink(360, 425, 495, "orange-soda", {"vanilla"}, {"cream"}, "scoop-vanilla")
 @@ "cream-soda-cobbler"      :> Drink(335, 400, 470, "cream-soda", {"peach", "vanilla"}, {"whip"}, NoOption)
 @@ "club-citrus-cooler"      :> Drink(295, 355, 415, "club-soda", {"grapefruit", "lime"}, {"fresh-mint"}, NoOption)
 @@ "club-berry-spark"        :> Drink(300, 360, 420, "club-soda", {"blackberry", "lemon"}, {}, NoOption)
 @@ "club-cucumber-cool"      :> Drink(295, 355, 415, "club-soda", {"lime"}, {"fresh-mint"}, NoOption)
 @@ "cream-berry-velvet"      :> Drink(340, 405, 475, "cream-soda", {"strawberry", "vanilla"}, {"half-and-half"}, NoOption)
 @@ "cream-citrus-silk"       :> Drink(345, 410, 480, "cream-soda", {"orange", "vanilla"}, {"whip"}, NoOption)
 @@ "sunset-pineapple-splash" :> Drink(315, 380, 445, "orange-soda", {"pineapple", "passion-fruit"}, {}, NoOption)
 @@ "orange-coconut-cloud"    :> Drink(340, 405, 470, "orange-soda", {"coconut"}, {"cream"}, NoOption)
 @@ "blackberry-pepsi-night"  :> Drink(315, 380, 440, "pepsi", {"blackberry", "vanilla"}, {}, NoOption)
 @@ "root-beer-cocoa-float"   :> Drink(370, 435, 505, "root-beer", {"vanilla"}, {"whip"}, "scoop-chocolate")
 @@ "mountain-berry-stride"   :> Drink(320, 385, 450, "mountain-dew", {"blue-raspberry", "lime"}, {}, NoOption)

\* The builder shows every option once, and a menu item is made of options.
ASSUME CatalogAssumption ==
    /\ UNION SodaGroups = Sodas /\ UNION SyrupGroups = Syrups /\ UNION AddInGroups = AddIns
    /\ \A g, h \in SodaGroups \cup SyrupGroups \cup AddInGroups : g # h => g \cap h = {}
    /\ IsFiniteSet(Syrups) /\ IsFiniteSet(AddIns)
    /\ \A i \in DOMAIN MENU_ITEMS :
         /\ MENU_ITEMS[i].soda \in Sodas
         /\ MENU_ITEMS[i].syrups \subseteq Syrups
         /\ MENU_ITEMS[i].addIns \subseteq AddIns
         /\ MENU_ITEMS[i].iceCream \in IceCreams \cup {NoOption}
         /\ MENU_ITEMS[i].base.small < MENU_ITEMS[i].base.medium
         /\ MENU_ITEMS[i].base.medium < MENU_ITEMS[i].base.large

-----------------------------------------------------------------------------
(* Built drinks: size, soda, syrups, addIns, iceCream, quantity *)

Scoop(sel) == {sel.iceCream} \ {NoOption}
Extras(sel) == sel.syrups \cup sel.addIns \cup Scoop(sel)

\* calculate_extras_total
ExtrasTotal(sel) == MapThenSumSet(Price, Extras(sel))

\* build_inventory_requirements: a cup, a lid, and each ingredient.
Requirements(sel) ==
    [part \in {"cup", "lid", sel.soda} \cup Extras(sel) |->
        IF part \in {"cup", "lid"} THEN 100 ELSE Quantity(part, sel.size)]

\* estimate_item_total, of one unit
ItemTotal(item, sel) == MENU_ITEMS[item].base[sel.size] + ExtrasTotal(sel)
=============================================================================
