------------------------------- MODULE Taste -------------------------------
(***************************************************************************)
(* What the shop suggests to a customer: orders/personalization.py and the *)
(* menu suggestions of orders/assistant.py.  How often an option was       *)
(* ordered is abstracted to whether it was, and so is the order of options *)
(* that rank alike: an operator gives the set of the outcomes possible.    *)
(***************************************************************************)
EXTENDS Catalog, Sequences

\* liked and disliked options, dietary preferences, whether the customer is
\* adventurous, the options of drinks ordered or saved, and favourite menu items.
Profile == [liked: SUBSET Options, disliked: SUBSET Options, diet: SUBSET Diets,
            bold: BOOLEAN, counted: SUBSET Options, recipes: SUBSET DOMAIN MENU_ITEMS]

\* _seed_profile: that of a guest.
NewProfile == [liked |-> {}, disliked |-> {}, diet |-> {}, bold |-> FALSE,
               counted |-> {}, recipes |-> {}]

\* _option_allowed
Allowed(option, diet) ==
    /\ "dairy-free" \in diet => option \notin Dairy
    /\ "caffeine-free" \in diet => option \notin Caffeinated
    /\ "zero-sugar" \in diet => option \in SugarFree
    /\ "citrus-free" \in diet => option \notin Citrus

AllowedOf(options, diet) == { o \in options : Allowed(o, diet) }

\* The first n of a sequence of groups, those of a group in any order.
UpTo(groups, i) == UNION { groups[j] : j \in 1 .. i }
FirstOf(groups, n) ==
    LET all == UpTo(groups, Len(groups))
    IN  { R \in kSubset(IF Cardinality(all) < n THEN Cardinality(all) ELSE n, all) :
            \A i \in DOMAIN groups : R \subseteq UpTo(groups, i) \/ UpTo(groups, i) \subseteq R }

Capped(options, n) == FirstOf(<<options>>, n)

-----------------------------------------------------------------------------
(* AI Help Me Build It: recommend_builder_configuration *)

\* _pick_best: the menu item's soda when nothing is known of the customer.
FillSoda(p, soda, item) ==
    LET known == AllowedOf(Sodas \cap (p.liked \cup p.counted), p.diet)
    IN  IF soda # NoOption THEN {soda}
        ELSE IF known # {} THEN known
        ELSE {MENU_ITEMS[item].soda}

\* _recommended_syrups: with nothing left, those of the menu item all the same.
FillSyrups(p, syrups, item) ==
    LET wanted == Syrups \ p.disliked
        ranked == << AllowedOf(wanted \cap p.counted, p.diet),
                     AllowedOf(wanted \cap p.liked, p.diet),
                     AllowedOf(MENU_ITEMS[item].syrups \ p.disliked, p.diet) >>
    IN  IF syrups # {} THEN Capped(syrups, 3)
        ELSE IF UpTo(ranked, 3) = {} THEN {MENU_ITEMS[item].syrups}
        ELSE FirstOf(ranked, IF p.bold THEN 2 ELSE 1)

\* What goes with the soda is not checked against the dislikes.
Pairings(soda) ==
    (IF soda \in Citrus THEN << {"fresh-mint"}, {"coconut-cream"}, {"lime-wedge"} >> ELSE <<>>)
    \o (IF soda \in Cola THEN << {"lime-wedge"}, {"cream"} >> ELSE <<>>)

\* Mutant: the pairings are added after the check.
FillAddIns_PairsUnchecked(p, addIns, item, soda) ==
    LET wanted == AddIns \ p.disliked
        ranked == << AllowedOf(wanted \cap p.counted, p.diet),
                     AllowedOf(wanted \cap p.liked, p.diet),
                     AllowedOf(MENU_ITEMS[item].addIns \ p.disliked, p.diet) >>
                  \o Pairings(soda)
    IN  IF addIns # {} THEN Capped(addIns, 2) ELSE FirstOf(ranked, 2)

\* _recommended_add_ins
FillAddIns(p, addIns, item, soda) ==
    LET wanted == AddIns \ p.disliked
        ranked == << wanted \cap p.counted, wanted \cap p.liked,
                     MENU_ITEMS[item].addIns \ p.disliked >> \o Pairings(soda)
    IN  IF addIns # {} THEN Capped(addIns, 2)
        ELSE FirstOf([i \in DOMAIN ranked |-> AllowedOf(ranked[i], p.diet)], 2)

\* _recommended_ice_cream: every menu item that comes with one is a float.
FillIceCream(p, iceCream, item) ==
    LET liked == IceCreams \cap p.liked
    IN  IF iceCream # NoOption THEN {iceCream}
        ELSE IF "dairy-free" \in p.diet THEN {NoOption}
        ELSE IF liked = {} THEN {MENU_ITEMS[item].iceCream}
        ELSE IF liked \cap p.counted # {} THEN liked \cap p.counted
        ELSE liked

\* The selection it answers to a posted one: recommend_builder_configuration.
Filled(sel, soda, syrups, addIns, iceCream) ==
    [sel EXCEPT !.soda = soda, !.syrups = syrups, !.addIns = addIns, !.iceCream = iceCream]

-----------------------------------------------------------------------------
(* Menu items *)

Ingredients(item) ==
    LET drink == MENU_ITEMS[item]
    IN  {drink.soda} \cup drink.syrups \cup drink.addIns \cup ({drink.iceCream} \ {NoOption})

\* Mutant: an ingredient that is avoided counts for less than one that is not.
Score_Mild(p, item) ==
    LET drink == MENU_ITEMS[item]
        Points(n, options) == n * Cardinality(options \ p.disliked)
    IN  1 + (IF item \in p.recipes THEN 6 ELSE 0)
          + Points(4, {drink.soda}) + Points(3, drink.syrups) + Points(2, drink.addIns)
          + Points(2, {drink.iceCream})

\* recommend_drink_menu_scores
Score(p, item) ==
    LET drink == MENU_ITEMS[item]
        Points(n, options) == n * Cardinality(options \cap p.liked)
    IN  1 + (IF item \in p.recipes THEN 6 ELSE 0)
          + Points(4, {drink.soda}) + Points(3, drink.syrups) + Points(2, drink.addIns)
          + Points(2, {drink.iceCream})
          - 5 * Cardinality(Ingredients(item) \cap p.disliked)

\* recommend_drinks_for_user: the best, of those that tie any.
Best(p, items, n) ==
    { R \in kSubset(n, items) : \A i \in R, j \in items \ R : Score(p, i) >= Score(p, j) }

\* The menu items beside an answer, at most four, never with a disliked
\* ingredient: _normalize_menu_matches, _filter_matches_by_avoidances and
\* _pad_menu_matches of what the provider answered, and _menu_match_suggestions
\* where it did not, whose words decide the order.
Matches(p, items, answer) ==
    LET suiting == { i \in items : Ingredients(i) \cap p.disliked = {} }
    IN  FirstOf(<<answer \cap suiting, suiting>>, 4)
=============================================================================
