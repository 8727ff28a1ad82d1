------------------------------ MODULE Builder ------------------------------
(***************************************************************************)
(* A customer who is signed in: the taste profile (users/services.py), the *)
(* drink builder and the menu assistant (orders/views.py, assistant.py),   *)
(* the favourites, and the lines that they put into the cart.              *)
(*                                                                         *)
(* save_preference_profile deletes the rows of the profile and creates the *)
(* new ones, each in a transaction of its own: a fill may read any of them *)
(* in between, two saves may overlap, and a process may die half way.      *)
(***************************************************************************)
EXTENDS Taste

CONSTANTS
    Items,         \* the menu
    Opened,        \* menu items opened in the builder
    Limit,         \* menu items recommended at once: 4, or 2 in a notification
    Forms,         \* profiles the customer may ask for: liked, disliked, diet, bold
    Picks,         \* options the customer may tick or untick
    Ideas,         \* drinks of the menu assistant: item, sel
    Savers,        \* web workers that save profiles
    MaxEdits,      \* bound: ticks on a page
    MaxKept,       \* bound: favourites and orders kept, all of which count
    MaxSaves       \* bound: profiles saved

ASSUME ItemAssumption == Opened \subseteq Items /\ Items \subseteq DOMAIN MENU_ITEMS
ASSUME FormAssumption ==
    Forms \subseteq [liked: SUBSET Options, disliked: SUBSET Options, diet: SUBSET Diets,
                     bold: BOOLEAN]
ASSUME KeptAssumption == MaxKept \in 0 .. 8
ASSUME PickAssumption == Picks \subseteq Options

VARIABLES
    prefs,       \* TastePreference rows: type and token
    bold,        \* the customer is adventurous
    saving,      \* the profile each worker is saving: the form, and the rows to create
    page,        \* the page shown: a builder, with its menu item, selection and number of
                 \* ticks, the cart after a drink was put into it, with its new line, or
                 \* the recommendations
    draft,       \* what the menu assistant answered last, in the session
    favorites,   \* FavoriteDrink rows by name
    ordered,     \* the drinks of the customer's orders: the options of each
    asked,       \* history: the profile saved last
    torn,        \* history: saves overlapped or died since the last whole one
    saves        \* number of saves begun

profileVars == <<prefs, bold, saving, asked, torn, saves>>
shownVars == <<page, draft>>
builderVars == <<profileVars, shownVars, favorites, ordered>>

-----------------------------------------------------------------------------
Nothing == [is |-> "none"]

Selection == [size: Sizes, soda: Sodas \cup {NoOption}, syrups: SUBSET Syrups,
              addIns: SUBSET AddIns, iceCream: IceCreams \cup {NoOption}]

\* What the form starts with where the address says nothing.
Default(item) ==
    LET drink == MENU_ITEMS[item]
    IN  [size |-> "medium", soda |-> drink.soda, syrups |-> drink.syrups,
         addIns |-> drink.addIns, iceCream |-> drink.iceCream]

OptionsOf(sel) == {sel.soda} \cup Extras(sel)

\* The profile that the rows, the favourites and the recent orders make:
\* build_user_taste_profile.  A favourite of the assistant keeps its options where
\* nobody looks for them.
TasteOf ==
    [liked |-> { t \in Options : <<"favorite", t>> \in prefs },
     disliked |-> { t \in Options : <<"dislike", t>> \in prefs },
     diet |-> { t \in Diets : <<"dietary", t>> \in prefs },
     bold |-> bold,
     counted |-> UNION { OptionsOf(favorites[n].sel) : n \in { m \in DOMAIN favorites : ~favorites[m].ai } }
                   \cup UNION { ordered[i] : i \in DOMAIN ordered },
     recipes |-> { favorites[n].item : n \in DOMAIN favorites }]

BuilderInit ==
    /\ prefs = {}
    /\ bold = FALSE
    /\ saving = [w \in Savers |-> Nothing]
    /\ page = Nothing
    /\ draft = Nothing
    /\ favorites = <<>>
    /\ ordered = <<>>
    /\ asked = [liked |-> {}, disliked |-> {}, diet |-> {}, bold |-> FALSE]
    /\ torn = FALSE
    /\ saves = 0

-----------------------------------------------------------------------------
(* The taste profile *)

Saving == { w \in Savers : saving[w] # Nothing }

\* Mutant: the form takes what it is sent.
Cleaned_Kept(form) == form

\* PreferenceProfileForm.clean: what is liked is not avoided.
Cleaned(form) == [form EXCEPT !.disliked = @ \ form.liked]

Rows(form) ==
    ({"favorite"} \X form.liked) \cup ({"dislike"} \X form.disliked)
        \cup ({"dietary"} \X form.diet)

StartSave(w, form) ==
    /\ saving[w] = Nothing
    /\ saves < MaxSaves
    /\ saves' = saves + 1
    /\ prefs' = {}
    /\ saving' = [saving EXCEPT ![w] = [form |-> Cleaned(form), todo |-> Rows(Cleaned(form))]]
    /\ torn' = (torn \/ Saving # {})
    /\ UNCHANGED <<bold, asked, shownVars, favorites, ordered>>

\* Favourites first, dietary preferences last.
Kinds == <<"favorite", "dislike", "dietary">>
NextRows(todo) ==
    { row \in todo : \A other \in todo :
        \A i, j \in 1 .. 3 : Kinds[i] = other[1] /\ Kinds[j] = row[1] => j <= i }

\* A row that is there already, from a save that overlaps, ends the request.
CreateRow(w) ==
    /\ saving[w] # Nothing
    /\ \E row \in NextRows(saving[w].todo) :
         IF row \in prefs
         THEN /\ saving' = [saving EXCEPT ![w] = Nothing]
              /\ torn' = TRUE
              /\ UNCHANGED prefs
         ELSE /\ prefs' = prefs \cup {row}
              /\ saving' = [saving EXCEPT ![w].todo = @ \ {row}]
              /\ UNCHANGED torn
    /\ UNCHANGED <<bold, asked, saves, shownVars, favorites, ordered>>

\* The user's own columns are saved last.
EndSave(w) ==
    /\ saving[w] # Nothing
    /\ saving[w].todo = {}
    /\ bold' = saving[w].form.bold
    /\ asked' = saving[w].form
    /\ saving' = [saving EXCEPT ![w] = Nothing]
    /\ torn' = (torn /\ (Saving # {w} \/ prefs # Rows(saving[w].form)))
    /\ UNCHANGED <<prefs, saves, shownVars, favorites, ordered>>

DieSaving(w) ==
    /\ saving[w] # Nothing
    /\ saving' = [saving EXCEPT ![w] = Nothing]
    /\ torn' = TRUE
    /\ UNCHANGED <<prefs, bold, asked, saves, shownVars, favorites, ordered>>

-----------------------------------------------------------------------------
(* The builder *)

Show(item, sel) == page' = [is |-> "builder", item |-> item, sel |-> sel, edits |-> 0]

OpenBuilder(item) ==
    /\ Show(item, Default(item))
    /\ UNCHANGED <<profileVars, draft, favorites, ordered>>

\* The customer ticks or unticks an option.
Ticked(sel, o) ==
    CASE o \in Sodas -> [sel EXCEPT !.soda = o]
      [] o \in Syrups -> [sel EXCEPT !.syrups = SymDiff(@, {o})]
      [] o \in AddIns -> [sel EXCEPT !.addIns = SymDiff(@, {o})]
      [] o \in IceCreams -> [sel EXCEPT !.iceCream = IF @ = o THEN NoOption ELSE o]

Tick(o) ==
    /\ page.is = "builder"
    /\ page.edits < MaxEdits
    /\ page' = [page EXCEPT !.sel = Ticked(@, o), !.edits = @ + 1]
    /\ UNCHANGED <<profileVars, draft, favorites, ordered>>

\* BuilderAiFillView, posted with or without the soda that is checked.
Fill ==
    /\ page.is = "builder"
    /\ \E posted \in {NoOption, page.sel.soda} : \E soda \in FillSoda(TasteOf, posted, page.item) :
         \E syrups \in FillSyrups(TasteOf, page.sel.syrups, page.item),
            addIns \in FillAddIns(TasteOf, page.sel.addIns, page.item, soda),
            iceCream \in FillIceCream(TasteOf, page.sel.iceCream, page.item) :
              page' = [page EXCEPT !.sel = Filled(@, soda, syrups, addIns, iceCream)]
    /\ UNCHANGED <<profileVars, draft, favorites, ordered>>

\* A selection goes to another page in its address, which leaves out what is
\* empty: there the form falls back to the menu item's own.
Reopened(item, sel) ==
    LET default == Default(item)
    IN  [size |-> sel.size,
         soda |-> IF sel.soda # NoOption THEN sel.soda ELSE default.soda,
         syrups |-> IF sel.syrups # {} THEN sel.syrups ELSE default.syrups,
         addIns |-> IF sel.addIns # {} THEN sel.addIns ELSE default.addIns,
         iceCream |-> IF sel.iceCream # NoOption THEN sel.iceCream ELSE default.iceCream]

\* CustomizeSwitchStoreView; the cart is Storefront's.
SwitchBuilderStore ==
    /\ page.is = "builder"
    /\ page.sel.soda # NoOption
    /\ page' = [page EXCEPT !.sel = Reopened(page.item, @)]
    /\ UNCHANGED <<profileVars, draft, favorites, ordered>>

-----------------------------------------------------------------------------
(* The menu assistant *)

\* _build_fallback_recipe: a soda, two syrups, an add-in and ice cream, none of
\* them avoided, whatever the diet.
IsFallback(sel) ==
    /\ Cardinality(sel.syrups) = 2
    /\ Cardinality(sel.addIns) = 1
    /\ sel.iceCream # NoOption
    /\ OptionsOf(sel) \cap TasteOf.disliked = {}

\* MenuAiGenerateView: the provider's recipe, of options the shop has, or the
\* fallback's when its calls have failed.
Prompt(idea, answer) ==
    /\ \/ answer # {}
       \/ IsFallback(idea.sel)
    /\ \E shown \in Matches(TasteOf, Items, answer) :
         draft' = [item |-> idea.item, sel |-> idea.sel, matches |-> shown]
    /\ UNCHANGED <<profileVars, page, favorites, ordered>>

\* RecommendationView, and refresh_account_recommendations after a save: a
\* provider only rewrites the explanations.
Recommend ==
    /\ \E best \in Best(TasteOf, Items, Limit) : page' = [is |-> "ideas", items |-> best]
    /\ UNCHANGED <<profileVars, draft, favorites, ordered>>

OpenDraft ==
    /\ draft # Nothing
    /\ Show(draft.item, Reopened(draft.item, draft.sel))
    /\ UNCHANGED <<profileVars, draft, favorites, ordered>>

-----------------------------------------------------------------------------
(* The cart and the favourites *)

\* build_cart_item
BuiltLine(item, sel) ==
    [is |-> "cart", item |-> item, sel |-> sel,
     price |-> ItemTotal(item, sel), takes |-> Requirements(sel)]

\* A builder's favourite is named for its item and size.
NameOf(item, sel) == <<item, sel.size>>

\* save_favorite_drink: update_or_create by name.
SaveFavorite(name, row) ==
    /\ Cardinality(DOMAIN favorites \cup {name}) + Len(ordered) <= MaxKept
    /\ favorites' = (name :> row) @@ favorites

\* CustomizeDrinkView.post
AddToCart(save) ==
    /\ page.is = "builder"
    /\ page.sel.soda # NoOption
    /\ page' = BuiltLine(page.item, page.sel)
    /\ IF save THEN SaveFavorite(NameOf(page.item, page.sel),
                                 [item |-> page.item, sel |-> page.sel, ai |-> FALSE])
       ELSE UNCHANGED favorites
    /\ UNCHANGED <<profileVars, draft, ordered>>

AddDraft ==
    /\ draft # Nothing
    /\ page' = BuiltLine(draft.item, draft.sel)
    /\ UNCHANGED <<profileVars, draft, favorites, ordered>>

SaveDraft ==
    /\ draft # Nothing
    /\ SaveFavorite(<<"custom", draft.sel.size>>, [item |-> draft.item, sel |-> draft.sel, ai |-> TRUE])
    /\ UNCHANGED <<profileVars, shownVars, ordered>>

\* FavoriteAddToCartView: a favourite has kept the price before the extras.  The
\* assistant's has the price of the extras too, but not what it takes from the
\* store.
FavoriteLine(f) ==
    [BuiltLine(f.item, f.sel) EXCEPT
        !.price = @ - (IF f.ai THEN 0 ELSE ExtrasTotal(f.sel)),
        !.takes = IF f.ai THEN <<>> ELSE @]

AddFavorite(name) ==
    /\ page' = FavoriteLine(favorites[name])
    /\ UNCHANGED <<profileVars, draft, favorites, ordered>>

RemoveFavorite(name) ==
    /\ favorites' = [n \in DOMAIN favorites \ {name} |-> favorites[n]]
    /\ UNCHANGED <<profileVars, shownVars, ordered>>

\* The line is ordered, as Storefront and OrderPayment have it.  One that does not
\* say what it takes does not say its options either.
Order ==
    /\ page.is = "cart"
    /\ Cardinality(DOMAIN favorites) + Len(ordered) < MaxKept
    /\ ordered' = Append(ordered, IF page.takes = <<>> THEN {} ELSE OptionsOf(page.sel))
    /\ page' = Nothing
    /\ UNCHANGED <<profileVars, draft, favorites>>

-----------------------------------------------------------------------------
SaveProfile ==
    \E w \in Savers :
        (\E form \in Forms : StartSave(w, form)) \/ CreateRow(w) \/ EndSave(w) \/ DieSaving(w)

Build ==
    \/ \E item \in Opened : OpenBuilder(item)
    \/ \E o \in Picks : Tick(o)
    \/ Fill
    \/ SwitchBuilderStore

Assist ==
    \/ \E idea \in Ideas, answer \in SUBSET Items : Prompt(idea, answer)
    \/ Recommend \/ OpenDraft \/ AddDraft \/ SaveDraft

Buy ==
    \/ \E save \in BOOLEAN : AddToCart(save)
    \/ \E name \in DOMAIN favorites : AddFavorite(name) \/ RemoveFavorite(name)
    \/ Order

BuilderNext == SaveProfile \/ Build \/ Assist \/ Buy

BuilderSpec == BuilderInit /\ [][BuilderNext]_builderVars

-----------------------------------------------------------------------------
(* Properties *)

\* Nobody is saving the profile, and the rows are those of the last save.
ProfileSettled == Saving = {} /\ ~torn

\* The profile is the one saved last, and nothing in it is both liked and
\* avoided, unless saves overlapped or died: a fill or a suggestion may then
\* read a part of it.
ProfileWhole ==
    ProfileSettled =>
        /\ prefs = Rows(asked)
        /\ bold = asked.bold
        /\ TasteOf.liked \cap TasteOf.disliked = {}

\* "Dairy add-ins stay out of AI suggestions": what a fill adds suits the diet
\* saved last, except that it may fall back to the menu item's own soda and
\* syrups, and that ice cream is kept from nobody whose diet allows dairy.
FillKeepsDiet ==
    [][ProfileSettled /\ page' # page /\ Fill =>
         \A o \in OptionsOf(page'.sel) \ OptionsOf(page.sel) :
            \/ Allowed(o, asked.diet)
            \/ o \in {MENU_ITEMS[page.item].soda} \cup MENU_ITEMS[page.item].syrups
            \/ o \in Scoop(page'.sel) /\ "dairy-free" \notin asked.diet]_builderVars

\* A drink with something in it that the customer avoids is not recommended
\* before one without, unless the customer likes something in it, or the drink.
AvoidedComesLast ==
    [][ProfileSettled /\ Recommend =>
         \A i \in page'.items, j \in Items \ page'.items :
            /\ Ingredients(i) \cap asked.disliked # {}
            /\ Ingredients(j) \cap asked.disliked = {}
            => Ingredients(i) \cap asked.liked # {} \/ i \in TasteOf.recipes]_builderVars

=============================================================================
