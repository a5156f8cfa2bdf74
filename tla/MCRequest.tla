------------------------------ MODULE MCRequest ------------------------------
(* Requests of both kinds over catalogues of up to CatalogueSize of ten       *)
(* perfumes: Dior's Sauvage (1), its Elixir under two more names of the house *)
(* (2, 3), two that are called Black (4, 5), a pair that differs only in how  *)
(* strong they are (5, 6), two without note data (3, 10).                     *)
EXTENDS Request

CONSTANTS CatalogueSize

MCTerm == {"lemon", "oud", "rose", "vanilla", "bean"}
MCScenarioAccords == [gym |-> {"lemon"}, office |-> {"lemon", "oud"}, wedding |-> {"rose", "oud"}]
MCScenarioNotes == [gym |-> {"lemon"}, office |-> {}, wedding |-> {"rose", "vanilla"}]
MCDefaults ==
    [gym |-> [hours |-> 4, projection |-> "light"], office |-> [hours |-> 8, projection |-> "light"],
     wedding |-> [hours |-> 10, projection |-> "strong"]]
MCFamilyTerms == [citrus |-> {"lemon"}, floral |-> {"rose"}, gourmand |-> {"vanilla"}]
MCAgeAccords == [young |-> {"lemon"}, old |-> {"oud", "rose"}]

Plain ==
    [brand |-> "armaf", nameLen |-> 5, price |-> 3000, gender |-> "male", leans |-> "none",
     type |-> None, longevity |-> 60, sillage |-> 60, similarity |-> 60,
     notes |-> {"oud"}, accords |-> {"oud"}, top |-> {}, base |-> {"oud"}]

MCDetails == [r \in Row |-> [id |-> r] @@
    CASE r = 1 -> [Plain EXCEPT !.brand = "dior", !.nameLen = 7, !.price = 9000, !.type = "edt",
                     !.notes = {"lemon"}, !.accords = {"lemon", "oud"}, !.top = {"lemon"},
                     !.similarity = 80]
      [] r = 2 -> [Plain EXCEPT !.brand = "christian dior", !.nameLen = 14, !.price = 8000,
                     !.type = "elixir", !.notes = {"lemon"}, !.accords = {"lemon", "oud"},
                     !.longevity = 90]
      [] r = 3 -> [Plain EXCEPT !.brand = "diorfor", !.nameLen = 6, !.notes = {}, !.price = 8000,
                     !.accords = {"lemon"}, !.top = {}, !.base = {}, !.gender = None]
      [] r = 4 -> [Plain EXCEPT !.brand = "creed", !.price = 20000, !.longevity = Unknown,
                     !.notes = {"rose", "vanilla"}, !.accords = {"rose", "oud"}, !.sillage = 80]
      [] r = 5 -> Plain
      [] r = 6 -> [Plain EXCEPT !.brand = "ajmal", !.longevity = 80, !.similarity = 90]
      [] r = 7 -> [Plain EXCEPT !.brand = "ajmal", !.gender = "unisex", !.leans = "female",
                     !.notes = {"rose", "vanilla"}, !.accords = {"rose", "vanilla"}, !.sillage = 80]
      [] r = 8 -> [Plain EXCEPT !.brand = "icy", !.price = 0, !.notes = {"vanilla"},
                     !.accords = {}, !.gender = "female", !.sillage = Unknown,
                     !.similarity = -10]
      [] r = 9 -> [Plain EXCEPT !.brand = "icy", !.price = 900, !.notes = {"lemon", "vanilla"},
                     !.accords = {"lemon"}, !.top = {"lemon"}, !.gender = "unisex",
                     !.sillage = 20, !.longevity = 45]
      [] OTHER -> [Plain EXCEPT !.brand = "akon", !.nameLen = 4, !.price = 3000, !.notes = {},
                     !.accords = {"oud", "lemon", "rose"}, !.longevity = 75]]

MCBrandLen ==
    [x \in {"dior", "christian dior", "diorfor", "creed", "armaf", "ajmal", "icy", "akon"} |->
        CASE x = "christian dior" -> 14 [] x = "diorfor" -> 7 [] x = "icy" -> 3
          [] x \in {"dior", "akon"} -> 4 [] OTHER -> 5]
MCInside ==
    [x \in DOMAIN MCBrandLen |-> IF x = "dior" THEN {"dior", "christian dior", "diorfor"} ELSE {x}]

MCCatalogues == {S \in SUBSET Row : Cardinality(S) \in 1..CatalogueSize}

-----------------------------------------------------------------------------
\* What a query says of a row it has nothing to do with.
Nothing ==
    [brand |-> FALSE, name |-> FALSE, nameLeft |-> FALSE, brandSim |-> 0, nameSim |-> 10,
     names |-> "no"]
ByItsName == [Nothing EXCEPT !.name = TRUE, !.nameLeft = TRUE, !.nameSim = 100]

Of(length, f) ==
    [length |-> length, row |-> [r \in Row |-> IF r \in DOMAIN f THEN f[r] ELSE Nothing]]

MCQueries ==
    [vague |-> Of(9, <<>>),
     \* "Dior Sauvage", "Christian Dior Sauvage Elixir", "Diorfor Sauvage Elixir"
     dior |-> Of(12, 1 :> [ByItsName EXCEPT !.brand = TRUE, !.brandSim = 100, !.names = "exact"]
                  @@ 2 :> [Nothing EXCEPT !.brandSim = 40, !.nameSim = 55]
                  @@ 3 :> [Nothing EXCEPT !.brandSim = 60]),
     elixir |-> Of(29, [r \in 1..3 |-> [ByItsName EXCEPT !.brand = (r # 3), !.brandSim = 60,
                           !.names = IF r = 2 THEN "exact" ELSE IF r = 1 THEN "full" ELSE "name"]]),
     copy |-> Of(22, [r \in 1..3 |-> [ByItsName EXCEPT !.brand = (r # 2), !.brandSim = 60,
                         !.names = IF r = 3 THEN "both" ELSE "name"]]),
     sauvage |-> Of(14, [r \in 1..3 |-> [ByItsName EXCEPT !.names = "name"]]),
     black |-> Of(5, [r \in {4, 5} |-> [ByItsName EXCEPT !.names = "name"]]
                  @@ 10 :> [Nothing EXCEPT !.nameSim = 50]),
     typo |-> Of(10, [r \in {4, 5, 7} |-> [Nothing EXCEPT !.brandSim = IF r = 4 THEN 50 ELSE 31,
                                                        !.nameSim = 40]]),
     little |-> Of(3, 9 :> [Nothing EXCEPT !.brand = TRUE, !.nameSim = 46, !.names = "brand"]),
     houses |-> Of(12, 5 :> [Nothing EXCEPT !.names = "both"]
                    @@ 6 :> [Nothing EXCEPT !.names = "name"]
                    @@ 7 :> [Nothing EXCEPT !.names = "exact"])]

Simple ==
    [handler |-> "context", blank |-> FALSE, short |-> FALSE, dupeIntent |-> FALSE, query |-> "vague",
     words |-> {}, scenarios |-> {}, families |-> {}, negated |-> {}, excluded |-> {},
     hoursField |-> 0, hoursTyped |-> 0, longPhrase |-> FALSE,
     projectionField |-> None, projectionTyped |-> None, genderField |-> None,
     genderTyped |-> None, age |-> None, budgetTyped |-> Absent, budgetField |-> Absent,
     dealBreaker |-> FALSE]

\* What the budget, the lookup and the handler have to do with each other.
Dupes ==
    {[Simple EXCEPT !.handler = h, !.dupeIntent = TRUE, !.query = x, !.budgetTyped = t,
                    !.budgetField = b, !.short = (x = "little" /\ t = 500)] :
        h \in {"context", "dupe"},
        x \in DOMAIN MCQueries,
        t \in {Absent, 50, 500, 8500}, b \in {Absent, 5000}}

\* Signals, with and without a budget.
Searches ==
    {[Simple EXCEPT !.scenarios = c, !.families = f, !.hoursTyped = h, !.longPhrase = (h = 5),
                    !.budgetField = b, !.dealBreaker = (d /\ b # Absent)] :
        c \in {{}, {"gym"}, {"office", "gym"}, {"wedding"}, {"unheard of"}},
        f \in {{}, {"citrus"}, {"floral", "gourmand"}}, h \in {0, 5, 8},
        b \in {Absent, 8000}, d \in BOOLEAN}

\* Names, negated terms ("no vanilla bean" is not found by the pattern), people.
Particulars ==
    {[Simple EXCEPT !.words = w, !.negated = n, !.excluded = n \ {"vanilla", "oud"},
                    !.query = x, !.genderField = g, !.genderTyped = "female", !.age = a,
                    !.longPhrase = (a = "old"), !.budgetTyped = b,
                    !.projectionField = IF a = "young" THEN "strong" ELSE None] :
        w \in {{}, {"oud", "lemon", "rose"}}, n \in {{}, {"vanilla"}, {"rose", "oud"}},
        x \in {"vague", "elixir", "houses"},
        g \in {None, "male"}, a \in {None, "young", "old"}, b \in {Absent, 3000}}

Blanks == {[Simple EXCEPT !.handler = h, !.blank = TRUE, !.short = TRUE] : h \in {"context", "dupe"}}

MCRequests == Dupes \cup Searches \cup Particulars \cup Blanks
=============================================================================
