\* An application uses the controller directly, or mounts the Provider whose
\* parent selects each locale at most once; effects run again, loads and
\* changes fail, the controller is disposed.
SPECIFICATION ProviderLiveSpec
CONSTANTS
  Locales = {en, th, ja}
  Initial = en
  None = None
  MaxCalls = 3
  MaxPreloads = 1
  Returning = FALSE
CHECK_DEADLOCK FALSE
INVARIANTS
  LanguageFollowsActive
  ChildrenInTheirLocale
PROPERTIES
  ServedInOrder
  SelectionServed
  ActivationsSettle
