\* The parent returns to a locale while another one is being activated.
SPECIFICATION ProviderLiveSpec
CONSTANTS
  Locales = {en, th}
  Initial = en
  None = None
  MaxCalls = 3
  MaxPreloads = 0
  Returning = TRUE
CHECK_DEADLOCK FALSE
PROPERTIES
  SelectionServed
