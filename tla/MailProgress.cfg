SPECIFICATION Spec
CHECK_DEADLOCK FALSE
PROPERTIES QueueDrains TransactionsEnd FiltersSettle
